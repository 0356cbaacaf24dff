-------------------------- MODULE MC_PlQueryCursor --------------------------
(* Instantiation of PlQueryCursor for TLC: two threads that may own the   *)
(* cursor, a result of three rows (so a scan can move both ways between     *)
(* rows), and a valid, a zero and a too-large fetch count.                *)
EXTENDS PlQueryCursor, TLC

CONSTANTS t1, t2

MCThreads == {t1, t2}
MCNumRows == 3
MCFetchCountArgs == {0, 5, INT32_MAX}

\* the two threads are interchangeable
ThreadSymmetry == Permutations(MCThreads)
=============================================================================
