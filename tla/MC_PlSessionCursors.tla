------------------------ MODULE MC_PlSessionCursors ------------------------
(* Instantiation of PlSessionCursors for TLC: two threads, the null query *)
(* id, two ids that get cursors and one at the (scaled-down) SHRT_MAX     *)
(* limit; three cursor objects, so an id can be destroyed and get a new   *)
(* cursor while the other id holds one.                                   *)
EXTENDS PlSessionCursors, TLC

CONSTANTS t1, t2

MCThreads == {t1, t2}
MCQueryIds == {NULL_QUERY_ID, 1, 2, 3}
MCShrtMax == 3
MCMaxCursors == 3

\* the two threads are interchangeable
ThreadSymmetry == Permutations(MCThreads)
=============================================================================
