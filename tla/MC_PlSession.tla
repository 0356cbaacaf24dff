---------------------------- MODULE MC_PlSession ----------------------------
(* Instantiation of PlSession for TLC: two worker threads, one connection, *)
(* a depth limit of 1 (so two frames fit and the third push hits it).     *)
EXTENDS PlSession, TLC

CONSTANTS t1, t2, c1

MCThreads == {t1, t2}
MCConns == {c1}
MCMaxDepth == 1
MCMaxFrames == 4
\* an interrupt from outside this file, and a code set_interrupt ignores
MCExternalReasons == {"ER_INTERRUPTED", "ER_FAILED"}

\* threads are interchangeable: none is distinguished by the code
ThreadSymmetry == Permutations(MCThreads)
=============================================================================
