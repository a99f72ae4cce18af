---------------------------- MODULE MCThreadPool ----------------------------
(* Small instances of ThreadPool for TLC.                                  *)
EXTENDS ThreadPool

CONSTANTS j1, j2, j3, j4, t1, t2, t3

\* Jobs and workers are interchangeable: no action orders them.
Symmetry == Permutations(Jobs) \cup Permutations(Threads)
=============================================================================
