--------------------------- MODULE MCThreadPool ---------------------------
(* The thread pool with small sets of callers and workers. *)
EXTENDS ThreadPool, TLC

Symmetry == Permutations(Caller) \cup Permutations(Worker)
=============================================================================
