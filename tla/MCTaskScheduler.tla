--------------------------- MODULE MCTaskScheduler ---------------------------
(* TLC instance of TaskScheduler. *)
EXTENDS TaskScheduler, TLC

Symmetry == Permutations(Clients)
=============================================================================
