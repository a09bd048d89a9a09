---------------------------- MODULE MCTaskQueue ----------------------------
(* A small instance of TaskQueue for TLC. *)
EXTENDS TaskQueue, TLC

Symmetry == Permutations(Workers) \cup Permutations(Tasks)
=============================================================================
