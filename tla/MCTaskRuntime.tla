---------------------------- MODULE MCTaskRuntime ----------------------------
(* TaskRuntime with what its TLC configurations need. *)
EXTENDS TaskRuntime, TLC

Symmetry == Permutations(Handlers) \cup Permutations(Tasks)
=============================================================================
