---------------------------- MODULE MCIdempotency ----------------------------
(* Idempotency for TLC, which checks liveness and so without symmetry. *)
EXTENDS Idempotency
=============================================================================
