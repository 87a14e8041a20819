-------------------------- MODULE MCIdempotency --------------------------
(* Keys for Idempotency. *)
EXTENDS Idempotency, TLC

CONSTANTS k1, k2

=============================================================================
