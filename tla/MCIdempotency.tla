---------------------------- MODULE MCIdempotency ----------------------------
(* Idempotency on a small instance: see MCIdempotency.cfg. *)
EXTENDS Idempotency
=============================================================================
