---------------------------- MODULE MCIdempotency ---------------------------
(* Idempotency on a small instance.  The run checks liveness and the       *)
(* implementation of OnceOnly, so it uses no symmetry.                     *)
EXTENDS Idempotency
=============================================================================
