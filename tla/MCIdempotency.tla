---- MODULE MCIdempotency ----
(* TLC instances of Idempotency. *)
EXTENDS Idempotency
====
