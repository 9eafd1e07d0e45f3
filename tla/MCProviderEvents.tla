---- MODULE MCProviderEvents ----
(* TLC instances of ProviderEvents, and of Webhooks under it. *)
EXTENDS ProviderEvents, TLC
====
