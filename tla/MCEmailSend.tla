---- MODULE MCEmailSend ----
(* TLC instances of EmailSend. *)
EXTENDS EmailSendRefinement, TLC

EmailSymmetry == Permutations(Emails)
====
