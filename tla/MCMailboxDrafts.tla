---- MODULE MCMailboxDrafts ----
(* TLC instances of MailboxDrafts. *)
EXTENDS MailboxDrafts, TLC
====
