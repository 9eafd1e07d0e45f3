----------------------------- MODULE EmailPromise -----------------------------
(***************************************************************************)
(* What MepMail promises of an accepted email, whatever jobs, crons,       *)
(* operators and lost answers do behind it: it waits, it is committed to   *)
(* one attempt to deliver it, and it ends either sent, once, or withdrawn, *)
(* for good.  A commitment may be recalled, but only if nothing was sent.  *)
(***************************************************************************)
EXTENDS Naturals

CONSTANT Emails

VARIABLES
  stage,      \* what has become of each email
  deliveries  \* how often the provider has taken its message

vars == << stage, deliveries >>

Stages == {"none", "waiting", "committed", "sent", "withdrawn"}

Init ==
  /\ stage = [e \in Emails |-> "none"]
  /\ deliveries = [e \in Emails |-> 0]

Moved(e, from, to) ==
  stage[e] = from /\ stage' = [stage EXCEPT ![e] = to]

Accept(e) == Moved(e, "none", "waiting") /\ UNCHANGED deliveries

Commit(e) == Moved(e, "waiting", "committed") /\ UNCHANGED deliveries

Recall(e) == Moved(e, "committed", "waiting") /\ UNCHANGED deliveries

HandOver(e) ==
  /\ Moved(e, "committed", "sent")
  /\ deliveries' = [deliveries EXCEPT ![e] = @ + 1]

(* Canceled, suppressed or failed; a suspension or a deleted domain         *)
(* withdraws many at once.                                                  *)
Withdraw(S) ==
  /\ \A e \in S : stage[e] \in {"waiting", "committed"}
  /\ stage' = [e \in Emails |-> IF e \in S THEN "withdrawn" ELSE stage[e]]
  /\ UNCHANGED deliveries

Next ==
  \/ \E e \in Emails : Accept(e) \/ Commit(e) \/ Recall(e) \/ HandOver(e)
  \/ \E S \in SUBSET Emails : Withdraw(S)

Spec == Init /\ [][Next]_vars
=============================================================================
