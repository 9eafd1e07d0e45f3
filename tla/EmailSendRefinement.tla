------------------------- MODULE EmailSendRefinement -------------------------
(***************************************************************************)
(* EmailSend implements EmailPromise.  A row is committed while its claim  *)
(* stands, and, failed under its claim, for as long as the attempt that    *)
(* holds it may still hand it to SES.                                      *)
(***************************************************************************)
EXTENDS EmailSend

Taken(e) == \E j \in Jobs : Holds(j, e)

StageOf(e) ==
  IF handed[e] > 0 THEN "sent"
  ELSE IF (status[e] = "queued" /\ sentAt[e] # "null") \/ Taken(e) THEN "committed"
  ELSE IF status[e] \in {"queued", "queued_quota"} THEN "waiting"
  ELSE IF status[e] = "none" THEN "none"
  ELSE "withdrawn"

Promise == INSTANCE EmailPromise
             WITH stage <- [e \in Emails |-> StageOf(e)], deliveries <- handed

(* The send lane (send-email.ts:515-1485) and all that writes its rows keep *)
(* the promise: sent once or withdrawn, and either for good.                *)
KeepsPromise == Promise!Spec
=============================================================================
