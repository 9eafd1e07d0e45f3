--------------------------- MODULE EmailClaimProofs ---------------------------
(***************************************************************************)
(* The claim on a row is exclusive and final: ClaimInv is inductive, and   *)
(* the safety properties of EmailSend that rest on the claim follow.       *)
(*                                                                         *)
(* Nearly every step neither gives nor moves a claim.  Such a step is      *)
(* framed: QuietJob says what it may do to each job, QuietRow to each row, *)
(* and QuietStep that ClaimInv survives it.  The others take a claim, hand *)
(* the message over under it, or give it back, and are proved one by one;  *)
(* StepKinds says that there are no more.  That EmailSend implements       *)
(* EmailPromise is proved over the same four kinds of step.                *)
(***************************************************************************)
EXTENDS EmailSendProofs, EmailSendRefinement

ClaimPoints == {"claimed", "refused", "accepted", "recorded"}

Claiming(k) == job[k].st \in {"active", "orphan"} /\ job[k].pc \in ClaimPoints

QuietJob(k) ==
  /\ job'[k].st \in {"created", "retry"} => job'[k].pc = "load"
  /\ Claiming(k)' =>
       /\ Claiming(k) /\ job'[k].email = job[k].email
       /\ \/ job'[k].pc = job[k].pc
          \/ job[k].pc = "claimed" /\ job'[k].pc = "refused"
          \/ job[k].pc = "accepted" /\ job'[k].pc = "recorded" /\ joined'[job[k].email]

QuietRow(e) ==
  /\ handed'[e] = handed[e]
  /\ joined[e] => joined'[e]
  /\ \/ status'[e] = status[e] /\ (sentAt'[e] = "null" <=> sentAt[e] = "null")
     \/ /\ ~ Committed(e) /\ status'[e] \in Unsent \ {"none"}
        /\ status[e] = "none" => Accept(e)
        /\ status'[e] = "queued" => status[e] = "none" \/ sentAt'[e] = "null"
     \/ Committed(e) /\ status'[e] = "failed"
     \/ /\ handed[e] = 1 /\ joined'[e]
        /\ status'[e] \notin {"none", "queued_quota", "queued", "canceled", "suppressed"}

Quiet == (\A k \in Jobs : QuietJob(k)) /\ (\A e \in Emails : QuietRow(e))

LEMMA QuietStep ==
  ASSUME ClaimInv, Quiet
  PROVE  ClaimInv'
<1> USE DEF Quiet
<1>1. ASSUME NEW k \in Jobs PROVE (job[k].st \in {"created", "retry"} => job[k].pc = "load")'
  BY <1>1 DEF QuietJob
<1>2. ASSUME NEW k \in Jobs, NEW e \in Emails, Holds(k, e)'
      PROVE  /\ Holds(k, e)
             /\ \/ job'[k].pc = job[k].pc
                \/ job[k].pc = "claimed" /\ job'[k].pc = "refused"
                \/ job[k].pc = "accepted" /\ job'[k].pc = "recorded" /\ joined'[e]
  BY <1>2 DEF QuietJob, Holds, Claiming, ClaimPoints
<1>3. ASSUME NEW j \in Jobs, NEW k \in Jobs, NEW e \in Emails, (Holds(j, e) /\ Holds(k, e))'
      PROVE  j = k
  BY <1>2, <1>3 DEF ClaimInv
<1>4. ASSUME NEW e \in Emails, Committed(e) PROVE Committed(e)'
  BY <1>4 DEF QuietRow, Committed
<1>5. ASSUME NEW k \in Jobs, NEW e \in Emails, Holds(k, e)'
      PROVE  (/\ Committed(e)
              /\ handed[e] = IF job[k].pc \in {"claimed", "refused"} THEN 0 ELSE 1
              /\ job[k].pc = "recorded" => joined[e])'
  <2>1. /\ Holds(k, e) /\ Committed(e)
        /\ handed[e] = IF job[k].pc \in {"claimed", "refused"} THEN 0 ELSE 1
        /\ job[k].pc = "recorded" => joined[e]
    BY <1>2, <1>5 DEF ClaimInv
  <2>2. Committed(e)'
    BY <1>4, <2>1
  <2>3. handed'[e] = handed[e] /\ (joined[e] => joined'[e])
    BY DEF QuietRow
  <2> QED
    BY <1>2, <1>5, <2>1, <2>2, <2>3
<1>6. ASSUME NEW e \in Emails
      PROVE  (/\ \/ handed[e] = 0 /\ status[e] \in Unsent
                 \/ handed[e] = 1 /\ Committed(e)
              /\ handed[e] = 1 /\ status[e] # "failed" => joined[e] \/ sentAt[e] # "null")'
  <2>1. /\ \/ handed[e] = 0 /\ status[e] \in Unsent
           \/ handed[e] = 1 /\ Committed(e)
        /\ handed[e] = 1 /\ status[e] # "failed" => joined[e] \/ sentAt[e] # "null"
    BY DEF ClaimInv
  <2>2. QuietRow(e)
    OBVIOUS
  <2>3. CASE handed[e] = 0
    <3>1. handed'[e] = 0
      BY <2>2, <2>3 DEF QuietRow
    <3>2. status'[e] \in Unsent
      BY <2>1, <2>2, <2>3 DEF QuietRow, Unsent
    <3> QED
      BY <3>1, <3>2
  <2>4. CASE handed[e] = 1
    <3>1. handed'[e] = 1 /\ Committed(e)'
      BY <1>4, <2>1, <2>2, <2>4 DEF QuietRow
    <3>2. status'[e] # "failed" => joined'[e] \/ sentAt'[e] # "null"
      BY <2>1, <2>2, <2>4 DEF QuietRow, Committed
    <3> QED
      BY <3>1, <3>2
  <2> QED
    BY <2>1, <2>3, <2>4
<1> QED
  BY <1>1, <1>3, <1>5, <1>6 DEF ClaimInv

-----------------------------------------------------------------------------
(* Quiet changes to the queue.                                              *)

LEMMA SameJobQuiet ==
  ASSUME ClaimInv, NEW k \in Jobs, job'[k] = job[k]
  PROVE  QuietJob(k)
BY DEF ClaimInv, QuietJob, Claiming

LEMMA QuietUnchanged ==
  ASSUME ClaimInv, UNCHANGED job
  PROVE  \A k \in Jobs : QuietJob(k)
BY SameJobQuiet

LEMMA QuietGoto ==
  ASSUME TypeOK, ClaimInv, NEW j \in Jobs, NEW pc \in Points \ ClaimPoints,
         job[j].st \in {"active", "orphan"}, Goto(j, pc)
  PROVE  \A k \in Jobs : QuietJob(k)
<1>1. /\ job'[j] = [job[j] EXCEPT !.pc = pc]
      /\ \A k \in Jobs \ {j} : job'[k] = job[k]
  BY GotoEffect
<1>2. job[j] \in JobRecords /\ job[j].st # "free"
  BY JobFields
<1>3. job'[j].st = job[j].st /\ job'[j].pc = pc
  BY <1>1, <1>2 DEF JobRecords, NoJob
<1>4. QuietJob(j)
  BY <1>3 DEF QuietJob, Claiming
<1> QED
  BY <1>1, <1>4, SameJobQuiet

LEMMA QuietCreate ==
  ASSUME ClaimInv, NEW k \in Jobs, job'[k].st = "created", job'[k].pc = "load"
  PROVE  QuietJob(k)
BY DEF QuietJob, Claiming

LEMMA QuietEnqueue ==
  ASSUME TypeOK, ClaimInv, NEW e \in Emails, job' = Enqueue(job, e)
  PROVE  \A k \in Jobs : QuietJob(k)
BY EnqueueEffect, SameJobQuiet, QuietCreate

LEMMA QuietEnqueueDone ==
  ASSUME TypeOK, ClaimInv, NEW j \in Jobs, NEW e \in Emails,
         job[j].st \in {"active", "orphan"},
         job' = Enqueue([job EXCEPT ![j].pc = "done"], e)
  PROVE  \A k \in Jobs : QuietJob(k)
<1>1. /\ job'[j] = [job[j] EXCEPT !.pc = "done"]
      /\ \A k \in Jobs \ {j} :
           job'[k] = job[k] \/ (job'[k].st = "created" /\ job'[k].pc = "load")
  BY EnqueueDoneEffect
<1>2. job[j] \in JobRecords /\ job[j].st # "free"
  BY JobFields
<1>3. job'[j].st = job[j].st /\ job'[j].pc = "done"
  BY <1>1, <1>2 DEF JobRecords, NoJob
<1>4. QuietJob(j)
  BY <1>3 DEF QuietJob, Claiming, ClaimPoints
<1> QED
  BY <1>1, <1>4, SameJobQuiet, QuietCreate

LEMMA QuietFail ==
  ASSUME TypeOK, ClaimInv, NEW j \in Jobs, job[j].st \in {"active", "orphan"},
         job' = [job EXCEPT ![j] = FailedJob(j)]
  PROVE  \A k \in Jobs : QuietJob(k)
<1>1. /\ job'[j].st \in {"free", "retry", "dead"}
      /\ job'[j].st = "retry" => job'[j].pc = "load"
      /\ \A k \in Jobs \ {j} : job'[k] = job[k]
  BY FailEffect
<1>2. QuietJob(j)
  BY <1>1 DEF QuietJob, Claiming
<1> QED
  BY <1>1, <1>2, SameJobQuiet

LEMMA QuietFree ==
  ASSUME TypeOK, ClaimInv, NEW j \in Jobs, job' = [job EXCEPT ![j] = NoJob]
  PROVE  \A k \in Jobs : QuietJob(k)
<1>1. job'[j] = NoJob /\ \A k \in Jobs \ {j} : job'[k] = job[k]
  BY DEF TypeOK
<1>2. QuietJob(j)
  BY <1>1 DEF QuietJob, Claiming, NoJob
<1> QED
  BY <1>1, <1>2, SameJobQuiet

(* Under the claim: after a refusal, and once the message id is recorded.   *)
LEMMA QuietUnderClaim ==
  ASSUME TypeOK, ClaimInv, NEW j \in Jobs,
         \/ At(j, "claimed") /\ Goto(j, "refused")
         \/ At(j, "accepted") /\ Goto(j, "recorded") /\ joined'[job[j].email]
  PROVE  \A k \in Jobs : QuietJob(k)
<1>1. PICK pc \in Points : Goto(j, pc) /\ pc \in {"refused", "recorded"}
  BY DEF Points
<1>2. job[j].st \in {"active", "orphan"}
  BY DEF At
<1>3. /\ job'[j] = [job[j] EXCEPT !.pc = pc]
      /\ \A k \in Jobs \ {j} : job'[k] = job[k]
  BY <1>1, <1>2, GotoEffect
<1>4. job[j] \in JobRecords /\ job[j].st # "free"
  BY <1>2, JobFields
<1>5. job'[j].st = job[j].st /\ job'[j].pc = pc /\ job'[j].email = job[j].email
  BY <1>3, <1>4 DEF JobRecords, NoJob
<1>6. \/ job[j].pc = "claimed" /\ pc = "refused"
      \/ job[j].pc = "accepted" /\ pc = "recorded" /\ joined'[job[j].email]
  <2>1. CASE At(j, "claimed") /\ Goto(j, "refused")
    <3>1. job'[j].pc = "refused"
      <4>1. job'[j] = [job[j] EXCEPT !.pc = "refused"]
        BY <1>2, <2>1, GotoEffect DEF Points
      <4> QED
        BY <1>4, <4>1 DEF JobRecords, NoJob
    <3> QED
      BY <1>5, <2>1, <3>1 DEF At
  <2>2. CASE At(j, "accepted") /\ Goto(j, "recorded") /\ joined'[job[j].email]
    <3>1. job'[j].pc = "recorded"
      <4>1. job'[j] = [job[j] EXCEPT !.pc = "recorded"]
        BY <1>2, <2>2, GotoEffect DEF Points
      <4> QED
        BY <1>4, <4>1 DEF JobRecords, NoJob
    <3> QED
      BY <1>5, <2>2, <3>1 DEF At
  <2> QED
    BY <2>1, <2>2
<1>7. QuietJob(j)
  BY <1>2, <1>5, <1>6 DEF QuietJob, Claiming, ClaimPoints
<1> QED
  BY <1>3, <1>7, SameJobQuiet

(* Quiet changes to the rows.                                               *)

LEMMA SameRowQuiet ==
  ASSUME NEW e \in Emails, status'[e] = status[e], sentAt'[e] = sentAt[e],
         joined'[e] = joined[e], handed'[e] = handed[e]
  PROVE  QuietRow(e)
BY DEF QuietRow

LEMMA QuietRows ==
  ASSUME UNCHANGED << status, sentAt, joined, handed >>
  PROVE  \A e \in Emails : QuietRow(e)
BY SameRowQuiet

(* A row nothing has claimed moves to a status it may have unsent.          *)
LEMMA QuietSetStatus ==
  ASSUME TypeOK, NEW e \in Emails, NEW s \in Unsent \ {"none"}, SetStatus(e, s), ~ Committed(e),
         status[e] = "none" => Accept(e),
         s = "queued" => status[e] = "none" \/ sentAt[e] = "null",
         UNCHANGED << sentAt, joined, handed >>
  PROVE  \A x \in Emails : QuietRow(x)
<1>1. status'[e] = s /\ \A x \in Emails \ {e} : status'[x] = status[x]
  BY DEF SetStatus, TypeOK
<1>2. QuietRow(e)
  BY <1>1 DEF QuietRow
<1> QED
  BY <1>1, <1>2, SameRowQuiet

LEMMA OpenUncommitted ==
  ASSUME NEW e \in Emails
  PROVE  /\ Open(e) => ~ Committed(e)
         /\ Unclaimed(e) => ~ Committed(e)
         /\ status[e] \in {"none", "queued_quota"} => ~ Committed(e)
BY DEF Open, Unclaimed, Waiting, Committed

LEMMA QuietPark ==
  ASSUME TypeOK, NEW e \in Emails, NEW n, ParkWithUnits(e, n),
         UNCHANGED << sentAt, joined, handed >>
  PROVE  \A x \in Emails : QuietRow(x)
<1>1. CASE Open(e)
  <2>1. SetStatus(e, "queued_quota") /\ "queued_quota" \in Unsent
    BY <1>1 DEF ParkWithUnits, Unsent
  <2> QED
    BY <1>1, <2>1, OpenUncommitted, QuietSetStatus DEF Open
<1>2. CASE ~ Open(e)
  BY <1>2, QuietRows DEF ParkWithUnits
<1> QED
  BY <1>1, <1>2

LEMMA QuietCancel ==
  ASSUME TypeOK, NEW e \in Emails, CancelQueuedEmail(e) \/ SuppressQueuedEmail(e),
         UNCHANGED << sentAt, joined, handed >>
  PROVE  \A x \in Emails : QuietRow(x)
<1>1. {"canceled", "suppressed"} \subseteq Unsent \ {"none"}
  BY DEF Unsent
<1>2. CASE Open(e)
  <2>1. SetStatus(e, "canceled") \/ SetStatus(e, "suppressed")
    BY <1>2 DEF CancelQueuedEmail, SuppressQueuedEmail
  <2> QED
    BY <1>1, <1>2, <2>1, OpenUncommitted, QuietSetStatus DEF Open
<1>3. CASE ~ Open(e)
  <2>1. UNCHANGED status
    BY <1>3 DEF CancelQueuedEmail, SuppressQueuedEmail
  <2> QED
    BY <2>1, QuietRows
<1> QED
  BY <1>2, <1>3

(* A failed row was claimed, or open: FailQueuedEmail does not look.        *)
LEMMA QuietFailQueued ==
  ASSUME TypeOK, NEW e \in Emails, FailQueuedEmail(e), UNCHANGED << joined, handed >>
  PROVE  \A x \in Emails : QuietRow(x)
<1>1. CASE status[e] = "queued"
  <2>1. /\ status'[e] = "failed"
        /\ \A x \in Emails \ {e} : status'[x] = status[x] /\ sentAt'[x] = sentAt[x]
    BY <1>1 DEF FailQueuedEmail, SetStatus, TypeOK
  <2>2. QuietRow(e)
    BY <1>1, <2>1 DEF QuietRow, Unsent
  <2> QED
    BY <2>1, <2>2, SameRowQuiet
<1>2. CASE status[e] # "queued"
  BY <1>2, QuietRows DEF FailQueuedEmail
<1> QED
  BY <1>1, <1>2

(* What the SES lane reports of a row SES has the message of.               *)
LEMMA QuietCas ==
  ASSUME TypeOK, ClaimInv, NEW e \in Emails, NEW s \in Statuses,
         s \notin {"queued_quota", "queued", "canceled", "suppressed"},
         ApplyStatusCas(e, s), handed[e] = 1, joined'[e],
         \A x \in Emails \ {e} : joined'[x] = joined[x],
         UNCHANGED << sentAt, handed >>
  PROVE  \A x \in Emails : QuietRow(x)
<1>1. /\ status'[e] = status[e] \/ status'[e] = s
      /\ \A x \in Emails \ {e} : status'[x] = status[x]
  BY DEF ApplyStatusCas, TypeOK
<1>2. s # "none"
  <2>1. Len(Ladder) = 12
    BY DEF Ladder
  <2> QED
    BY <2>1 DEF Statuses, Ladder
<1>3. QuietRow(e)
  BY <1>1, <1>2 DEF QuietRow
<1> QED
  BY <1>1, <1>3, SameRowQuiet

-----------------------------------------------------------------------------
(* The steps that are not quiet.                                            *)

(* What a move of one job's point does to the claims on the rows.           *)
LEMMA GotoHolds ==
  ASSUME TypeOK, NEW j \in Jobs, NEW pc \in Points,
         job[j].st \in {"active", "orphan"}, Goto(j, pc)
  PROVE  /\ \A k \in Jobs \ {j} : job'[k] = job[k]
         /\ job'[j].st = job[j].st /\ job'[j].pc = pc
         /\ job'[j].email = job[j].email
         /\ \A k \in Jobs \ {j}, x \in Emails : Holds(k, x)' <=> Holds(k, x)
         /\ \A x \in Emails : Holds(j, x)' => x = job[j].email /\ pc \in ClaimPoints
<1>1. /\ job'[j] = [job[j] EXCEPT !.pc = pc]
      /\ \A k \in Jobs \ {j} : job'[k] = job[k]
  BY GotoEffect
<1>2. job[j] \in JobRecords /\ job[j].st # "free"
  BY JobFields
<1>3. job'[j].st = job[j].st /\ job'[j].pc = pc /\ job'[j].email = job[j].email
  BY <1>1, <1>2 DEF JobRecords, NoJob
<1>4. \A k \in Jobs \ {j}, x \in Emails : Holds(k, x)' <=> Holds(k, x)
  BY <1>1 DEF Holds
<1>5. \A x \in Emails : Holds(j, x)' => x = job[j].email /\ pc \in ClaimPoints
  BY <1>3 DEF Holds, ClaimPoints
<1> QED
  BY <1>1, <1>3, <1>4, <1>5

(* The three steps that are not quiet, by what they do to a row and its     *)
(* attempt.                                                                 *)
Takes(j, e) ==
  /\ Open(e)
  /\ sentAt' = [sentAt EXCEPT ![e] = "fresh"]
  /\ UNCHANGED << status, joined, handed >>
  /\ \A k \in Jobs \ {j} : job'[k] = job[k]
  /\ job'[j].st \in {"active", "orphan"} /\ job'[j].pc = "claimed" /\ job'[j].email = e
  /\ \A x \in Emails : ~ Holds(j, x)

HandsOver(j, e) ==
  /\ Holds(j, e) /\ job[j].pc = "claimed"
  /\ handed' = [handed EXCEPT ![e] = @ + 1]
  /\ UNCHANGED << status, sentAt, joined >>
  /\ \A k \in Jobs \ {j} : job'[k] = job[k]
  /\ job'[j].st \in {"created", "retry"} => job'[j].pc = "load"
  /\ \A x \in Emails : Holds(j, x)' => x = e /\ job'[j].pc = "accepted"

GivesBack(j, e) ==
  /\ Holds(j, e) /\ job[j].pc = "refused"
  /\ ReleaseClaim(e)
  /\ UNCHANGED << status, joined, handed >>
  /\ \A k \in Jobs \ {j} : job'[k] = job[k]
  /\ job'[j].st \in {"created", "retry"} => job'[j].pc = "load"
  /\ \A x \in Emails : ~ Holds(j, x)'

LEMMA ClaimTakes ==
  ASSUME TypeOK, ClaimInv, NEW j \in Jobs, Claim(j)
  PROVE  Quiet \/ \E e \in Emails : Takes(j, e)
<1>0. PICK e \in Emails : e = job[j].email
  BY JobFields DEF Claim, At
<1>1. /\ job[j].st \in {"active", "orphan"} /\ job[j].pc = "claim"
      /\ {"claimed", "done"} \subseteq Points
      /\ UNCHANGED << status, joined, handed >>
  BY DEF Claim, At, Points
<1>2. CASE ~ Open(e)
  <2>1. UNCHANGED sentAt /\ Goto(j, "done")
    BY <1>0, <1>2 DEF Claim
  <2>2. \A k \in Jobs : QuietJob(k)
    BY <1>1, <2>1, QuietGoto DEF ClaimPoints
  <2> QED
    BY <1>1, <2>1, <2>2, QuietRows DEF Quiet
<1>3. CASE Open(e)
  <2>1. sentAt' = [sentAt EXCEPT ![e] = "fresh"] /\ Goto(j, "claimed")
    BY <1>0, <1>3 DEF Claim
  <2>2. /\ \A k \in Jobs \ {j} : job'[k] = job[k]
        /\ job'[j].st = job[j].st /\ job'[j].pc = "claimed" /\ job'[j].email = e
    BY <1>0, <1>1, <2>1, GotoHolds
  <2> QED
    BY <1>1, <1>3, <2>1, <2>2 DEF Takes, Holds
<1> QED
  BY <1>2, <1>3

(* An open row has no holder: the claim is exclusive.                       *)
LEMMA TakeKeepsInv ==
  ASSUME TypeOK, ClaimInv, NEW j \in Jobs, NEW e \in Emails, Takes(j, e)
  PROVE  ClaimInv'
<1>1. UNCHANGED << status, joined, handed >> /\ Open(e)
  BY DEF Takes
<1>2. /\ \A k \in Jobs \ {j} : job'[k] = job[k]
      /\ job'[j].st \in {"active", "orphan"} /\ job'[j].pc = "claimed"
      /\ \A k \in Jobs \ {j}, x \in Emails : Holds(k, x)' <=> Holds(k, x)
      /\ \A x \in Emails : Holds(j, x)' => x = e
  BY DEF Takes, Holds
<1>3. ~ Committed(e) /\ status[e] = "queued"
  BY <1>1, OpenUncommitted DEF Open
<1>4. /\ \A k \in Jobs : ~ Holds(k, e)
      /\ handed[e] = 0 /\ status[e] \in Unsent
  BY <1>1, <1>3 DEF ClaimInv
<1>5. /\ sentAt'[e] = "fresh"
      /\ \A x \in Emails \ {e} : sentAt'[x] = sentAt[x]
  BY DEF Takes, TypeOK
<1>6. \A k \in Jobs : (job[k].st \in {"created", "retry"} => job[k].pc = "load")'
  BY <1>1, <1>2 DEF ClaimInv
<1>7. \A h, k \in Jobs, x \in Emails : (Holds(h, x) /\ Holds(k, x) => h = k)'
  BY <1>2, <1>4 DEF ClaimInv
<1>8. Committed(e)' /\ \A x \in Emails \ {e} : Committed(x)' <=> Committed(x)
  <2>1. Committed(e)'
    BY <1>1, <1>3, <1>5 DEF Committed
  <2>2. ASSUME NEW x \in Emails \ {e} PROVE Committed(x)' <=> Committed(x)
    BY <1>1, <1>5, <2>2 DEF Committed
  <2> QED
    BY <2>1, <2>2
<1>9. ASSUME NEW k \in Jobs, NEW x \in Emails, Holds(k, x)'
      PROVE  (/\ Committed(x)
              /\ handed[x] = IF job[k].pc \in {"claimed", "refused"} THEN 0 ELSE 1
              /\ job[k].pc = "recorded" => joined[x])'
  <2>1. CASE k = j
    <3>1. x = e /\ job'[k].pc = "claimed"
      BY <1>2, <1>9, <2>1
    <3>2. Committed(x)' /\ handed'[x] = 0
      BY <1>1, <1>4, <1>8, <3>1
    <3> QED
      BY <3>1, <3>2
  <2>2. CASE k # j
    <3>1. Holds(k, x) /\ x # e /\ job'[k] = job[k]
      BY <1>2, <1>4, <1>9, <2>2
    <3>2. /\ Committed(x)
          /\ handed[x] = IF job[k].pc \in {"claimed", "refused"} THEN 0 ELSE 1
          /\ job[k].pc = "recorded" => joined[x]
      BY <3>1 DEF ClaimInv
    <3> QED
      BY <1>1, <1>8, <3>1, <3>2
  <2> QED
    BY <2>1, <2>2
<1>10. ASSUME NEW x \in Emails
       PROVE  (/\ \/ handed[x] = 0 /\ status[x] \in Unsent
                  \/ handed[x] = 1 /\ Committed(x)
               /\ handed[x] = 1 /\ status[x] # "failed" => joined[x] \/ sentAt[x] # "null")'
  <2>1. CASE x = e
    BY <1>1, <1>4, <2>1
  <2>2. CASE x # e
    BY <1>1, <1>5, <1>8, <2>2 DEF ClaimInv
  <2> QED
    BY <2>1, <2>2
<1> QED
  BY <1>6, <1>7, <1>9, <1>10 DEF ClaimInv

(* SES takes the message from the holder of the claim, once.                *)
LEMMA HandOver ==
  ASSUME TypeOK, ClaimInv, NEW j \in Jobs, NEW e \in Emails, HandsOver(j, e)
  PROVE  ClaimInv'
<1> USE DEF HandsOver
<1>1. Committed(e) /\ handed[e] = 0
  BY DEF ClaimInv
<1>2. handed'[e] = 1 /\ \A x \in Emails \ {e} : handed'[x] = handed[x]
  BY <1>1 DEF TypeOK
<1>3. ASSUME NEW x \in Emails PROVE Committed(x)' <=> Committed(x)
  BY <1>3 DEF Committed
<1>4. ASSUME NEW k \in Jobs \ {j}, NEW x \in Emails PROVE Holds(k, x)' <=> Holds(k, x)
  BY <1>4 DEF Holds
<1>5. \A k \in Jobs \ {j} : ~ Holds(k, e)
  BY DEF ClaimInv
<1>6. \A k \in Jobs : (job[k].st \in {"created", "retry"} => job[k].pc = "load")'
  BY DEF ClaimInv
<1>7. \A h, k \in Jobs, x \in Emails : (Holds(h, x) /\ Holds(k, x) => h = k)'
  BY <1>4, <1>5 DEF ClaimInv
<1>8. ASSUME NEW k \in Jobs, NEW x \in Emails, Holds(k, x)'
      PROVE  (/\ Committed(x)
              /\ handed[x] = IF job[k].pc \in {"claimed", "refused"} THEN 0 ELSE 1
              /\ job[k].pc = "recorded" => joined[x])'
  <2>1. CASE k = j
    <3>1. x = e /\ job'[k].pc = "accepted"
      BY <1>8, <2>1
    <3>2. Committed(x)' /\ handed'[x] = 1
      BY <1>1, <1>2, <1>3, <3>1
    <3> QED
      BY <3>1, <3>2
  <2>2. CASE k # j
    <3>1. Holds(k, x) /\ x # e /\ job'[k] = job[k]
      BY <1>4, <1>5, <1>8, <2>2
    <3>2. /\ Committed(x)
          /\ handed[x] = IF job[k].pc \in {"claimed", "refused"} THEN 0 ELSE 1
          /\ job[k].pc = "recorded" => joined[x]
      BY <3>1 DEF ClaimInv
    <3> QED
      BY <1>2, <1>3, <3>1, <3>2
  <2> QED
    BY <2>1, <2>2
<1>9. ASSUME NEW x \in Emails
      PROVE  (/\ \/ handed[x] = 0 /\ status[x] \in Unsent
                 \/ handed[x] = 1 /\ Committed(x)
              /\ handed[x] = 1 /\ status[x] # "failed" => joined[x] \/ sentAt[x] # "null")'
  <2>1. CASE x = e
    <3>1. handed'[x] = 1 /\ Committed(x)'
      BY <1>1, <1>2, <1>3, <2>1
    <3>2. status[e] # "failed" => sentAt[e] # "null"
      BY <1>1 DEF ClaimInv, Committed, Unsent
    <3> QED
      BY <2>1, <3>1, <3>2
  <2>2. CASE x # e
    BY <1>2, <1>3, <2>2 DEF ClaimInv
  <2> QED
    BY <2>1, <2>2
<1> QED
  BY <1>6, <1>7, <1>8, <1>9 DEF ClaimInv

(* A claim is given back only by its holder, and only if SES refused.       *)
LEMMA GiveBack ==
  ASSUME TypeOK, ClaimInv, NEW j \in Jobs, NEW e \in Emails, GivesBack(j, e)
  PROVE  ClaimInv'
<1> USE DEF GivesBack
<1>1. handed[e] = 0 /\ status[e] \in Unsent
  BY DEF ClaimInv
<1>2. \A x \in Emails \ {e} : sentAt'[x] = sentAt[x]
  BY DEF ReleaseClaim, TypeOK
<1>3. ASSUME NEW x \in Emails \ {e} PROVE Committed(x)' <=> Committed(x)
  BY <1>2, <1>3 DEF Committed
<1>4. ASSUME NEW k \in Jobs \ {j}, NEW x \in Emails PROVE Holds(k, x)' <=> Holds(k, x)
  BY <1>4 DEF Holds
<1>5. \A k \in Jobs \ {j} : ~ Holds(k, e)
  BY DEF ClaimInv
<1>6. \A k \in Jobs : (job[k].st \in {"created", "retry"} => job[k].pc = "load")'
  BY DEF ClaimInv
<1>7. \A h, k \in Jobs, x \in Emails : (Holds(h, x) /\ Holds(k, x) => h = k)'
  BY <1>4 DEF ClaimInv
<1>8. ASSUME NEW k \in Jobs, NEW x \in Emails, Holds(k, x)'
      PROVE  (/\ Committed(x)
              /\ handed[x] = IF job[k].pc \in {"claimed", "refused"} THEN 0 ELSE 1
              /\ job[k].pc = "recorded" => joined[x])'
  <2>1. k # j
    BY <1>8
  <2>2. Holds(k, x) /\ x # e /\ job'[k] = job[k]
    BY <1>4, <1>5, <1>8, <2>1
  <2>3. /\ Committed(x)
        /\ handed[x] = IF job[k].pc \in {"claimed", "refused"} THEN 0 ELSE 1
        /\ job[k].pc = "recorded" => joined[x]
    BY <2>2 DEF ClaimInv
  <2> QED
    BY <1>3, <2>2, <2>3
<1>9. ASSUME NEW x \in Emails
      PROVE  (/\ \/ handed[x] = 0 /\ status[x] \in Unsent
                 \/ handed[x] = 1 /\ Committed(x)
              /\ handed[x] = 1 /\ status[x] # "failed" => joined[x] \/ sentAt[x] # "null")'
  <2>1. CASE x = e
    BY <1>1, <2>1
  <2>2. CASE x # e
    BY <1>2, <1>3, <2>2 DEF ClaimInv
  <2> QED
    BY <2>1, <2>2
<1> QED
  BY <1>6, <1>7, <1>8, <1>9 DEF ClaimInv

(* Every other step of the handler is quiet, and so is every other step.     *)
LEMMA HandlerQuiet ==
  ASSUME TypeOK, ClaimInv, NEW j \in Jobs, HandlerStep(j)
  PROVE  Quiet \/ Claim(j) \/ SesAccepts(j) \/ SesAnswerLost(j) \/ Release(j)
<1>1. \A pc \in Points : At(j, pc) =>
        job[j].st \in {"active", "orphan"} /\ job[j].email \in Emails
  BY JobFields DEF At
<1>2. {"load", "check", "final", "claim", "claimed", "refused",
       "parking", "accepted", "recorded", "done"} \subseteq Points
  BY DEF Points
<1>3. {"load", "check", "final", "claim", "parking", "done"} \subseteq Points \ ClaimPoints
  BY DEF Points, ClaimPoints
<1>4. PICK e : e = job[j].email
  OBVIOUS
<1>5. CASE Skip(j)
  BY <1>5, <1>1, <1>2, <1>3, QuietGoto, QuietRows DEF Quiet, Skip, rowVars
<1>6. CASE Load(j)
  BY <1>6, <1>1, <1>2, <1>3, QuietGoto, QuietRows DEF Quiet, Load, rowVars
<1>7. CASE Build(j)
  BY <1>7, <1>1, <1>2, <1>3, QuietGoto, QuietRows DEF Quiet, Build, rowVars
<1>8. CASE PassFinal(j)
  BY <1>8, <1>1, <1>2, <1>3, QuietGoto, QuietRows DEF Quiet, PassFinal, rowVars
<1>9. CASE Defer(j)
  <2>1. \A k \in Jobs : QuietJob(k)
    BY <1>9, <1>1, <1>2, <1>4, QuietEnqueueDone DEF Defer
  <2> QED
    BY <1>9, <2>1, QuietRows DEF Quiet, Defer, rowVars
<1>10. CASE Park(j)
  <2>1. e \in Emails /\ job[j].st \in {"active", "orphan"} /\ Goto(j, "done")
    BY <1>10, <1>1, <1>2, <1>4 DEF Park, HoldSeen
  <2>2. \A k \in Jobs : QuietJob(k)
    BY <1>3, <2>1, QuietGoto
  <2>3. \A x \in Emails : QuietRow(x)
    BY <1>10, <1>4, <2>1, QuietPark DEF Park, ParkQueued
  <2> QED
    BY <2>2, <2>3 DEF Quiet
<1>11. CASE RefuseStopped(j)
  <2>1. e \in Emails /\ job[j].st \in {"active", "orphan"} /\ Goto(j, "done")
    BY <1>11, <1>1, <1>2, <1>4 DEF RefuseStopped, VerdictSeen
  <2>2. \A k \in Jobs : QuietJob(k)
    BY <1>3, <2>1, QuietGoto
  <2>3. \A x \in Emails : QuietRow(x)
    BY <1>11, <1>4, <2>1, QuietCancel DEF RefuseStopped
  <2> QED
    BY <2>2, <2>3 DEF Quiet
<1>12. CASE RefuseSuppressed(j)
  <2>1. e \in Emails /\ job[j].st \in {"active", "orphan"} /\ Goto(j, "done")
    BY <1>12, <1>1, <1>2, <1>4 DEF RefuseSuppressed, VerdictSeen
  <2>2. \A k \in Jobs : QuietJob(k)
    BY <1>3, <2>1, QuietGoto
  <2>3. \A x \in Emails : QuietRow(x)
    BY <1>12, <1>4, <2>1, QuietCancel DEF RefuseSuppressed
  <2> QED
    BY <2>2, <2>3 DEF Quiet
<1>13. CASE FailUnsendable(j)
  <2>1. e \in Emails /\ job[j].st \in {"active", "orphan"} /\ Goto(j, "done")
    BY <1>13, <1>1, <1>2, <1>4 DEF FailUnsendable
  <2>2. \A k \in Jobs : QuietJob(k)
    BY <1>3, <2>1, QuietGoto
  <2>3. \A x \in Emails : QuietRow(x)
    BY <1>13, <1>4, <2>1, QuietFailQueued DEF FailUnsendable
  <2> QED
    BY <2>2, <2>3 DEF Quiet
<1>14. CASE SesRejects(j)
  <2>1. e \in Emails /\ job[j].st \in {"active", "orphan"} /\ Goto(j, "done")
    BY <1>14, <1>1, <1>2, <1>4 DEF SesRejects
  <2>2. \A k \in Jobs : QuietJob(k)
    BY <1>3, <2>1, QuietGoto
  <2>3. \A x \in Emails : QuietRow(x)
    BY <1>14, <1>4, <2>1, QuietFailQueued DEF SesRejects
  <2> QED
    BY <2>2, <2>3 DEF Quiet
<1>15. CASE ParkReleased(j)
  <2>1. e \in Emails /\ job[j].st \in {"active", "orphan"} /\ Goto(j, "done")
    BY <1>15, <1>1, <1>2, <1>4 DEF ParkReleased
  <2>2. \A k \in Jobs : QuietJob(k)
    BY <1>3, <2>1, QuietGoto
  <2>3. \A x \in Emails : QuietRow(x)
    BY <1>15, <1>4, <2>1, QuietPark DEF ParkReleased, ParkQueued
  <2> QED
    BY <2>2, <2>3 DEF Quiet
<1>16. CASE Strip(j)
  <2>1. e \in Emails /\ job[j].st \in {"active", "orphan"}
    BY <1>16, <1>1, <1>2, <1>4 DEF Strip, VerdictSeen
  <2>2. \A k \in Jobs : QuietJob(k)
    BY <1>16, <1>4, <2>1, QuietUnchanged, QuietEnqueueDone DEF Strip
  <2> QED
    BY <1>16, <2>2, QuietRows DEF Quiet, Strip
<1>18. CASE GateClosed(j)
  BY <1>18, QuietUnderClaim, QuietRows DEF Quiet, GateClosed, rowVars
<1>19. CASE SesRefuses(j)
  BY <1>19, QuietUnderClaim, QuietRows DEF Quiet, SesRefuses, rowVars
<1>23. CASE RecordMessageId(j)
  <2>1. e \in Emails /\ joined' = [joined EXCEPT ![e] = TRUE]
    BY <1>23, <1>1, <1>2, <1>4 DEF RecordMessageId
  <2>2. joined'[e] /\ \A x \in Emails \ {e} : joined'[x] = joined[x]
    BY <2>1 DEF TypeOK
  <2>3. \A k \in Jobs : QuietJob(k)
    BY <1>23, <1>4, <2>2, QuietUnderClaim DEF RecordMessageId
  <2>4. UNCHANGED << status, sentAt, handed >>
    BY <1>23 DEF RecordMessageId
  <2>5. \A x \in Emails : QuietRow(x)
    BY <2>2, <2>4 DEF QuietRow
  <2> QED
    BY <2>3, <2>5 DEF Quiet
<1>24. CASE RecordSent(j)
  <2>1. /\ e \in Emails /\ Holds(j, e) /\ job[j].pc = "recorded"
        /\ job[j].st \in {"active", "orphan"} /\ Goto(j, "done")
        /\ ApplyStatusCas(e, "sent") /\ UNCHANGED << sentAt, joined, handed >>
    BY <1>24, <1>1, <1>2, <1>4 DEF RecordSent, At, Holds
  <2>2. handed[e] = 1 /\ joined'[e]
    BY <2>1 DEF ClaimInv
  <2>3. \A k \in Jobs : QuietJob(k)
    BY <1>3, <2>1, QuietGoto
  <2>4. \A x \in Emails : QuietRow(x)
    BY <2>1, <2>2, LadderStatuses, QuietCas
  <2> QED
    BY <2>3, <2>4 DEF Quiet
<1>25. CASE Ack(j)
  BY <1>25, QuietFree, QuietRows DEF Quiet, Ack, rowVars
<1> QED
  BY <1>5, <1>6, <1>7, <1>8, <1>9, <1>10, <1>11, <1>12, <1>13, <1>14, <1>15, <1>16, <1>18, <1>19, <1>23, <1>24, <1>25 DEF HandlerStep

(* The other steps, and the theorems.                                       *)
LEMMA QueueQuiet ==
  ASSUME TypeOK, ClaimInv, NEW j \in Jobs, Queue(j)
  PROVE  Quiet
<1>1. CASE Fetch(j)
  <2>1. /\ job' = [job EXCEPT ![j].st = "active"] /\ job[j].st \in {"created", "retry"}
        /\ UNCHANGED << status, sentAt, joined, handed >>
    BY <1>1 DEF Fetch, rowVars
  <2>2. job[j].pc = "load" /\ job[j] \in JobRecords /\ job[j].st # "free"
    BY <2>1, JobFields DEF ClaimInv
  <2>3. job'[j].pc = "load" /\ job'[j].st = "active"
    BY <2>1, <2>2 DEF TypeOK, JobRecords, NoJob
  <2>4. \A k \in Jobs \ {j} : job'[k] = job[k]
    BY <2>1 DEF TypeOK
  <2>5. QuietJob(j)
    BY <2>3 DEF QuietJob, Claiming, ClaimPoints
  <2> QED
    BY <2>1, <2>4, <2>5, SameJobQuiet, QuietRows DEF Quiet
<1>2. CASE Interrupt(j)
  BY <1>2, QuietFail, QuietRows DEF Quiet, Interrupt, rowVars
<1>3. CASE Expire(j)
  <2>1. PICK i \in Free(job) : job' = [job EXCEPT ![j].st = "orphan", ![i] = FailedJob(j)]
    BY <1>3 DEF Expire
  <2>2. /\ job[j].st = "active" /\ i \in Jobs /\ i # j /\ job[j] \in JobRecords
        /\ UNCHANGED << status, sentAt, joined, handed >>
    BY <1>3, JobFields DEF Expire, Free, rowVars
  <2>3. /\ FailedJob(j).st \in {"free", "retry", "dead"}
        /\ FailedJob(j).st = "retry" => FailedJob(j).pc = "load"
    BY <2>2, FailedJobTyped DEF TypeOK
  <2>4. /\ job'[i] = FailedJob(j)
        /\ job'[j] = [job[j] EXCEPT !.st = "orphan"]
        /\ \A k \in Jobs \ {i, j} : job'[k] = job[k]
    BY <2>1, <2>2 DEF TypeOK
  <2>5. job'[j].st = "orphan" /\ job'[j].pc = job[j].pc /\ job'[j].email = job[j].email
    BY <2>2, <2>4 DEF JobRecords, NoJob
  <2>6. QuietJob(j)
    BY <2>2, <2>5 DEF QuietJob, Claiming
  <2>7. QuietJob(i)
    BY <2>3, <2>4 DEF QuietJob, Claiming
  <2> QED
    BY <2>2, <2>4, <2>6, <2>7, SameJobQuiet, QuietRows DEF Quiet
<1>4. CASE DeadLetter(j)
  <2>1. PICK e \in Emails : e = job[j].email
    BY <1>4, JobFields DEF DeadLetter
  <2>2. \A x \in Emails : QuietRow(x)
    BY <1>4, <2>1, QuietFailQueued DEF DeadLetter
  <2> QED
    BY <1>4, <2>2, QuietFree DEF Quiet, DeadLetter
<1> QED
  BY <1>1, <1>2, <1>3, <1>4 DEF Queue

LEMMA CustomerQuiet ==
  ASSUME TypeOK, ClaimInv, NEW e \in Emails, Customer(e)
  PROVE  Quiet
<1>1. {"queued", "queued_quota", "canceled"} \subseteq Unsent \ {"none"}
  BY DEF Unsent
<1>2. CASE Accept(e)
  <2>1. /\ SetStatus(e, "queued") \/ SetStatus(e, "queued_quota")
        /\ status[e] = "none" /\ UNCHANGED << sentAt, joined, handed, job >>
    BY <1>2 DEF Accept
  <2> QED
    BY <1>1, <1>2, <2>1, OpenUncommitted, QuietSetStatus, QuietUnchanged DEF Quiet
<1>3. CASE EnqueueAccepted(e)
  BY <1>3, QuietEnqueue, QuietRows DEF Quiet, EnqueueAccepted, rowVars
<1>4. CASE LoseEnqueue(e)
  BY <1>4, QuietUnchanged, QuietRows DEF Quiet, LoseEnqueue, rowVars
<1>5. CASE Cancel(e)
  <2>1. /\ ~ Committed(e) /\ status[e] # "none" /\ SetStatus(e, "canceled")
        /\ UNCHANGED << sentAt, joined, handed, job >>
    BY <1>5, OpenUncommitted DEF Cancel, Unclaimed, Waiting
  <2> QED
    BY <1>1, <2>1, QuietSetStatus, QuietUnchanged DEF Quiet
<1>6. CASE Reschedule(e)
  <2>1. \A k \in Jobs : QuietJob(k)
    BY <1>6, QuietEnqueue, QuietUnchanged DEF Reschedule
  <2> QED
    BY <1>6, <2>1, QuietRows DEF Quiet, Reschedule
<1> QED
  BY <1>2, <1>3, <1>4, <1>5, <1>6 DEF Customer

LEMMA OperatorQuiet ==
  ASSUME TypeOK, ClaimInv, Operator
  PROVE  Quiet
<1>1. UNCHANGED << sentAt, joined, handed, job >>
  BY DEF Operator, FailQueuedEmailsForDomain, CutTeamSendingAccess
<1>2. \/ CloseUnclaimed("failed") \/ CloseUnclaimed("canceled") \/ UNCHANGED status
  BY DEF Operator, FailQueuedEmailsForDomain, CutTeamSendingAccess
<1>3. ASSUME NEW e \in Emails PROVE QuietRow(e)
  <2>1. CASE status'[e] = status[e]
    BY <1>1, <2>1, SameRowQuiet
  <2>2. CASE status'[e] # status[e]
    <3>1. Unclaimed(e) /\ status'[e] \in {"failed", "canceled"}
      BY <1>2, <2>2 DEF CloseUnclaimed
    <3>2. ~ Committed(e)
      BY <3>1, OpenUncommitted
    <3> QED
      BY <1>1, <3>1, <3>2 DEF QuietRow, Unsent, Unclaimed, Waiting
  <2> QED
    BY <2>1, <2>2
<1> QED
  BY <1>1, <1>3, QuietUnchanged DEF Quiet

LEMMA CronQuiet ==
  ASSUME TypeOK, ClaimInv, NEW e \in Emails, Cron(e)
  PROVE  Quiet
<1>1. CASE DrainRelease(e)
  <2>1. /\ ~ Committed(e) /\ status[e] = "queued_quota" /\ sentAt[e] = "null"
        /\ SetStatus(e, "queued") /\ UNCHANGED << sentAt, joined, handed, job >>
    BY <1>1, OpenUncommitted DEF DrainRelease
  <2> QED
    BY <2>1, QuietSetStatus, QuietUnchanged DEF Quiet, Unsent
<1>2. CASE DrainEnqueue(e)
  BY <1>2, QuietEnqueue, QuietRows DEF Quiet, DrainEnqueue, rowVars
<1>3. CASE DrainEnqueueFails(e)
  <2>1. \A x \in Emails : QuietRow(x)
    BY <1>3, QuietPark DEF DrainEnqueueFails
  <2> QED
    BY <1>3, <2>1, QuietUnchanged DEF Quiet, DrainEnqueueFails
<1>4. CASE ReconcileRequeue(e)
  BY <1>4, QuietEnqueue, QuietRows DEF Quiet, ReconcileRequeue, rowVars
<1> QED
  BY <1>1, <1>2, <1>3, <1>4 DEF Cron

LEMMA EnvironmentQuiet ==
  ASSUME TypeOK, ClaimInv, NEW e \in Emails, Environment(e)
  PROVE  Quiet
<1>1. CASE \E v \in Refusals : Ineligible(e, v)
  BY <1>1, QuietUnchanged, QuietRows DEF Quiet, Ineligible, rowVars
<1>2. CASE BecomeUnsendable(e)
  BY <1>2, QuietUnchanged, QuietRows DEF Quiet, BecomeUnsendable, rowVars
<1>3. CASE ClaimAges(e)
  <2>1. UNCHANGED << status, joined, handed, job >>
    BY <1>3 DEF ClaimAges
  <2>2. \A x \in Emails : sentAt'[x] = "null" <=> sentAt[x] = "null"
    BY <1>3 DEF ClaimAges, TypeOK
  <2>3. \A x \in Emails : QuietRow(x)
    BY <2>1, <2>2 DEF QuietRow
  <2> QED
    BY <2>1, <2>3, QuietUnchanged DEF Quiet
<1>4. CASE ComesDue(e)
  BY <1>4, QuietUnchanged, QuietRows DEF Quiet, ComesDue
<1>5. CASE \E s \in Reports : ProviderEvent(e, s)
  <2>1. PICK s \in Reports : ProviderEvent(e, s)
    BY <1>5
  <2>2. s \in Statuses /\ s \notin {"queued_quota", "queued", "canceled", "suppressed"}
    BY SendAssumption, LadderStatuses DEF ProviderStatuses
  <2>3. handed[e] = 1
    BY <2>1 DEF ProviderEvent, ClaimInv
  <2>4. joined'[e] /\ \A x \in Emails \ {e} : joined'[x] = joined[x]
    BY <2>1 DEF ProviderEvent, TypeOK
  <2>5. ApplyStatusCas(e, s) /\ UNCHANGED << sentAt, handed, job >>
    BY <2>1 DEF ProviderEvent
  <2> QED
    BY <2>2, <2>3, <2>4, <2>5, QuietCas, QuietUnchanged DEF Quiet
<1> QED
  BY <1>1, <1>2, <1>3, <1>4, <1>5 DEF Environment

LEMMA ReconcileQuiet ==
  ASSUME TypeOK, ClaimInv, ReconcileInterrupted
  PROVE  Quiet
<1>1. UNCHANGED << joined, handed, job >>
  BY DEF ReconcileInterrupted
<1>2. ASSUME NEW e \in Emails PROVE QuietRow(e)
  <2>1. CASE e \in Interrupted
    <3>1. Committed(e) /\ status'[e] = "failed"
      BY <2>1 DEF Interrupted, Committed, ReconcileInterrupted
    <3> QED
      BY <1>1, <3>1 DEF QuietRow
  <2>2. CASE e \notin Interrupted
    BY <1>1, <2>2, SameRowQuiet DEF ReconcileInterrupted
  <2> QED
    BY <2>1, <2>2
<1> QED
  BY <1>1, <1>2, QuietUnchanged DEF Quiet

LEMMA SendHandsOver ==
  ASSUME TypeOK, ClaimInv, NEW j \in Jobs, SesAccepts(j) \/ SesAnswerLost(j)
  PROVE  \E e \in Emails : HandsOver(j, e)
<1>1. PICK e \in Emails : e = job[j].email
  BY JobFields DEF SesAccepts, SesAnswerLost, At
<1>2. /\ Holds(j, e) /\ job[j].pc = "claimed" /\ job[j].st \in {"active", "orphan"}
      /\ handed' = [handed EXCEPT ![e] = @ + 1]
      /\ UNCHANGED << status, sentAt, joined >>
  BY <1>1 DEF SesAccepts, SesAnswerLost, At, Holds, rowVars
<1>3. CASE SesAccepts(j)
  <2>1. Goto(j, "accepted") /\ "accepted" \in Points
    BY <1>3 DEF SesAccepts, Points
  <2>2. /\ \A k \in Jobs \ {j} : job'[k] = job[k]
        /\ job'[j].st = job[j].st /\ job'[j].pc = "accepted"
        /\ \A x \in Emails : Holds(j, x)' => x = job[j].email
    BY <1>2, <2>1, GotoHolds
  <2> QED
    BY <1>1, <1>2, <2>2 DEF HandsOver
<1>4. CASE SesAnswerLost(j)
  <2>1. /\ job'[j].st \in {"free", "retry", "dead"}
        /\ job'[j].st = "retry" => job'[j].pc = "load"
        /\ \A k \in Jobs \ {j} : job'[k] = job[k]
    BY <1>2, <1>4, FailEffect DEF SesAnswerLost
  <2>2. \A x \in Emails : ~ Holds(j, x)'
    BY <2>1 DEF Holds
  <2> QED
    BY <1>2, <2>1, <2>2 DEF HandsOver
<1> QED
  BY <1>3, <1>4

LEMMA ReleaseGivesBack ==
  ASSUME TypeOK, ClaimInv, NEW j \in Jobs, Release(j)
  PROVE  \E e \in Emails : GivesBack(j, e)
<1>1. PICK e \in Emails : e = job[j].email
  BY JobFields DEF Release, At
<1>2. /\ Holds(j, e) /\ job[j].pc = "refused" /\ job[j].st \in {"active", "orphan"}
      /\ ReleaseClaim(e)
      /\ UNCHANGED << status, joined, handed >>
  BY <1>1 DEF Release, At, Holds
<1>3. CASE Goto(j, "parking")
  <2>1. /\ \A k \in Jobs \ {j} : job'[k] = job[k]
        /\ job'[j].st = job[j].st /\ job'[j].pc = "parking"
        /\ \A x \in Emails : ~ Holds(j, x)'
    BY <1>2, <1>3, GotoHolds DEF Points, ClaimPoints
  <2> QED
    BY <1>2, <2>1 DEF GivesBack
<1>4. CASE job' = [job EXCEPT ![j] = FailedJob(j)]
  <2>1. /\ job'[j].st \in {"free", "retry", "dead"}
        /\ job'[j].st = "retry" => job'[j].pc = "load"
        /\ \A k \in Jobs \ {j} : job'[k] = job[k]
    BY <1>2, <1>4, FailEffect
  <2>2. \A x \in Emails : ~ Holds(j, x)'
    BY <2>1 DEF Holds
  <2> QED
    BY <1>2, <2>1, <2>2 DEF GivesBack
<1> QED
  BY <1>3, <1>4 DEF Release

(* Every step, sorted.                                                      *)
LEMMA StepKinds ==
  ASSUME TypeOK, ClaimInv, [Next]_vars
  PROVE  \/ Quiet
         \/ \E j \in Jobs, e \in Emails : Takes(j, e) \/ HandsOver(j, e) \/ GivesBack(j, e)
<1>1. ASSUME NEW j \in Jobs, HandlerStep(j)
      PROVE  Quiet \/ \E e \in Emails : Takes(j, e) \/ HandsOver(j, e) \/ GivesBack(j, e)
  BY <1>1, HandlerQuiet, ClaimTakes, SendHandsOver, ReleaseGivesBack
<1>2. ASSUME NEW j \in Jobs, Queue(j) PROVE Quiet
  BY <1>2, QueueQuiet
<1>3. ASSUME NEW e \in Emails, Customer(e) \/ Cron(e) \/ Environment(e) PROVE Quiet
  BY <1>3, CustomerQuiet, CronQuiet, EnvironmentQuiet
<1>4. CASE Operator \/ ReconcileInterrupted
  BY <1>4, OperatorQuiet, ReconcileQuiet
<1>5. CASE ToggleHold \/ NextDay
  BY <1>5, QuietUnchanged, QuietRows DEF Quiet, ToggleHold, NextDay, rowVars
<1>6. CASE UNCHANGED vars
  BY <1>6, QuietUnchanged, QuietRows DEF Quiet, vars
<1> QED
  BY <1>1, <1>2, <1>3, <1>4, <1>5, <1>6 DEF Next

(* Whatever the interleaving, at most one attempt holds a row, the row      *)
(* under the claim is out of reach of parks, cancels and second claims, and *)
(* SES takes its message from the holder only (send-email.ts:1126-1163).    *)
THEOREM ClaimHolds == Spec => []ClaimInv
<1>1. Init => ClaimInv
  BY DEF Init, ClaimInv, Holds, Committed, NoJob, Unsent
<1>2. TypeOK /\ ClaimInv /\ [Next]_vars => ClaimInv'
  BY StepKinds, QuietStep, TakeKeepsInv, HandOver, GiveBack
<1> QED
  BY <1>1, <1>2, TypeCorrect, PTL DEF Spec

(* SES takes the message of a row at most once, for any number of rows,     *)
(* jobs and retries (send-email.ts:1126-1130).                              *)
THEOREM SentAtMostOnce == Spec => []AtMostOnce
<1>1. ClaimInv => AtMostOnce
  BY DEF ClaimInv, AtMostOnce
<1> QED
  BY <1>1, ClaimHolds, PTL

(* A row whose message SES took can be found by the next SES event until    *)
(* something fails it (process-provider-event.ts:121-156).                  *)
THEOREM AcceptedFindable == Spec => []AcceptedStaysFindable
<1>1. ClaimInv => AcceptedStaysFindable
  BY DEF ClaimInv, AcceptedStaysFindable
<1> QED
  BY <1>1, ClaimHolds, PTL

-----------------------------------------------------------------------------
(* The two action properties.                                               *)

(* Only the holder of a claim hands a message over.                         *)
LEMMA OnlyHolderSends ==
  ASSUME [Next]_vars
  PROVE  \/ UNCHANGED handed
         \/ \E j \in Jobs : /\ At(j, "claimed")
                            /\ handed' = [handed EXCEPT ![job[j].email] = @ + 1]
<1>1. ASSUME NEW j \in Jobs, HandlerStep(j)
      PROVE  \/ UNCHANGED handed
             \/ At(j, "claimed") /\ handed' = [handed EXCEPT ![job[j].email] = @ + 1]
  BY <1>1 DEF HandlerStep, Skip, Defer, Load, Park, RefuseStopped, RefuseSuppressed, Strip, FailUnsendable,
       Build, PassFinal, Claim, GateClosed, SesRefuses, SesRejects, Release, ParkReleased,
       RecordMessageId, RecordSent, Ack, SesAccepts, SesAnswerLost
<1>2. ASSUME NEW j \in Jobs, Queue(j) PROVE UNCHANGED handed
  BY <1>2 DEF Queue, Fetch, Interrupt, Expire, DeadLetter
<1>3. ASSUME NEW e \in Emails, Customer(e) PROVE UNCHANGED handed
  BY <1>3 DEF Customer, Accept, EnqueueAccepted, LoseEnqueue, Cancel, Reschedule
<1>4. ASSUME NEW e \in Emails, Cron(e) PROVE UNCHANGED handed
  BY <1>4 DEF Cron, DrainRelease, DrainEnqueue, DrainEnqueueFails, ReconcileRequeue
<1>5. ASSUME NEW e \in Emails, Environment(e) PROVE UNCHANGED handed
  BY <1>5 DEF Environment, Ineligible, BecomeUnsendable, ClaimAges, ComesDue, ProviderEvent
<1>6. ASSUME Operator \/ ReconcileInterrupted \/ ToggleHold \/ NextDay PROVE UNCHANGED handed
  BY <1>6 DEF Operator, FailQueuedEmailsForDomain, CutTeamSendingAccess,
       ReconcileInterrupted, ToggleHold, NextDay
<1> QED
  BY <1>1, <1>2, <1>3, <1>4, <1>5, <1>6 DEF Next, vars

(* Whichever of a cancel, a suppression, a park and the claim commits       *)
(* first, a withdrawn row is not sent (app.ts:4161-4166).                   *)
THEOREM WithdrawnNotSent == Spec => NoSendOnceWithdrawn
<1>1. ASSUME TypeOK, ClaimInv, [Next]_vars, NEW e \in Emails, handed'[e] > handed[e]
      PROVE  status[e] \notin {"canceled", "suppressed", "queued_quota"}
  <2>1. handed[e] \in Nat
    BY <1>1 DEF TypeOK
  <2>2. handed' # handed
    BY <1>1, <2>1
  <2>3. PICK j \in Jobs : /\ At(j, "claimed")
                          /\ handed' = [handed EXCEPT ![job[j].email] = @ + 1]
    BY <1>1, <2>2, OnlyHolderSends
  <2>4. job[j].email = e
    BY <1>1, <2>1, <2>3 DEF TypeOK
  <2>5. Holds(j, e)
    BY <2>3, <2>4 DEF At, Holds
  <2>6. Committed(e)
    BY <1>1, <2>5 DEF ClaimInv
  <2> QED
    BY <2>6 DEF Committed
<1>2. TypeOK /\ ClaimInv /\ [Next]_vars =>
        [\A e \in Emails : handed'[e] > handed[e] =>
           status[e] \notin {"canceled", "suppressed", "queued_quota"}]_vars
  BY <1>1
<1> QED
  BY <1>2, TypeCorrect, ClaimHolds, PTL DEF Spec, NoSendOnceWithdrawn

LEMMA Ranks ==
  /\ Rank("queued_quota") = 1 /\ Rank("queued") = 2
  /\ Rank("suppressed") = 10 /\ Rank("failed") = 11 /\ Rank("canceled") = 12
<1>1. Len(Ladder) = 12
  BY DEF Ladder
<1>2. \A i \in 1..12 : Ladder[i] = "queued_quota" <=> i = 1
  BY DEF Ladder
<1>3. \A i \in 1..12 : Ladder[i] = "queued" <=> i = 2
  BY DEF Ladder
<1>4. \A i \in 1..12 : Ladder[i] = "suppressed" <=> i = 10
  BY DEF Ladder
<1>5. \A i \in 1..12 : Ladder[i] = "failed" <=> i = 11
  BY DEF Ladder
<1>6. \A i \in 1..12 : Ladder[i] = "canceled" <=> i = 12
  BY DEF Ladder
<1>7. Rank("queued_quota") = 1
  BY <1>1, <1>2 DEF Rank
<1>8. Rank("queued") = 2
  BY <1>1, <1>3 DEF Rank
<1>9. Rank("suppressed") = 10
  BY <1>1, <1>4 DEF Rank
<1>10. Rank("failed") = 11
  BY <1>1, <1>5 DEF Rank
<1>11. Rank("canceled") = 12
  BY <1>1, <1>6 DEF Rank
<1> QED
  BY <1>7, <1>8, <1>9, <1>10, <1>11

(* One step of one row on the ladder.                                       *)
Climbs(e) ==
  status[e] # "none" /\ status'[e] # status[e] =>
    \/ Rank(status[e]) < Rank(status'[e])
    \/ status[e] = "queued" /\ status'[e] = "queued_quota" /\ sentAt[e] = "null"

LEMMA SameClimbs ==
  ASSUME UNCHANGED status
  PROVE  \A x \in Emails : Climbs(x)
BY DEF Climbs

LEMMA SetStatusClimbs ==
  ASSUME TypeOK, NEW e \in Emails, NEW s, SetStatus(e, s),
         \/ status[e] = "none"
         \/ status[e] \in {"queued_quota", "queued"} /\ s \in {"suppressed", "failed", "canceled"}
         \/ status[e] = "queued_quota" /\ s = "queued"
         \/ Open(e) /\ s = "queued_quota"
  PROVE  \A x \in Emails : Climbs(x)
<1>1. status'[e] = s /\ \A x \in Emails \ {e} : status'[x] = status[x]
  BY DEF SetStatus, TypeOK
<1>2. Climbs(e)
  BY <1>1, Ranks DEF Climbs, Open
<1>3. ASSUME NEW x \in Emails \ {e} PROVE Climbs(x)
  BY <1>1, <1>3 DEF Climbs
<1> QED
  BY <1>2, <1>3

LEMMA CasClimbs ==
  ASSUME TypeOK, NEW e \in Emails, NEW s, ApplyStatusCas(e, s)
  PROVE  \A x \in Emails : Climbs(x)
<1>1. CASE Rank(status[e]) < Rank(s)
  <2>1. status' = [status EXCEPT ![e] = s]
    BY <1>1 DEF ApplyStatusCas
  <2>2. status'[e] = s /\ \A x \in Emails \ {e} : status'[x] = status[x]
    BY <2>1 DEF TypeOK
  <2> QED
    BY <1>1, <2>2 DEF Climbs
<1>2. CASE ~ (Rank(status[e]) < Rank(s))
  BY <1>2, SameClimbs DEF ApplyStatusCas
<1> QED
  BY <1>1, <1>2

LEMMA ParkClimbs ==
  ASSUME TypeOK, NEW e \in Emails, NEW n,
         \/ ParkWithUnits(e, n) \/ CancelQueuedEmail(e) \/ SuppressQueuedEmail(e)
         \/ FailQueuedEmail(e)
  PROVE  \A x \in Emails : Climbs(x)
<1>1. CASE UNCHANGED status
  BY <1>1, SameClimbs
<1>2. CASE \/ Open(e) /\ SetStatus(e, "queued_quota")
           \/ status[e] = "queued" /\ SetStatus(e, "canceled")
           \/ status[e] = "queued" /\ SetStatus(e, "suppressed")
           \/ status[e] = "queued" /\ SetStatus(e, "failed")
  BY <1>2, SetStatusClimbs
<1> QED
  BY <1>1, <1>2 DEF ParkWithUnits, CancelQueuedEmail, SuppressQueuedEmail, FailQueuedEmail, Open

LEMMA HandlerClimbs ==
  ASSUME TypeOK, NEW j \in Jobs, HandlerStep(j)
  PROVE  \A x \in Emails : Climbs(x)
<1>1. \A pc \in Points : At(j, pc) => job[j].email \in Emails
  BY JobFields DEF At
<1>2. {"load", "check", "final", "claim", "claimed", "refused",
       "parking", "accepted", "recorded", "done"} \subseteq Points
  BY DEF Points
<1>3. CASE \/ Skip(j) \/ Defer(j) \/ Load(j) \/ Strip(j) \/ Build(j) \/ PassFinal(j)
           \/ Claim(j) \/ GateClosed(j) \/ SesAccepts(j) \/ SesAnswerLost(j)
           \/ SesRefuses(j) \/ Release(j) \/ RecordMessageId(j) \/ Ack(j)
  <2>1. UNCHANGED status
    BY <1>3 DEF Skip, Defer, Load, Strip, Build, PassFinal, Claim, GateClosed, SesAccepts,
         SesAnswerLost, SesRefuses, Release, RecordMessageId, Ack, rowVars
  <2> QED
    BY <2>1, SameClimbs
<1>4. CASE Park(j) \/ ParkReleased(j)
  BY <1>1, <1>2, <1>4, ParkClimbs DEF Park, ParkReleased, HoldSeen, ParkQueued
<1>5. CASE RefuseStopped(j) \/ RefuseSuppressed(j)
  BY <1>1, <1>2, <1>5, ParkClimbs DEF RefuseStopped, RefuseSuppressed, VerdictSeen
<1>6. CASE FailUnsendable(j) \/ SesRejects(j)
  BY <1>1, <1>2, <1>6, ParkClimbs DEF FailUnsendable, SesRejects
<1>7. CASE RecordSent(j)
  BY <1>1, <1>2, <1>7, CasClimbs DEF RecordSent
<1> QED
  BY <1>3, <1>4, <1>5, <1>6, <1>7 DEF HandlerStep

LEMMA OtherClimbs ==
  ASSUME TypeOK, ClaimInv, NEW e \in Emails, Customer(e) \/ Cron(e) \/ Environment(e)
  PROVE  \A x \in Emails : Climbs(x)
<1>1. CASE \/ EnqueueAccepted(e) \/ LoseEnqueue(e) \/ Reschedule(e) \/ DrainEnqueue(e)
           \/ ReconcileRequeue(e) \/ (\E v \in Refusals : Ineligible(e, v))
           \/ BecomeUnsendable(e) \/ ClaimAges(e) \/ ComesDue(e)
  <2>1. UNCHANGED status
    BY <1>1 DEF EnqueueAccepted, LoseEnqueue, Reschedule, DrainEnqueue, ReconcileRequeue,
         Ineligible, BecomeUnsendable, ClaimAges, ComesDue, rowVars
  <2> QED
    BY <2>1, SameClimbs
<1>2. CASE Accept(e)
  <2>1. status[e] = "none" /\ (SetStatus(e, "queued") \/ SetStatus(e, "queued_quota"))
    BY <1>2 DEF Accept
  <2> QED
    BY <2>1, SetStatusClimbs
<1>3. CASE Cancel(e)
  <2>1. status[e] \in {"queued", "queued_quota"} /\ SetStatus(e, "canceled")
    BY <1>3 DEF Cancel, Unclaimed, Waiting
  <2> QED
    BY <2>1, SetStatusClimbs
<1>4. CASE DrainRelease(e)
  <2>1. status[e] = "queued_quota" /\ SetStatus(e, "queued")
    BY <1>4 DEF DrainRelease
  <2> QED
    BY <2>1, SetStatusClimbs
<1>5. CASE DrainEnqueueFails(e)
  BY <1>5, ParkClimbs DEF DrainEnqueueFails
<1>6. CASE \E s \in Reports : ProviderEvent(e, s)
  BY <1>6, CasClimbs DEF ProviderEvent
<1> QED
  BY <1>1, <1>2, <1>3, <1>4, <1>5, <1>6 DEF Customer, Cron, Environment

LEMMA SweepClimbs ==
  ASSUME TypeOK, Operator \/ ReconcileInterrupted
  PROVE  \A x \in Emails : Climbs(x)
<1>1. ASSUME NEW x \in Emails
      PROVE  \/ status'[x] = status[x]
             \/ status[x] \in {"queued", "queued_quota"} /\ status'[x] \in {"failed", "canceled"}
  <2>1. CASE Operator
    BY <2>1 DEF Operator, FailQueuedEmailsForDomain, CutTeamSendingAccess,
         CloseUnclaimed, Unclaimed, Waiting
  <2>2. CASE ReconcileInterrupted
    BY <2>2 DEF ReconcileInterrupted, Interrupted
  <2> QED
    BY <2>1, <2>2
<1> QED
  BY <1>1, Ranks DEF Climbs

LEMMA NextClimbs ==
  ASSUME TypeOK, ClaimInv, [Next]_vars
  PROVE  \A e \in Emails : Climbs(e)
<1>1. ASSUME NEW j \in Jobs, HandlerStep(j) PROVE \A e \in Emails : Climbs(e)
  BY <1>1, HandlerClimbs
<1>2. ASSUME NEW j \in Jobs, Queue(j) PROVE \A e \in Emails : Climbs(e)
  <2>1. CASE DeadLetter(j)
    <3>1. job[j].email \in Emails /\ FailQueuedEmail(job[j].email)
      BY <2>1, JobFields DEF DeadLetter
    <3> QED
      BY <3>1, ParkClimbs
  <2>2. CASE Fetch(j) \/ Interrupt(j) \/ Expire(j)
    BY <2>2, SameClimbs DEF Fetch, Interrupt, Expire, rowVars
  <2> QED
    BY <1>2, <2>1, <2>2 DEF Queue
<1>3. ASSUME NEW e \in Emails, Customer(e) \/ Cron(e) \/ Environment(e)
      PROVE  \A x \in Emails : Climbs(x)
  BY <1>3, OtherClimbs
<1>4. CASE Operator \/ ReconcileInterrupted
  BY <1>4, SweepClimbs
<1>5. CASE ToggleHold \/ NextDay \/ UNCHANGED vars
  BY <1>5, SameClimbs DEF ToggleHold, NextDay, vars, rowVars
<1> QED
  BY <1>1, <1>2, <1>3, <1>4, <1>5 DEF Next

(* No event, job, cron or cancel takes a row down the ladder, but for the   *)
(* park of an unclaimed row (emails.ts:20-22).                              *)
THEOREM OnlyClimbs == Spec => StatusOnlyClimbs
<1>1. TypeOK /\ ClaimInv /\ [Next]_vars =>
        [\A e \in Emails : status[e] # "none" /\ status'[e] # status[e] =>
           \/ Rank(status[e]) < Rank(status'[e])
           \/ status[e] = "queued" /\ status'[e] = "queued_quota" /\ sentAt[e] = "null"]_vars
  BY NextClimbs DEF Climbs
<1> QED
  BY <1>1, TypeCorrect, ClaimHolds, PTL DEF Spec, StatusOnlyClimbs

-----------------------------------------------------------------------------
(* EmailSend implements EmailPromise.                                       *)

(* A row nobody has accepted is not claimed.                                *)
NoneUnclaimed == \A e \in Emails : status[e] = "none" => sentAt[e] = "null"

LEMMA NextNoneUnclaimed ==
  ASSUME TypeOK, ClaimInv, NoneUnclaimed, [Next]_vars
  PROVE  NoneUnclaimed'
<1>1. ASSUME Quiet, NEW x \in Emails, status'[x] = "none" PROVE sentAt'[x] = "null"
  BY <1>1 DEF Quiet, QuietRow, NoneUnclaimed
<1>2. ASSUME NEW j \in Jobs, NEW e \in Emails, Takes(j, e), NEW x \in Emails, status'[x] = "none"
      PROVE  sentAt'[x] = "null"
  BY <1>2 DEF Takes, Open, NoneUnclaimed, TypeOK
<1>3. ASSUME NEW j \in Jobs, NEW e \in Emails, HandsOver(j, e) \/ GivesBack(j, e),
             NEW x \in Emails, status'[x] = "none"
      PROVE  sentAt'[x] = "null"
  BY <1>3 DEF HandsOver, GivesBack, ReleaseClaim, NoneUnclaimed, TypeOK
<1> QED
  BY <1>1, <1>2, <1>3, StepKinds DEF NoneUnclaimed

(* A row whose stage stays, or ends withdrawn.                              *)
Rests(e) ==
  \/ StageOf(e)' = StageOf(e)
  \/ StageOf(e) \in {"waiting", "committed"} /\ StageOf(e)' = "withdrawn"

LEMMA SameStage ==
  ASSUME NEW e \in Emails, status'[e] = status[e], handed'[e] = handed[e],
         sentAt'[e] = "null" <=> sentAt[e] = "null", Taken(e)' <=> Taken(e)
  PROVE  StageOf(e)' = StageOf(e)
BY DEF StageOf

(* Rows that only rest are withdrawn together, or not at all.               *)
LEMMA RestIsWithdraw ==
  ASSUME \A e \in Emails : Rests(e), UNCHANGED handed
  PROVE  Promise!Next
<1>1. PICK S \in SUBSET Emails : S = {e \in Emails : StageOf(e)' # StageOf(e)}
  OBVIOUS
<1>2. Promise!Withdraw(S)
  BY <1>1 DEF Promise!Withdraw, Rests
<1> QED
  BY <1>2 DEF Promise!Next

(* One row moves from a stage to the next.                                  *)
LEMMA OneMoves ==
  ASSUME NEW e \in Emails, NEW from, NEW to, StageOf(e) = from, StageOf(e)' = to,
         \A x \in Emails \ {e} : StageOf(x)' = StageOf(x)
  PROVE  Promise!Moved(e, from, to)
BY DEF Promise!Moved

(* What quiet steps do to a stage: an attempt may lose its hold, and a row   *)
(* that leaves the queue leaves it for good.                                *)
LEMMA QuietRests ==
  ASSUME TypeOK, ClaimInv, [Next]_vars, Quiet, NEW e \in Emails
  PROVE  Rests(e) \/ Accept(e)
<1>1. QuietRow(e) /\ Climbs(e)
  BY NextClimbs DEF Quiet
<1>2. Taken(e)' => Taken(e)
  BY DEF Quiet, QuietJob, Taken, Holds, Claiming, ClaimPoints
<1>3. Taken(e) => Committed(e)
  BY DEF Taken, ClaimInv
<1>4. handed'[e] = handed[e]
  BY <1>1 DEF QuietRow
<1>5. \/ handed[e] = 0 /\ status[e] \in Unsent
      \/ handed[e] = 1
  BY DEF ClaimInv
<1>6. CASE handed[e] = 1
  BY <1>4, <1>6 DEF Rests, StageOf
<1>7. CASE handed[e] = 0 /\ status[e] \in Unsent
  <2>1. CASE status'[e] = status[e] /\ (sentAt'[e] = "null" <=> sentAt[e] = "null")
    BY <1>2, <1>3, <1>4, <1>7, <2>1 DEF Rests, StageOf, Committed, Unsent
  <2>2. CASE /\ ~ Committed(e) /\ status'[e] \in Unsent \ {"none"}
             /\ status[e] # "none"
             /\ status'[e] = "queued" => sentAt'[e] = "null"
    <3>1. ~ Taken(e) /\ ~ Taken(e)'
      BY <1>2, <1>3, <2>2
    <3>2. \/ status'[e] = status[e]
          \/ status[e] \in {"queued", "queued_quota"} /\ status'[e] # "none"
          \/ status[e] = "suppressed" /\ status'[e] \in {"failed", "canceled"}
      BY <1>1, <1>7, <2>2, Ranks DEF Climbs, Unsent, Committed
    <3> QED
      BY <1>4, <1>7, <2>2, <3>1, <3>2 DEF Rests, StageOf, Committed, Unsent
  <2>3. CASE Committed(e) /\ status'[e] = "failed"
    BY <1>2, <1>4, <1>7, <2>3 DEF Rests, StageOf, Committed, Unsent
  <2> QED
    BY <1>1, <1>7, <2>1, <2>2, <2>3 DEF QuietRow
<1> QED
  BY <1>5, <1>6, <1>7

LEMMA AcceptMaps ==
  ASSUME TypeOK, ClaimInv, NoneUnclaimed, NEW e \in Emails, Accept(e)
  PROVE  Promise!Next
<1>1. /\ status[e] = "none" /\ status'[e] \in {"queued", "queued_quota"}
      /\ \A x \in Emails \ {e} : status'[x] = status[x]
      /\ UNCHANGED << sentAt, handed, job >>
  BY DEF Accept, SetStatus, TypeOK
<1>2. \A x \in Emails : Taken(x)' <=> Taken(x)
  BY <1>1 DEF Taken, Holds
<1>3. handed[e] = 0 /\ ~ Taken(e)
  BY <1>1 DEF Taken, ClaimInv, Committed
<1>4. StageOf(e) = "none"
  BY <1>1, <1>3 DEF StageOf
<1>5. StageOf(e)' = "waiting"
  BY <1>1, <1>2, <1>3 DEF StageOf, NoneUnclaimed
<1>6. \A x \in Emails \ {e} : StageOf(x)' = StageOf(x)
  BY <1>1, <1>2, SameStage
<1>7. Promise!Accept(e)
  BY <1>1, <1>4, <1>5, <1>6, OneMoves DEF Promise!Accept
<1> QED
  BY <1>7 DEF Promise!Next

LEMMA TakesMaps ==
  ASSUME TypeOK, ClaimInv, NEW j \in Jobs, NEW e \in Emails, Takes(j, e)
  PROVE  Promise!Next
<1>1. /\ status[e] = "queued" /\ sentAt[e] = "null" /\ sentAt'[e] = "fresh"
      /\ \A x \in Emails \ {e} : sentAt'[x] = sentAt[x]
      /\ UNCHANGED << status, handed >>
  BY DEF Takes, Open, TypeOK
<1>2. handed[e] = 0 /\ ~ Taken(e)
  BY <1>1 DEF Taken, ClaimInv, Committed
<1>3. ASSUME NEW x \in Emails \ {e} PROVE Taken(x)' <=> Taken(x)
  BY <1>3 DEF Takes, Taken, Holds
<1>4. StageOf(e) = "waiting"
  BY <1>1, <1>2 DEF StageOf
<1>5. StageOf(e)' = "committed"
  BY <1>1, <1>2 DEF StageOf
<1>6. \A x \in Emails \ {e} : StageOf(x)' = StageOf(x)
  BY <1>1, <1>3, SameStage
<1>7. Promise!Commit(e)
  BY <1>1, <1>4, <1>5, <1>6, OneMoves DEF Promise!Commit
<1> QED
  BY <1>7 DEF Promise!Next

LEMMA HandsOverMaps ==
  ASSUME TypeOK, ClaimInv, NEW j \in Jobs, NEW e \in Emails, HandsOver(j, e)
  PROVE  Promise!Next
<1>1. /\ handed' = [handed EXCEPT ![e] = @ + 1]
      /\ UNCHANGED << status, sentAt >>
      /\ Holds(j, e) /\ handed[e] = 0
  BY DEF HandsOver, ClaimInv
<1>2. handed'[e] = 1 /\ \A x \in Emails \ {e} : handed'[x] = handed[x]
  BY <1>1 DEF TypeOK
<1>3. ASSUME NEW x \in Emails \ {e} PROVE Taken(x)' <=> Taken(x)
  BY <1>3 DEF HandsOver, Taken, Holds
<1>4. StageOf(e) = "committed"
  BY <1>1 DEF StageOf, Taken
<1>5. StageOf(e)' = "sent"
  BY <1>2 DEF StageOf
<1>6. \A x \in Emails \ {e} : StageOf(x)' = StageOf(x)
  BY <1>1, <1>2, <1>3, SameStage
<1>7. Promise!HandOver(e)
  BY <1>1, <1>4, <1>5, <1>6, OneMoves DEF Promise!HandOver
<1> QED
  BY <1>7 DEF Promise!Next

(* Giving back the claim of a row another job has failed meanwhile is the   *)
(* end of it.                                                               *)
LEMMA GivesBackMaps ==
  ASSUME TypeOK, ClaimInv, NEW j \in Jobs, NEW e \in Emails, GivesBack(j, e)
  PROVE  Promise!Next
<1>1. /\ UNCHANGED << status, handed >> /\ ReleaseClaim(e)
      /\ Holds(j, e) /\ handed[e] = 0 /\ status[e] \in {"queued", "failed"}
  BY DEF GivesBack, ClaimInv, Committed, Unsent
<1>2. \A x \in Emails \ {e} : sentAt'[x] = sentAt[x]
  BY <1>1 DEF ReleaseClaim, TypeOK
<1>3. ASSUME NEW x \in Emails \ {e} PROVE Taken(x)' <=> Taken(x)
  BY <1>3 DEF GivesBack, Taken, Holds
<1>4. ~ Taken(e)'
  BY DEF GivesBack, Taken, Holds, ClaimInv
<1>5. StageOf(e) = "committed"
  BY <1>1 DEF StageOf, Taken
<1>6. \A x \in Emails \ {e} : StageOf(x)' = StageOf(x)
  BY <1>1, <1>2, <1>3, SameStage
<1>7. CASE status[e] = "queued"
  <2>1. sentAt'[e] = "null"
    BY <1>1, <1>7 DEF ReleaseClaim, TypeOK
  <2>2. StageOf(e)' = "waiting"
    BY <1>1, <1>4, <1>7, <2>1 DEF StageOf
  <2>3. Promise!Recall(e)
    BY <1>1, <1>5, <1>6, <2>2, OneMoves DEF Promise!Recall
  <2> QED
    BY <2>3 DEF Promise!Next
<1>8. CASE status[e] = "failed"
  <2>1. StageOf(e)' = "withdrawn"
    BY <1>1, <1>4, <1>8 DEF StageOf
  <2>2. \A x \in Emails : Rests(x)
    BY <1>5, <1>6, <2>1 DEF Rests
  <2> QED
    BY <1>1, <2>2, RestIsWithdraw
<1> QED
  BY <1>1, <1>7, <1>8

(* Whatever jobs, crons, customers, operators and lost answers do, an email *)
(* waits, is committed to one attempt, and ends sent once or withdrawn,     *)
(* either for good: the send lane (send-email.ts:515-1485) and all that     *)
(* writes its rows implement EmailPromise.                                  *)
THEOREM PromiseKept == Spec => KeepsPromise
<1>1. Init => Promise!Init
  BY DEF Init, Promise!Init, StageOf, Taken, Holds, NoJob
<1>2. Init => NoneUnclaimed
  BY DEF Init, NoneUnclaimed
<1>3. TypeOK /\ ClaimInv /\ NoneUnclaimed /\ [Next]_vars => NoneUnclaimed'
  BY NextNoneUnclaimed
<1>4. TypeOK /\ TypeOK' /\ ClaimInv /\ NoneUnclaimed /\ [Next]_vars => [Promise!Next]_(Promise!vars)
  <2> SUFFICES ASSUME TypeOK, TypeOK', ClaimInv, NoneUnclaimed, [Next]_vars PROVE Promise!Next
    OBVIOUS
  <2>1. CASE Quiet
    <3>1. CASE \A e \in Emails : Rests(e)
      <4>1. \A e \in Emails : handed'[e] = handed[e]
        BY <2>1 DEF Quiet, QuietRow
      <4>2. UNCHANGED handed
        BY <4>1 DEF TypeOK
      <4> QED
        BY <3>1, <4>2, RestIsWithdraw
    <3>2. CASE \E e \in Emails : Accept(e)
      BY <3>2, AcceptMaps
    <3> QED
      BY <2>1, <3>1, <3>2, QuietRests
  <2>2. ASSUME NEW j \in Jobs, NEW e \in Emails, Takes(j, e) \/ HandsOver(j, e) \/ GivesBack(j, e)
        PROVE  Promise!Next
    BY <2>2, TakesMaps, HandsOverMaps, GivesBackMaps
  <2> QED
    BY <2>1, <2>2, StepKinds
<1> QED
  BY <1>1, <1>2, <1>3, <1>4, TypeCorrect, ClaimHolds, PTL DEF Spec, KeepsPromise, Promise!Spec

(* A failed email may be delivered later, as the run "failed" shows of      *)
(* emails.ts:24-26.  What is true is that an email withdrawn with no        *)
(* attempt at work on it is never sent after all, and one SES took is never *)
(* sent again, for good.                                                    *)
THEOREM EndsForGood ==
  Spec => [][\A e \in Emails : StageOf(e) \in {"sent", "withdrawn"} =>
               StageOf(e)' = StageOf(e) /\ handed'[e] = handed[e]]_vars
<1> DEFINE Final(e) == StageOf(e) \in {"sent", "withdrawn"} =>
                         StageOf(e)' = StageOf(e) /\ handed'[e] = handed[e]
<1>1. ASSUME TypeOK, [Promise!Next]_(Promise!vars), NEW e \in Emails
      PROVE  Final(e)
  <2> DEFINE stage == [x \in Emails |-> StageOf(x)]
  <2>1. stage[e] = StageOf(e) /\ stage'[e] = StageOf(e)'
    OBVIOUS
  <2>2. CASE UNCHANGED Promise!vars
    BY <2>1, <2>2 DEF Promise!vars
  <2>3. ASSUME NEW x \in Emails, NEW from, NEW to, from \notin {"sent", "withdrawn"},
               Promise!Moved(x, from, to),
               \/ UNCHANGED handed
               \/ handed' = [handed EXCEPT ![x] = @ + 1]
        PROVE  Final(e)
    <3>1. StageOf(x) = from
      BY <2>3 DEF Promise!Moved
    <3>2. e # x => StageOf(e)' = StageOf(e)
      BY <2>1, <2>3 DEF Promise!Moved
    <3>3. e # x => handed'[e] = handed[e]
      BY <1>1, <2>3 DEF TypeOK
    <3> QED
      BY <2>3, <3>1, <3>2, <3>3
  <2>4. ASSUME NEW S \in SUBSET Emails, Promise!Withdraw(S) PROVE Final(e)
    BY <2>1, <2>4 DEF Promise!Withdraw
  <2> HIDE DEF stage, Final
  <2> QED
    BY <1>1, <2>2, <2>3, <2>4 DEF Promise!Next, Promise!Accept, Promise!Commit,
       Promise!Recall, Promise!HandOver
<1>2. TypeOK /\ [Promise!Next]_(Promise!vars) => [\A e \in Emails : Final(e)]_vars
  BY <1>1
<1> QED
  BY <1>2, TypeCorrect, PromiseKept, PTL DEF KeepsPromise, Promise!Spec
=============================================================================
