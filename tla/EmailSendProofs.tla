--------------------------- MODULE EmailSendProofs ---------------------------
(***************************************************************************)
(* Proofs about EmailSend, for every set of rows and jobs and every value  *)
(* of the other constants.                                                 *)
(***************************************************************************)
EXTENDS EmailSend, TLAPS

(* What one enqueue does: nothing, or a created job in a free slot.         *)
LEMMA EnqueueShape ==
  ASSUME NEW f \in [Jobs -> JobRecords], NEW e \in Emails
  PROVE  /\ Enqueue(f, e) \in [Jobs -> JobRecords]
         /\ \A j \in Jobs : \/ Enqueue(f, e)[j] = f[j]
                            \/ /\ f[j].st = "free"
                               /\ Enqueue(f, e)[j] = [st |-> "created", email |-> e,
                                                      pc |-> "load", tries |-> 0]
<1> DEFINE new == [st |-> "created", email |-> e, pc |-> "load", tries |-> 0]
<1>1. new \in JobRecords
  BY SendAssumption DEF JobRecords, Points
<1>2. CASE Created(e) \/ Free(f) = {}
  BY <1>2 DEF Enqueue
<1>3. CASE ~ (Created(e) \/ Free(f) = {})
  <2> DEFINE slot == CHOOSE j \in Free(f) : TRUE
  <2>1. slot \in Free(f)
    BY <1>3
  <2>2. Enqueue(f, e) = [f EXCEPT ![slot] = new]
    BY <1>3 DEF Enqueue
  <2> HIDE DEF slot, new
  <2> QED
    BY <1>1, <2>1, <2>2 DEF Free, new
<1> QED
  BY <1>2, <1>3

(* A job that is not free keeps its type when its point moves.              *)
LEMMA GotoTyped ==
  ASSUME NEW f \in [Jobs -> JobRecords], NEW j \in Jobs, NEW pc \in Points,
         f[j].st # "free"
  PROVE  /\ [f EXCEPT ![j].pc = pc] \in [Jobs -> JobRecords]
         /\ [f EXCEPT ![j].pc = pc][j] = [f[j] EXCEPT !.pc = pc]
<1>1. f[j] \in JobRecords /\ f[j] # NoJob
  BY DEF NoJob
<1>2. [f[j] EXCEPT !.pc = pc] \in JobRecords
  BY <1>1 DEF JobRecords
<1> QED
  BY <1>2

(* A failed attempt leaves a typed job, or frees the slot.                  *)
LEMMA FailedJobTyped ==
  ASSUME job \in [Jobs -> JobRecords], NEW j \in Jobs,
         job[j].st \in {"active", "orphan"}
  PROVE  /\ FailedJob(j) \in JobRecords
         /\ FailedJob(j).st \in {"free", "retry", "dead"}
         /\ FailedJob(j).st = "retry" => FailedJob(j).pc = "load"
<1>1. job[j] \in [st : {"created", "active", "orphan", "retry", "dead"},
                  email : Emails, pc : Points, tries : 0..RetryLimit]
  BY DEF JobRecords, NoJob
<1>2. CASE job[j].st = "orphan"
  BY <1>2 DEF FailedJob, JobRecords, NoJob
<1>3. CASE job[j].st = "active" /\ job[j].tries < RetryLimit
  <2>1. FailedJob(j) = [job[j] EXCEPT !.st = "retry", !.pc = "load", !.tries = @ + 1]
    BY <1>3 DEF FailedJob
  <2>2. job[j].tries + 1 \in 0..RetryLimit
    BY <1>1, <1>3, SendAssumption
  <2> QED
    BY <1>1, <2>1, <2>2 DEF JobRecords, Points
<1>4. CASE job[j].st = "active" /\ ~ (job[j].tries < RetryLimit)
  <2>1. FailedJob(j) = [job[j] EXCEPT !.st = "dead", !.pc = "load"]
    BY <1>4 DEF FailedJob
  <2> QED
    BY <1>1, <2>1 DEF JobRecords, Points
<1> QED
  BY <1>2, <1>3, <1>4

-----------------------------------------------------------------------------
(* What the steps do to the queue.                                          *)

LEMMA JobFields ==
  ASSUME TypeOK, NEW j \in Jobs, job[j].st # "free"
  PROVE  /\ job[j] \in JobRecords /\ job[j].email \in Emails
         /\ job[j].pc \in Points
BY DEF TypeOK, JobRecords, NoJob

LEMMA GotoEffect ==
  ASSUME TypeOK, NEW j \in Jobs, NEW pc \in Points,
         job[j].st \in {"active", "orphan"}, Goto(j, pc)
  PROVE  /\ job' \in [Jobs -> JobRecords]
         /\ job'[j] = [job[j] EXCEPT !.pc = pc]
         /\ \A k \in Jobs \ {j} : job'[k] = job[k]
<1>1. job \in [Jobs -> JobRecords]
  BY DEF TypeOK
<1>2. job[j].st # "free"
  OBVIOUS
<1>3. /\ [job EXCEPT ![j].pc = pc] \in [Jobs -> JobRecords]
      /\ [job EXCEPT ![j].pc = pc][j] = [job[j] EXCEPT !.pc = pc]
  BY <1>1, <1>2, GotoTyped
<1> QED
  BY <1>1, <1>3 DEF Goto

(* The row goes back to the queue, or stays out of it, as its job ends.     *)
LEMMA EnqueueDoneEffect ==
  ASSUME TypeOK, NEW j \in Jobs, NEW e \in Emails,
         job[j].st \in {"active", "orphan"},
         job' = Enqueue([job EXCEPT ![j].pc = "done"], e)
  PROVE  /\ job' \in [Jobs -> JobRecords]
         /\ job'[j] = [job[j] EXCEPT !.pc = "done"]
         /\ \A k \in Jobs \ {j} :
              job'[k] = job[k] \/ (job'[k].st = "created" /\ job'[k].pc = "load")
<1> DEFINE f == [job EXCEPT ![j].pc = "done"]
<1>1. /\ f \in [Jobs -> JobRecords]
      /\ f[j] = [job[j] EXCEPT !.pc = "done"]
      /\ \A k \in Jobs \ {j} : f[k] = job[k]
  <2>1. job \in [Jobs -> JobRecords] /\ "done" \in Points /\ job[j].st # "free"
    BY DEF TypeOK, Points
  <2> QED
    BY <2>1, GotoTyped
<1>2. f[j].st # "free"
  <2>1. job[j].st # "free"
    OBVIOUS
  <2> QED
    BY <1>1, <2>1, JobFields DEF JobRecords, NoJob
<1>3. job' = Enqueue(f, e)
  OBVIOUS
<1> HIDE DEF f
<1>4. job' \in [Jobs -> JobRecords]
  <2>1. f \in [Jobs -> JobRecords]
    BY <1>1
  <2>2. Enqueue(f, e) \in [Jobs -> JobRecords]
    BY <2>1, EnqueueShape
  <2> QED
    BY <1>3, <2>2
<1>5. \A k \in Jobs : \/ job'[k] = f[k]
                       \/ /\ f[k].st = "free"
                          /\ job'[k] = [st |-> "created", email |-> e,
                                        pc |-> "load", tries |-> 0]
  BY <1>1, <1>3, EnqueueShape
<1>6. job'[j] = [job[j] EXCEPT !.pc = "done"]
  BY <1>1, <1>2, <1>5
<1>7. ASSUME NEW k \in Jobs \ {j}
      PROVE  job'[k] = job[k] \/ (job'[k].st = "created" /\ job'[k].pc = "load")
  <2>1. f[k] = job[k] /\ k \in Jobs
    BY <1>1
  <2>2. CASE job'[k] = f[k]
    BY <2>1, <2>2
  <2>3. CASE job'[k] = [st |-> "created", email |-> e, pc |-> "load", tries |-> 0]
    BY <2>3
  <2> QED
    BY <1>5, <2>1, <2>2, <2>3
<1> QED
  BY <1>4, <1>6, <1>7

LEMMA EnqueueEffect ==
  ASSUME TypeOK, NEW e \in Emails, job' = Enqueue(job, e)
  PROVE  /\ job' \in [Jobs -> JobRecords]
         /\ \A k \in Jobs :
              job'[k] = job[k] \/ (job'[k].st = "created" /\ job'[k].pc = "load")
<1>1. job \in [Jobs -> JobRecords]
  BY DEF TypeOK
<1>2. /\ Enqueue(job, e) \in [Jobs -> JobRecords]
      /\ \A j \in Jobs : \/ Enqueue(job, e)[j] = job[j]
                         \/ /\ job[j].st = "free"
                            /\ Enqueue(job, e)[j] = [st |-> "created", email |-> e,
                                                     pc |-> "load", tries |-> 0]
  BY <1>1, EnqueueShape
<1>3. ASSUME NEW k \in Jobs
      PROVE  job'[k] = job[k] \/ (job'[k].st = "created" /\ job'[k].pc = "load")
  <2>1. CASE Enqueue(job, e)[k] = job[k]
    BY <2>1
  <2>2. CASE Enqueue(job, e)[k] = [st |-> "created", email |-> e,
                                   pc |-> "load", tries |-> 0]
    BY <2>2
  <2> QED
    BY <1>2, <2>1, <2>2
<1> QED
  BY <1>2, <1>3

LEMMA FailEffect ==
  ASSUME TypeOK, NEW j \in Jobs, job[j].st \in {"active", "orphan"},
         job' = [job EXCEPT ![j] = FailedJob(j)]
  PROVE  /\ job' \in [Jobs -> JobRecords]
         /\ job'[j].st \in {"free", "retry", "dead"}
         /\ job'[j].st = "retry" => job'[j].pc = "load"
         /\ \A k \in Jobs \ {j} : job'[k] = job[k]
<1>1. job \in [Jobs -> JobRecords]
  BY DEF TypeOK
<1>2. /\ FailedJob(j) \in JobRecords
      /\ FailedJob(j).st \in {"free", "retry", "dead"}
      /\ FailedJob(j).st = "retry" => FailedJob(j).pc = "load"
  BY <1>1, FailedJobTyped
<1> QED
  BY <1>1, <1>2

-----------------------------------------------------------------------------
(* Type correctness.                                                        *)

LEMMA RefundTyped ==
  ASSUME TypeOK, NEW e \in Emails, NEW n \in Nat, Refund(e, n)
  PROVE  usage' \in [Days -> Nat] /\ chargedOn' \in [Emails -> Days \cup {NotCharged}]
<1>1. usage[today] \in Nat /\ today \in Days
  BY DEF TypeOK
<1>2. (IF usage[today] >= n THEN usage[today] - n ELSE 0) \in Nat
  BY <1>1
<1>3. usage' \in [Days -> Nat]
  BY <1>1, <1>2 DEF TypeOK, Refund
<1>4. chargedOn' \in [Emails -> Days \cup {NotCharged}]
  BY DEF TypeOK, Refund
<1> QED
  BY <1>3, <1>4

LEMMA ChargeTyped ==
  ASSUME TypeOK, NEW e \in Emails, NEW day \in Days, NEW n \in Nat, Charge(e, day, n)
  PROVE  usage' \in [Days -> Nat] /\ chargedOn' \in [Emails -> Days \cup {NotCharged}]
<1>1. usage[day] + n \in Nat
  BY DEF TypeOK
<1>2. usage' \in [Days -> Nat]
  BY <1>1 DEF TypeOK, Charge
<1>3. chargedOn' \in [Emails -> Days \cup {NotCharged}]
  BY DEF TypeOK, Charge
<1> QED
  BY <1>2, <1>3

LEMMA SetStatusTyped ==
  ASSUME TypeOK, NEW e \in Emails, NEW s \in Statuses, SetStatus(e, s)
  PROVE  status' \in [Emails -> Statuses \cup {"none"}]
BY DEF TypeOK, SetStatus

LEMMA LadderStatuses ==
  /\ {"queued_quota", "queued", "sent", "canceled", "suppressed", "failed"} \subseteq Statuses
  /\ ProviderStatuses \subseteq Statuses
<1>1. Len(Ladder) = 12
  BY DEF Ladder
<1>2. /\ Ladder[1] = "queued_quota" /\ Ladder[2] = "queued" /\ Ladder[3] = "sent"
      /\ Ladder[4] = "delivery_delayed" /\ Ladder[5] = "delivered"
      /\ Ladder[8] = "bounced" /\ Ladder[9] = "complained"
      /\ Ladder[10] = "suppressed" /\ Ladder[11] = "failed" /\ Ladder[12] = "canceled"
  BY DEF Ladder
<1> QED
  BY <1>1, <1>2 DEF Statuses, ProviderStatuses

LEMMA CasTyped ==
  ASSUME TypeOK, NEW e \in Emails, NEW s \in Statuses, ApplyStatusCas(e, s)
  PROVE  status' \in [Emails -> Statuses \cup {"none"}]
BY DEF TypeOK, ApplyStatusCas

LEMMA ParkTyped ==
  ASSUME TypeOK, NEW e \in Emails, NEW n \in Nat, ParkWithUnits(e, n)
  PROVE  /\ status' \in [Emails -> Statuses \cup {"none"}]
         /\ usage' \in [Days -> Nat]
         /\ chargedOn' \in [Emails -> Days \cup {NotCharged}]
<1>1. CASE Open(e)
  BY <1>1, LadderStatuses, SetStatusTyped, RefundTyped DEF ParkWithUnits
<1>2. CASE ~ Open(e)
  BY <1>2 DEF ParkWithUnits, quotaVars, TypeOK
<1> QED
  BY <1>1, <1>2

LEMMA FailQueuedTyped ==
  ASSUME TypeOK, NEW e \in Emails, FailQueuedEmail(e)
  PROVE  /\ status' \in [Emails -> Statuses \cup {"none"}]
         /\ sentAt' \in [Emails -> {"null", "fresh", "stale"}]
<1>1. CASE status[e] = "queued"
  <2>1. SetStatus(e, "failed") /\ sentAt' = [sentAt EXCEPT ![e] = "null"]
    BY <1>1 DEF FailQueuedEmail
  <2> QED
    BY <2>1, LadderStatuses, SetStatusTyped DEF TypeOK
<1>2. CASE status[e] # "queued"
  BY <1>2 DEF FailQueuedEmail, TypeOK
<1> QED
  BY <1>1, <1>2

(* The queue keeps its type, and which steps leave it alone.                *)
LEMMA HandlerJobTyped ==
  ASSUME TypeOK, NEW j \in Jobs, HandlerStep(j)
  PROVE  job' \in [Jobs -> JobRecords]
<1> DEFINE e == job[j].email
<1>1. job \in [Jobs -> JobRecords]
  BY DEF TypeOK
<1>2. ASSUME NEW pc \in Points, At(j, pc) PROVE e \in Emails
  BY <1>2, JobFields DEF At
<1>3. ASSUME NEW pc \in Points, NEW to \in Points, At(j, pc), Goto(j, to)
      PROVE  job' \in [Jobs -> JobRecords]
  BY <1>3, GotoEffect DEF At
<1>4. ASSUME NEW pc \in Points, At(j, pc), job' = Enqueue([job EXCEPT ![j].pc = "done"], e)
      PROVE  job' \in [Jobs -> JobRecords]
  <2>1. e \in Emails
    BY <1>2, <1>4
  <2> HIDE DEF e
  <2> QED
    BY <1>4, <2>1, EnqueueDoneEffect DEF At
<1>5. ASSUME NEW pc \in Points, At(j, pc), job' = [job EXCEPT ![j] = FailedJob(j)]
      PROVE  job' \in [Jobs -> JobRecords]
  BY <1>5, FailEffect DEF At
<1>6. {"load", "check", "final", "claim", "claimed", "refused",
       "parking", "accepted", "recorded", "done"} \subseteq Points
  BY DEF Points
<1>7. CASE Skip(j)
  BY <1>7, <1>3, <1>6 DEF Skip
<1>8. CASE Load(j)
  BY <1>8, <1>3, <1>6 DEF Load
<1>9. CASE Build(j)
  BY <1>9, <1>3, <1>6 DEF Build
<1>10. CASE PassFinal(j)
  BY <1>10, <1>3, <1>6 DEF PassFinal
<1>11. CASE GateClosed(j)
  BY <1>11, <1>3, <1>6 DEF GateClosed
<1>12. CASE SesAccepts(j)
  BY <1>12, <1>3, <1>6 DEF SesAccepts
<1>13. CASE SesRefuses(j)
  BY <1>13, <1>3, <1>6 DEF SesRefuses
<1>14. CASE SesRejects(j)
  BY <1>14, <1>3, <1>6 DEF SesRejects
<1>15. CASE ParkReleased(j)
  BY <1>15, <1>3, <1>6 DEF ParkReleased
<1>16. CASE RecordMessageId(j)
  BY <1>16, <1>3, <1>6 DEF RecordMessageId
<1>17. CASE RecordSent(j)
  BY <1>17, <1>3, <1>6 DEF RecordSent
<1>18. CASE FailUnsendable(j)
  BY <1>18, <1>3, <1>6 DEF FailUnsendable
<1>19. CASE Park(j)
  BY <1>19, <1>3, <1>6 DEF Park, HoldSeen
<1>20. CASE RefuseStopped(j)
  BY <1>20, <1>3, <1>6 DEF RefuseStopped, VerdictSeen
<1>21. CASE RefuseSuppressed(j)
  BY <1>21, <1>3, <1>6 DEF RefuseSuppressed, VerdictSeen
<1>22. CASE Claim(j)
  BY <1>22, <1>3, <1>6 DEF Claim
<1>23. CASE Defer(j)
  BY <1>23, <1>4, <1>6 DEF Defer
<1>24. CASE Strip(j)
  BY <1>24, <1>1, <1>4, <1>6 DEF Strip, VerdictSeen
<1>25. CASE SesAnswerLost(j)
  BY <1>25, <1>5, <1>6 DEF SesAnswerLost
<1>26. CASE Release(j)
  BY <1>26, <1>3, <1>5, <1>6 DEF Release
<1>27. CASE Ack(j)
  BY <1>27, <1>1 DEF Ack, JobRecords
<1> QED
  BY <1>7, <1>8, <1>9, <1>10, <1>11, <1>12, <1>13, <1>14, <1>15, <1>16, <1>17, <1>18, <1>19, <1>20, <1>21, <1>22, <1>23, <1>24, <1>25, <1>26, <1>27 DEF HandlerStep

(* The handler keeps the types of the rows, the counters and the rest.      *)
LEMMA HandlerTyped ==
  ASSUME TypeOK, NEW j \in Jobs, HandlerStep(j)
  PROVE  TypeOK'
<1> DEFINE e == job[j].email
<1>1. job' \in [Jobs -> JobRecords]
  BY HandlerJobTyped
<1>2. ASSUME NEW pc \in Points, At(j, pc) PROVE e \in Emails
  BY <1>2, JobFields DEF At
<1>3. {"load", "check", "final", "claim", "claimed", "refused",
       "parking", "accepted", "recorded", "done"} \subseteq Points
  BY DEF Points
<1>4. rcpts \in [Emails -> 0..MaxRcpts] /\ 1 \in 0..MaxRcpts /\ 1 \in Nat
  BY SendAssumption DEF TypeOK
<1>5. ASSUME e \in Emails PROVE rcpts[e] \in Nat
  BY <1>4, <1>5
<1>6. CASE Skip(j)
  BY <1>1, <1>6 DEF Skip, TypeOK, rowVars, envVars, quotaVars, pendVars
<1>7. CASE Defer(j)
  BY <1>1, <1>7 DEF Defer, TypeOK, rowVars, envVars, quotaVars, pendVars
<1>8. CASE Load(j)
  BY <1>1, <1>8 DEF Load, TypeOK, rowVars, envVars, quotaVars, pendVars
<1>9. CASE Build(j)
  BY <1>1, <1>9 DEF Build, TypeOK, rowVars, envVars, quotaVars, pendVars
<1>10. CASE PassFinal(j)
  BY <1>1, <1>10 DEF PassFinal, TypeOK, rowVars, envVars, quotaVars, pendVars
<1>11. CASE GateClosed(j)
  BY <1>1, <1>11 DEF GateClosed, TypeOK, rowVars, envVars, quotaVars, pendVars
<1>12. CASE SesRefuses(j)
  BY <1>1, <1>12 DEF SesRefuses, TypeOK, rowVars, envVars, quotaVars, pendVars
<1>13. CASE Ack(j)
  BY <1>1, <1>13 DEF Ack, TypeOK, rowVars, envVars, quotaVars, pendVars
<1>14. CASE Park(j)
  <2>1. e \in Emails
    BY <1>14, <1>2, <1>3 DEF Park, HoldSeen
  <2>2. ParkWithUnits(e, rcpts[e])
    BY <1>14 DEF Park, ParkQueued
  <2> HIDE DEF e
  <2>3. /\ status' \in [Emails -> Statuses \cup {"none"}]
        /\ usage' \in [Days -> Nat]
        /\ chargedOn' \in [Emails -> Days \cup {NotCharged}]
    BY <1>5, <2>1, <2>2, ParkTyped
  <2> QED
    BY <1>1, <1>14, <2>3 DEF Park, TypeOK, envVars, pendVars
<1>15. CASE ParkReleased(j)
  <2>1. e \in Emails
    BY <1>15, <1>2, <1>3 DEF ParkReleased
  <2>2. ParkWithUnits(e, rcpts[e])
    BY <1>15 DEF ParkReleased, ParkQueued
  <2> HIDE DEF e
  <2>3. /\ status' \in [Emails -> Statuses \cup {"none"}]
        /\ usage' \in [Days -> Nat]
        /\ chargedOn' \in [Emails -> Days \cup {NotCharged}]
    BY <1>5, <2>1, <2>2, ParkTyped
  <2> QED
    BY <1>1, <1>15, <2>3 DEF ParkReleased, TypeOK, envVars, pendVars
<1>16. CASE RefuseStopped(j)
  <2>1. e \in Emails /\ CancelQueuedEmail(e)
    BY <1>16, <1>2, <1>3 DEF RefuseStopped, VerdictSeen
  <2> HIDE DEF e
  <2>2. /\ status' \in [Emails -> Statuses \cup {"none"}]
        /\ usage' \in [Days -> Nat]
        /\ chargedOn' \in [Emails -> Days \cup {NotCharged}]
    <3>1. CASE Open(e)
      BY <1>4, <2>1, <3>1, LadderStatuses, SetStatusTyped, RefundTyped DEF CancelQueuedEmail
    <3>2. CASE ~ Open(e)
      BY <2>1, <3>2 DEF CancelQueuedEmail, quotaVars, TypeOK
    <3> QED
      BY <3>1, <3>2
  <2> QED
    BY <1>1, <1>16, <2>2 DEF RefuseStopped, TypeOK, envVars, pendVars
<1>17. CASE RefuseSuppressed(j)
  <2>1. e \in Emails /\ SuppressQueuedEmail(e)
    BY <1>17, <1>2, <1>3 DEF RefuseSuppressed, VerdictSeen
  <2> HIDE DEF e
  <2>2. status' \in [Emails -> Statuses \cup {"none"}]
    <3>1. CASE Open(e)
      BY <2>1, <3>1, LadderStatuses, SetStatusTyped DEF SuppressQueuedEmail
    <3>2. CASE ~ Open(e)
      BY <2>1, <3>2 DEF SuppressQueuedEmail, TypeOK
    <3> QED
      BY <3>1, <3>2
  <2> QED
    BY <1>1, <1>17, <2>2 DEF RefuseSuppressed, TypeOK, envVars, quotaVars, pendVars
<1>18. CASE Strip(j)
  <2>1. e \in Emails /\ StripRecipients(e) /\ verdict' = [verdict EXCEPT ![e] = "ok"]
    BY <1>18, <1>2, <1>3 DEF Strip, VerdictSeen
  <2> HIDE DEF e
  <2>2. rcpts' \in [Emails -> 0..MaxRcpts]
    <3>1. CASE status[e] = "queued"
      <4>1. PICK n \in 1..(rcpts[e] - 1) : rcpts' = [rcpts EXCEPT ![e] = n]
        BY <2>1, <3>1 DEF StripRecipients
      <4>2. n \in 0..MaxRcpts
        BY <1>4, <2>1, SendAssumption
      <4> QED
        BY <1>4, <4>1, <4>2
    <3>2. CASE status[e] # "queued"
      BY <1>4, <2>1, <3>2 DEF StripRecipients
    <3> QED
      BY <3>1, <3>2
  <2>3. verdict' \in [Emails -> {"ok", "strip", "refuse", "stopped"}]
    BY <2>1 DEF TypeOK
  <2> QED
    BY <1>1, <1>18, <2>2, <2>3 DEF Strip, TypeOK, quotaVars, pendVars
<1>19. CASE FailUnsendable(j)
  <2>1. e \in Emails /\ FailQueuedEmail(e)
    BY <1>19, <1>2, <1>3 DEF FailUnsendable
  <2> HIDE DEF e
  <2>2. /\ status' \in [Emails -> Statuses \cup {"none"}]
        /\ sentAt' \in [Emails -> {"null", "fresh", "stale"}]
    BY <2>1, FailQueuedTyped
  <2> QED
    BY <1>1, <1>19, <2>2 DEF FailUnsendable, TypeOK, envVars, quotaVars, pendVars
<1>20. CASE SesRejects(j)
  <2>1. e \in Emails /\ FailQueuedEmail(e)
    BY <1>20, <1>2, <1>3 DEF SesRejects
  <2> HIDE DEF e
  <2>2. /\ status' \in [Emails -> Statuses \cup {"none"}]
        /\ sentAt' \in [Emails -> {"null", "fresh", "stale"}]
    BY <2>1, FailQueuedTyped
  <2> QED
    BY <1>1, <1>20, <2>2 DEF SesRejects, TypeOK, envVars, quotaVars, pendVars
<1>21. CASE Claim(j)
  BY <1>1, <1>21 DEF Claim, TypeOK, envVars, quotaVars, pendVars
<1>22. CASE SesAccepts(j)
  <2>1. e \in Emails /\ handed' = [handed EXCEPT ![e] = @ + 1]
    BY <1>22, <1>2, <1>3 DEF SesAccepts
  <2> HIDE DEF e
  <2>2. handed' \in [Emails -> Nat]
    BY <2>1 DEF TypeOK
  <2> QED
    BY <1>1, <1>22, <2>2 DEF SesAccepts, TypeOK, rowVars, envVars, quotaVars, pendVars
<1>23. CASE SesAnswerLost(j)
  <2>1. e \in Emails /\ handed' = [handed EXCEPT ![e] = @ + 1]
    BY <1>23, <1>2, <1>3 DEF SesAnswerLost
  <2> HIDE DEF e
  <2>2. handed' \in [Emails -> Nat]
    BY <2>1 DEF TypeOK
  <2> QED
    BY <1>1, <1>23, <2>2 DEF SesAnswerLost, TypeOK, rowVars, envVars, quotaVars, pendVars
<1>24. CASE Release(j)
  <2>1. sentAt' \in [Emails -> {"null", "fresh", "stale"}]
    BY <1>24 DEF Release, ReleaseClaim, TypeOK
  <2> QED
    BY <1>1, <1>24, <2>1 DEF Release, TypeOK, envVars, quotaVars, pendVars
<1>25. CASE RecordMessageId(j)
  BY <1>1, <1>25 DEF RecordMessageId, TypeOK, envVars, quotaVars, pendVars
<1>26. CASE RecordSent(j)
  <2>1. e \in Emails /\ ApplyStatusCas(e, "sent")
    BY <1>26, <1>2, <1>3 DEF RecordSent
  <2> HIDE DEF e
  <2>2. status' \in [Emails -> Statuses \cup {"none"}]
    BY <2>1, LadderStatuses, CasTyped
  <2> QED
    BY <1>1, <1>26, <2>2 DEF RecordSent, TypeOK, envVars, quotaVars, pendVars
<1> QED
  BY <1>6, <1>7, <1>8, <1>9, <1>10, <1>11, <1>12, <1>13, <1>14, <1>15, <1>16, <1>17, <1>18, <1>19, <1>20, <1>21, <1>22, <1>23, <1>24, <1>25, <1>26 DEF HandlerStep

(* So do the queue, the customer, the operator, the crons and the rest.     *)
LEMMA QueueTyped ==
  ASSUME TypeOK, NEW j \in Jobs, Queue(j)
  PROVE  TypeOK'
<1>1. CASE Fetch(j)
  <2>1. job' \in [Jobs -> JobRecords]
    <3>1. [job[j] EXCEPT !.st = "active"] \in JobRecords
      BY <1>1 DEF Fetch, TypeOK, JobRecords, NoJob
    <3> QED
      BY <1>1, <3>1 DEF Fetch, TypeOK
  <2> QED
    BY <1>1, <2>1 DEF Fetch, TypeOK, rowVars, envVars, quotaVars, pendVars
<1>2. CASE Interrupt(j)
  BY <1>2, FailEffect DEF Interrupt, TypeOK, rowVars, envVars, quotaVars, pendVars
<1>3. CASE Expire(j)
  <2>1. PICK i \in Free(job) : job' = [job EXCEPT ![j].st = "orphan", ![i] = FailedJob(j)]
    BY <1>3 DEF Expire
  <2>2. [job[j] EXCEPT !.st = "orphan"] \in JobRecords
    BY <1>3 DEF Expire, TypeOK, JobRecords, NoJob
  <2>3. FailedJob(j) \in JobRecords
    BY <1>3, FailedJobTyped DEF Expire, TypeOK
  <2>4. job' \in [Jobs -> JobRecords]
    BY <2>1, <2>2, <2>3 DEF TypeOK, Free
  <2> QED
    BY <1>3, <2>4 DEF Expire, TypeOK, rowVars, envVars, quotaVars, pendVars
<1>4. CASE DeadLetter(j)
  <2>1. job[j].email \in Emails /\ FailQueuedEmail(job[j].email)
    BY <1>4, JobFields DEF DeadLetter
  <2>2. /\ status' \in [Emails -> Statuses \cup {"none"}]
        /\ sentAt' \in [Emails -> {"null", "fresh", "stale"}]
    BY <2>1, FailQueuedTyped
  <2>3. job' \in [Jobs -> JobRecords]
    BY <1>4 DEF DeadLetter, TypeOK, JobRecords
  <2> QED
    BY <1>4, <2>2, <2>3 DEF DeadLetter, TypeOK, envVars, quotaVars, pendVars
<1> QED
  BY <1>1, <1>2, <1>3, <1>4 DEF Queue

LEMMA CustomerTyped ==
  ASSUME TypeOK, NEW e \in Emails, Customer(e)
  PROVE  TypeOK'
<1>1. CASE Accept(e)
  <2>1. PICK n \in 1..MaxRcpts, when \in {"now", "later"}, day \in {today, today + 1} :
          /\ day \in Days
          /\ rcpts' = [rcpts EXCEPT ![e] = n]
          /\ schedule' = [schedule EXCEPT ![e] = when]
          /\ IF Room(day, n)
             THEN /\ SetStatus(e, "queued")
                  /\ Charge(e, day, n)
                  /\ owed' = [owed EXCEPT ![e] = TRUE]
             ELSE /\ SetStatus(e, "queued_quota")
                  /\ UNCHANGED << quotaVars, owed >>
    BY <1>1 DEF Accept
  <2>2. n \in Nat /\ n \in 0..MaxRcpts
    BY SendAssumption
  <2>3. /\ status' \in [Emails -> Statuses \cup {"none"}]
        /\ usage' \in [Days -> Nat]
        /\ chargedOn' \in [Emails -> Days \cup {NotCharged}]
        /\ owed' \in [Emails -> BOOLEAN]
    <3>1. CASE Room(day, n)
      BY <2>1, <2>2, <3>1, LadderStatuses, SetStatusTyped, ChargeTyped DEF TypeOK
    <3>2. CASE ~ Room(day, n)
      BY <2>1, <3>2, LadderStatuses, SetStatusTyped DEF TypeOK, quotaVars
    <3> QED
      BY <3>1, <3>2
  <2>4. rcpts' \in [Emails -> 0..MaxRcpts] /\ schedule' \in [Emails -> {"now", "later", "due"}]
    BY <2>1, <2>2 DEF TypeOK
  <2> QED
    BY <1>1, <2>3, <2>4 DEF Accept, TypeOK, envVars
<1>2. CASE EnqueueAccepted(e)
  BY <1>2, EnqueueEffect DEF EnqueueAccepted, TypeOK, rowVars, envVars, quotaVars
<1>3. CASE LoseEnqueue(e)
  <2>1. owed' \in [Emails -> BOOLEAN] /\ moved' \in [Emails -> 0..MaxRcpts]
    <3>1. 0 \in 0..MaxRcpts
      BY SendAssumption
    <3>2. CASE owed' = [owed EXCEPT ![e] = FALSE] /\ UNCHANGED moved
      BY <3>2 DEF TypeOK
    <3>3. CASE moved' = [moved EXCEPT ![e] = 0] /\ UNCHANGED owed
      BY <3>1, <3>3 DEF TypeOK
    <3> QED
      BY <1>3, <3>2, <3>3 DEF LoseEnqueue
  <2> QED
    BY <1>3, <2>1 DEF LoseEnqueue, TypeOK, rowVars, envVars, quotaVars
<1>4. CASE Cancel(e)
  BY <1>4, LadderStatuses, SetStatusTyped DEF Cancel, TypeOK, envVars, quotaVars, pendVars
<1>5. CASE Reschedule(e)
  <2>1. job' \in [Jobs -> JobRecords]
    BY <1>5, EnqueueEffect DEF Reschedule, TypeOK
  <2> QED
    BY <1>5, <2>1 DEF Reschedule, TypeOK, envVars, quotaVars, pendVars
<1> QED
  BY <1>1, <1>2, <1>3, <1>4, <1>5 DEF Customer

LEMMA OperatorTyped ==
  ASSUME TypeOK, Operator
  PROVE  TypeOK'
<1>1. CASE FailQueuedEmailsForDomain
  <2>1. status' \in [Emails -> Statuses \cup {"none"}]
    BY <1>1, LadderStatuses DEF FailQueuedEmailsForDomain, CloseUnclaimed, TypeOK
  <2> QED
    BY <1>1, <2>1 DEF FailQueuedEmailsForDomain, TypeOK, quotaVars, pendVars
<1>2. CASE CutTeamSendingAccess
  <2>1. status' \in [Emails -> Statuses \cup {"none"}]
    BY <1>2, LadderStatuses DEF CutTeamSendingAccess, CloseUnclaimed, TypeOK
  <2> QED
    BY <1>2, <2>1 DEF CutTeamSendingAccess, TypeOK, quotaVars, pendVars
<1> QED
  BY <1>1, <1>2 DEF Operator

LEMMA CronTyped ==
  ASSUME TypeOK, NEW e \in Emails, Cron(e)
  PROVE  TypeOK'
<1>1. CASE DrainRelease(e)
  <2>1. today \in Days /\ rcpts[e] \in Nat /\ rcpts[e] \in 0..MaxRcpts
    BY SendAssumption DEF TypeOK
  <2>2. SetStatus(e, "queued") /\ Charge(e, today, rcpts[e])
    BY <1>1 DEF DrainRelease
  <2>3. /\ status' \in [Emails -> Statuses \cup {"none"}]
        /\ usage' \in [Days -> Nat]
        /\ chargedOn' \in [Emails -> Days \cup {NotCharged}]
    BY <2>1, <2>2, LadderStatuses, SetStatusTyped, ChargeTyped
  <2> QED
    BY <1>1, <2>1, <2>3 DEF DrainRelease, TypeOK, envVars
<1>2. CASE DrainEnqueue(e)
  BY <1>2, EnqueueEffect, SendAssumption DEF DrainEnqueue, TypeOK, rowVars, envVars, quotaVars
<1>3. CASE DrainEnqueueFails(e)
  <2>1. moved[e] \in Nat /\ 0 \in 0..MaxRcpts
    BY SendAssumption DEF TypeOK
  <2>2. ParkWithUnits(e, moved[e])
    BY <1>3 DEF DrainEnqueueFails
  <2>3. /\ status' \in [Emails -> Statuses \cup {"none"}]
        /\ usage' \in [Days -> Nat]
        /\ chargedOn' \in [Emails -> Days \cup {NotCharged}]
    BY <2>1, <2>2, ParkTyped
  <2> QED
    BY <1>3, <2>1, <2>3 DEF DrainEnqueueFails, TypeOK, envVars
<1>4. CASE ReconcileRequeue(e)
  BY <1>4, EnqueueEffect DEF ReconcileRequeue, TypeOK, rowVars, envVars, quotaVars, pendVars
<1> QED
  BY <1>1, <1>2, <1>3, <1>4 DEF Cron

LEMMA EnvironmentTyped ==
  ASSUME TypeOK, NEW e \in Emails, Environment(e)
  PROVE  TypeOK'
<1>1. CASE \E v \in Refusals : Ineligible(e, v)
  BY <1>1, SendAssumption DEF Ineligible, TypeOK, rowVars, quotaVars, pendVars
<1>2. CASE BecomeUnsendable(e)
  BY <1>2 DEF BecomeUnsendable, TypeOK, rowVars, quotaVars, pendVars
<1>3. CASE ClaimAges(e)
  BY <1>3 DEF ClaimAges, TypeOK, envVars, quotaVars, pendVars
<1>4. CASE ComesDue(e)
  BY <1>4 DEF ComesDue, TypeOK, envVars, quotaVars, pendVars
<1>5. CASE \E s \in Reports : ProviderEvent(e, s)
  <2>1. PICK s \in Reports : ProviderEvent(e, s)
    BY <1>5
  <2>2. s \in Statuses
    BY SendAssumption, LadderStatuses
  <2>3. status' \in [Emails -> Statuses \cup {"none"}]
    BY <2>1, <2>2, CasTyped DEF ProviderEvent
  <2> QED
    BY <2>1, <2>3 DEF ProviderEvent, TypeOK, envVars, quotaVars, pendVars
<1> QED
  BY <1>1, <1>2, <1>3, <1>4, <1>5 DEF Environment

(* Every step keeps the types: no counter goes below zero, no row leaves    *)
(* the ladder, no job names a row that does not exist.                      *)
THEOREM TypeCorrect == Spec => []TypeOK
<1>1. Init => TypeOK
  <2> SUFFICES ASSUME Init PROVE TypeOK
    OBVIOUS
  <2>1. 0 \in Days /\ 0 \in 0..MaxRcpts
    BY SendAssumption DEF Days
  <2>2. NoJob \in JobRecords
    BY DEF JobRecords
  <2> QED
    BY <2>1, <2>2 DEF Init, TypeOK, NotCharged
<1>2. TypeOK /\ [Next]_vars => TypeOK'
  <2> SUFFICES ASSUME TypeOK, [Next]_vars PROVE TypeOK'
    OBVIOUS
  <2>1. ASSUME NEW j \in Jobs, HandlerStep(j) \/ Queue(j) PROVE TypeOK'
    BY <2>1, HandlerTyped, QueueTyped
  <2>2. ASSUME NEW e \in Emails, Customer(e) \/ Cron(e) \/ Environment(e) PROVE TypeOK'
    BY <2>2, CustomerTyped, CronTyped, EnvironmentTyped
  <2>3. CASE Operator
    BY <2>3, OperatorTyped
  <2>4. CASE ReconcileInterrupted
    <3>1. status' \in [Emails -> Statuses \cup {"none"}]
      BY <2>4, LadderStatuses DEF ReconcileInterrupted, TypeOK
    <3>2. sentAt' \in [Emails -> {"null", "fresh", "stale"}]
      BY <2>4 DEF ReconcileInterrupted, TypeOK
    <3> QED
      BY <2>4, <3>1, <3>2 DEF ReconcileInterrupted, TypeOK, envVars, quotaVars, pendVars
  <2>5. CASE ToggleHold
    BY <2>5 DEF ToggleHold, TypeOK, rowVars, quotaVars, pendVars
  <2>6. CASE NextDay
    <3>1. today' \in Days
      BY <2>6, SendAssumption DEF NextDay, TypeOK, Days
    <3> QED
      BY <2>6, <3>1 DEF NextDay, TypeOK, rowVars, quotaVars, pendVars
  <2>7. CASE UNCHANGED vars
    BY <2>7 DEF TypeOK, vars
  <2> QED
    BY <2>1, <2>2, <2>3, <2>4, <2>5, <2>6, <2>7 DEF Next
<1> QED
  BY <1>1, <1>2, PTL DEF Spec
=============================================================================
