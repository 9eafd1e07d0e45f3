------------------------------ MODULE EmailSend ------------------------------
(***************************************************************************)
(* The outbound lane of MepMail: rows of the emails table, the email.send  *)
(* jobs that carry them, and everything else that writes those rows.       *)
(*                                                                         *)
(* A row is accepted (packages/core/src/accept-email.ts), its job is run   *)
(* by the send handler (apps/worker/src/handlers/send-email.ts), which     *)
(* claims it by setting sent_at, hands it to SES and books the result.     *)
(* Around it run the customer's cancel and reschedule, the operator's      *)
(* suspension, the deletion of a domain, the drain and reconcile crons     *)
(* (apps/worker/src/handlers/cron.ts), the dead-letter handler, and the    *)
(* SES events (packages/core/src/process-provider-event.ts).               *)
(*                                                                         *)
(* The model is of one team, on a daily plan, sending from one domain      *)
(* through SES with no provider-restoration policy.  Every step below is   *)
(* one committed statement or transaction of the code, so the handler is   *)
(* interrupted exactly where the code awaits.                              *)
(***************************************************************************)
EXTENDS Integers, Sequences, FiniteSets, FiniteSetsExt

CONSTANTS
  Emails,      \* rows that may be accepted
  Jobs,        \* slots of the queue: more jobs than this never exist at once
  RetryLimit,  \* failed attempts after which pg-boss dead-letters a job
  MaxRcpts,    \* distinct recipients of an email at accept, at most
  Ceiling,     \* dailyCeiling of the team's plan
  Backlog,     \* parked rows past which accept refuses
  LastDay,     \* the clock stops here
  Reports,     \* event statuses SES reports in this instance
  Refusals     \* eligibility verdicts that occur in this instance

(* emailStatusEnum, in its declaration order: the order is the ladder. *)
Ladder == << "queued_quota", "queued", "sent", "delivery_delayed", "delivered",
             "opened", "clicked", "bounced", "complained", "suppressed",
             "failed", "canceled" >>

Statuses == {Ladder[i] : i \in 1..Len(Ladder)}

Rank(s) == CHOOSE i \in 1..Len(Ladder) : Ladder[i] = s

(* STATUS_BY_EVENT: what an SES event may turn a row into. *)
ProviderStatuses ==
  {"delivery_delayed", "delivered", "bounced", "complained", "failed"}

Days == 0..LastDay

NotCharged == -1

(* Points at which the handler awaits; from "claimed" to "recorded" it      *)
(* holds the claim on its row.                                              *)
Points == {"load", "check", "final", "claim", "claimed", "refused",
           "parking", "accepted", "recorded", "done"}

NoEmail == "no email"

NoJob == [st |-> "free", email |-> NoEmail, pc |-> "done", tries |-> 0]

JobRecords ==
  {NoJob} \cup [st : {"created", "active", "orphan", "retry", "dead"},
                email : Emails, pc : Points, tries : 0..RetryLimit]

ASSUME SendAssumption ==
  /\ IsFiniteSet(Emails)
  /\ NoEmail \notin Emails
  /\ RetryLimit \in Nat
  /\ MaxRcpts \in Nat \ {0}
  /\ Ceiling \in Nat
  /\ Backlog \in Nat
  /\ LastDay \in Nat
  /\ Reports \subseteq ProviderStatuses
  /\ Refusals \subseteq {"strip", "refuse", "stopped"}

VARIABLES
  status,      \* latest_status of each row; "none" before accept
  sentAt,      \* sent_at, the claim: null, or how old it is
  joined,      \* ses_message_id is recorded
  schedule,    \* scheduled_at: null ("now"), in the future, or past
  rcpts,       \* distinct recipients left on the row
  verdict,     \* what checkSendEligibility would answer for the row
  unsendable,  \* domain not verified, or body purged or unreadable
  held,        \* something parks mail: suspension, review, SES pause or quota
  job,         \* the email.send queue
  owed,        \* accept committed the row and has not enqueued its job yet
  moved,       \* units the drain reserved for a row whose job it has yet to enqueue
  usage,       \* usage_counters.accepted, by UTC day
  chargedOn,   \* history: the day whose counter holds the row's units
  today,
  handed       \* history: sendRaw calls SES took the message of

vars == << status, sentAt, joined, schedule, rcpts, verdict, unsendable, held,
           job, owed, moved, usage, chargedOn, today, handed >>

rowVars == << status, sentAt, joined, schedule, rcpts >>
envVars == << verdict, unsendable, held, today >>
quotaVars == << usage, chargedOn >>
pendVars == << owed, moved >>

Init ==
  /\ status = [e \in Emails |-> "none"]
  /\ sentAt = [e \in Emails |-> "null"]
  /\ joined = [e \in Emails |-> FALSE]
  /\ schedule = [e \in Emails |-> "now"]
  /\ rcpts = [e \in Emails |-> 0]
  /\ verdict = [e \in Emails |-> "ok"]
  /\ unsendable = [e \in Emails |-> FALSE]
  /\ held = FALSE
  /\ job = [j \in Jobs |-> NoJob]
  /\ owed = [e \in Emails |-> FALSE]
  /\ moved = [e \in Emails |-> 0]
  /\ usage = [d \in Days |-> 0]
  /\ chargedOn = [e \in Emails |-> NotCharged]
  /\ today = 0
  /\ handed = [e \in Emails |-> 0]

-----------------------------------------------------------------------------
(* The queue.                                                               *)

(* One insert under the "short" policy: a job already created for the row   *)
(* swallows it; an active job, or one waiting for its retry, does not.      *)
Created(e) == \E j \in Jobs : job[j].st = "created" /\ job[j].email = e

Free(jobs) == {j \in Jobs : jobs[j].st = "free"}

Enqueue(jobs, e) ==
  IF Created(e) \/ Free(jobs) = {} THEN jobs
  ELSE [jobs EXCEPT ![CHOOSE j \in Free(jobs) : TRUE] =
          [st |-> "created", email |-> e, pc |-> "load", tries |-> 0]]

At(j, pc) == job[j].st \in {"active", "orphan"} /\ job[j].pc = pc

Goto(j, pc) == job' = [job EXCEPT ![j].pc = pc]

(* The attempt throws, its worker dies, or a mate of its fetch batch threw: *)
(* the queue retries the job until its retries are spent.                   *)
FailedJob(j) ==
  CASE job[j].st = "orphan" -> NoJob
    [] job[j].st = "active" /\ job[j].tries < RetryLimit ->
         [job[j] EXCEPT !.st = "retry", !.pc = "load", !.tries = @ + 1]
    [] OTHER -> [job[j] EXCEPT !.st = "dead", !.pc = "load"]

Fetch(j) ==
  /\ job[j].st \in {"created", "retry"}
  /\ job' = [job EXCEPT ![j].st = "active"]
  /\ UNCHANGED << rowVars, envVars, quotaVars, pendVars, handed >>

Interrupt(j) ==
  /\ job[j].st \in {"active", "orphan"}
  /\ job' = [job EXCEPT ![j] = FailedJob(j)]
  /\ UNCHANGED << rowVars, envVars, quotaVars, pendVars, handed >>

(* The 15-minute expiry fires under a handler that still runs: the queue    *)
(* retries the job while the first attempt goes on, owned by nobody.        *)
Expire(j) ==
  /\ job[j].st = "active"
  /\ \E k \in Free(job) :
       job' = [job EXCEPT ![j].st = "orphan", ![k] = FailedJob(j)]
  /\ UNCHANGED << rowVars, envVars, quotaVars, pendVars, handed >>

Ack(j) ==
  /\ At(j, "done")
  /\ job' = [job EXCEPT ![j] = NoJob]
  /\ UNCHANGED << rowVars, envVars, quotaVars, pendVars, handed >>

-----------------------------------------------------------------------------
(* Statements the handler and the crons share.                              *)

Open(e) == status[e] = "queued" /\ sentAt[e] = "null"

Room(day, n) == usage[day] + n <= Ceiling

(* releaseDailyQuota without its greatest(..., 0).                          *)
RefundUnfloored(e, n) ==
  /\ usage' = [usage EXCEPT ![today] = @ - n]
  /\ chargedOn' = [chargedOn EXCEPT ![e] = NotCharged]

Charge(e, day, n) ==
  /\ usage' = [usage EXCEPT ![day] = @ + n]
  /\ chargedOn' = [chargedOn EXCEPT ![e] = day]

(* releaseDailyQuota without a day: today's counter, floored at zero.       *)
Refund(e, n) ==
  /\ usage' = [usage EXCEPT ![today] = IF @ >= n THEN @ - n ELSE 0]
  /\ chargedOn' = [chargedOn EXCEPT ![e] = NotCharged]

SetStatus(e, s) == status' = [status EXCEPT ![e] = s]

ApplyStatusBlindly(e, next) == SetStatus(e, next)

ApplyStatusCas(e, next) ==
  status' = IF Rank(status[e]) < Rank(next)
            THEN [status EXCEPT ![e] = next] ELSE status

ParkWithUnits(e, n) ==
  IF Open(e)
  THEN SetStatus(e, "queued_quota") /\ Refund(e, n)
  ELSE UNCHANGED << status, quotaVars >>

ParkKeepingUnits(e) ==
  /\ IF Open(e) THEN SetStatus(e, "queued_quota") ELSE UNCHANGED status
  /\ UNCHANGED quotaVars

ParkQueued(e) == ParkWithUnits(e, rcpts[e])

CancelQueuedEmail(e) ==
  IF Open(e)
  THEN SetStatus(e, "canceled") /\ Refund(e, 1)
  ELSE UNCHANGED << status, quotaVars >>

SuppressQueuedEmail(e) ==
  IF Open(e) THEN SetStatus(e, "suppressed") ELSE UNCHANGED status

(* Guarded on the status alone: a row another attempt has claimed is failed *)
(* and its claim cleared.                                                   *)
FailQueuedEmail(e) ==
  IF status[e] = "queued"
  THEN SetStatus(e, "failed") /\ sentAt' = [sentAt EXCEPT ![e] = "null"]
  ELSE UNCHANGED << status, sentAt >>

ReleaseClaim(e) ==
  sentAt' = IF status[e] = "queued" THEN [sentAt EXCEPT ![e] = "null"] ELSE sentAt

(* At least one recipient is left, or the row is refused instead.           *)
StripRecipients(e) ==
  IF status[e] = "queued"
  THEN \E n \in 1..(rcpts[e] - 1) : rcpts' = [rcpts EXCEPT ![e] = n]
  ELSE UNCHANGED rcpts

-----------------------------------------------------------------------------
(* sendEmail, from the read of the row to the claim.                        *)

Skip(j) ==
  /\ At(j, "load") /\ ~ Open(job[j].email)
  /\ Goto(j, "done")
  /\ UNCHANGED << rowVars, envVars, quotaVars, pendVars, handed >>

Defer(j) ==
  LET e == job[j].email IN
  /\ At(j, "load") /\ Open(e) /\ schedule[e] = "later"
  /\ job' = Enqueue([job EXCEPT ![j].pc = "done"], e)
  /\ UNCHANGED << rowVars, envVars, quotaVars, pendVars, handed >>

Load(j) ==
  LET e == job[j].email IN
  /\ At(j, "load") /\ Open(e) /\ schedule[e] # "later"
  /\ Goto(j, "check")
  /\ UNCHANGED << rowVars, envVars, quotaVars, pendVars, handed >>

(* The first round of checks looks at the holds before the recipients, the  *)
(* round just ahead of the claim after them.                                *)
HoldSeen(j) ==
  \/ At(j, "check") /\ held
  \/ At(j, "final") /\ held /\ verdict[job[j].email] = "ok"

VerdictSeen(j, v) ==
  /\ \/ At(j, "check") /\ ~ held
     \/ At(j, "final")
  /\ verdict[job[j].email] = v

Park(j) ==
  /\ HoldSeen(j)
  /\ ParkQueued(job[j].email)
  /\ Goto(j, "done")
  /\ UNCHANGED << sentAt, joined, schedule, rcpts, envVars, pendVars, handed >>

RefuseStopped(j) ==
  /\ VerdictSeen(j, "stopped")
  /\ CancelQueuedEmail(job[j].email)
  /\ Goto(j, "done")
  /\ UNCHANGED << sentAt, joined, schedule, rcpts, envVars, pendVars, handed >>

RefuseSuppressed(j) ==
  /\ VerdictSeen(j, "refuse")
  /\ SuppressQueuedEmail(job[j].email)
  /\ Goto(j, "done")
  /\ UNCHANGED << sentAt, joined, schedule, rcpts, envVars, quotaVars, pendVars, handed >>

(* The first round strips and goes on; the last one has a MIME built for    *)
(* the recipients it drops, and hands the row back to the queue.            *)
Strip(j) ==
  LET e == job[j].email IN
  /\ VerdictSeen(j, "strip")
  /\ StripRecipients(e)
  /\ verdict' = [verdict EXCEPT ![e] = "ok"]
  /\ IF At(j, "check") THEN UNCHANGED job
     ELSE job' = Enqueue([job EXCEPT ![j].pc = "done"], e)
  /\ UNCHANGED << status, sentAt, joined, schedule, unsendable, held, today,
                  quotaVars, pendVars, handed >>

FailUnsendable(j) ==
  LET e == job[j].email IN
  /\ At(j, "check") /\ ~ held /\ verdict[e] = "ok" /\ unsendable[e]
  /\ FailQueuedEmail(e)
  /\ Goto(j, "done")
  /\ UNCHANGED << joined, schedule, rcpts, envVars, quotaVars, pendVars, handed >>

Build(j) ==
  LET e == job[j].email IN
  /\ At(j, "check") /\ ~ held /\ verdict[e] = "ok" /\ ~ unsendable[e]
  /\ Goto(j, "final")
  /\ UNCHANGED << rowVars, envVars, quotaVars, pendVars, handed >>

PassFinal(j) ==
  /\ At(j, "final") /\ ~ held /\ verdict[job[j].email] = "ok"
  /\ Goto(j, "claim")
  /\ UNCHANGED << rowVars, envVars, quotaVars, pendVars, handed >>

ClaimQueuedOnly(j) ==
  LET e == job[j].email IN
  /\ At(j, "claim")
  /\ IF status[e] = "queued"
     THEN sentAt' = [sentAt EXCEPT ![e] = "fresh"] /\ Goto(j, "claimed")
     ELSE UNCHANGED sentAt /\ Goto(j, "done")
  /\ UNCHANGED << status, joined, schedule, rcpts, envVars, quotaVars, pendVars, handed >>

Claim(j) ==
  LET e == job[j].email IN
  /\ At(j, "claim")
  /\ IF Open(e)
     THEN sentAt' = [sentAt EXCEPT ![e] = "fresh"] /\ Goto(j, "claimed")
     ELSE UNCHANGED sentAt /\ Goto(j, "done")
  /\ UNCHANGED << status, joined, schedule, rcpts, envVars, quotaVars, pendVars, handed >>

-----------------------------------------------------------------------------
(* sendEmail, under the claim.                                              *)

(* A consent revoked or an account paused while the claim was awaited.      *)
GateClosed(j) ==
  /\ At(j, "claimed") /\ held
  /\ Goto(j, "refused")
  /\ UNCHANGED << rowVars, envVars, quotaVars, pendVars, handed >>

SesAccepts(j) ==
  /\ At(j, "claimed")
  /\ handed' = [handed EXCEPT ![job[j].email] = @ + 1]
  /\ Goto(j, "accepted")
  /\ UNCHANGED << rowVars, envVars, quotaVars, pendVars >>

SesAnswerLostReleases(j) ==
  /\ At(j, "claimed")
  /\ handed' = [handed EXCEPT ![job[j].email] = @ + 1]
  /\ ReleaseClaim(job[j].email)
  /\ job' = [job EXCEPT ![j] = FailedJob(j)]
  /\ UNCHANGED << status, joined, schedule, rcpts, envVars, quotaVars, pendVars >>

(* SES took the message and the answer was lost: the claim is kept and the  *)
(* attempt throws.  (Lost before SES took it is Interrupt.)                 *)
SesAnswerLost(j) ==
  /\ At(j, "claimed")
  /\ handed' = [handed EXCEPT ![job[j].email] = @ + 1]
  /\ job' = [job EXCEPT ![j] = FailedJob(j)]
  /\ UNCHANGED << rowVars, envVars, quotaVars, pendVars >>

(* An explicit refusal that may be retried: quota, rate or enforcement.     *)
SesRefuses(j) ==
  /\ At(j, "claimed")
  /\ Goto(j, "refused")
  /\ UNCHANGED << rowVars, envVars, quotaVars, pendVars, handed >>

(* TERMINAL_SES_ERRORS. *)
SesRejects(j) ==
  /\ At(j, "claimed")
  /\ FailQueuedEmail(job[j].email)
  /\ Goto(j, "done")
  /\ UNCHANGED << joined, schedule, rcpts, envVars, quotaVars, pendVars, handed >>

(* The claim goes back first; the park is a transaction of its own.  A rate *)
(* refusal throws instead, for the queue to retry.                          *)
Release(j) ==
  /\ At(j, "refused")
  /\ ReleaseClaim(job[j].email)
  /\ \/ Goto(j, "parking")
     \/ job' = [job EXCEPT ![j] = FailedJob(j)]
  /\ UNCHANGED << status, joined, schedule, rcpts, envVars, quotaVars, pendVars, handed >>

ParkReleased(j) ==
  /\ At(j, "parking")
  /\ ParkQueued(job[j].email)
  /\ Goto(j, "done")
  /\ UNCHANGED << sentAt, joined, schedule, rcpts, envVars, pendVars, handed >>

RecordMessageId(j) ==
  /\ At(j, "accepted")
  /\ joined' = [joined EXCEPT ![job[j].email] = TRUE]
  /\ Goto(j, "recorded")
  /\ UNCHANGED << status, sentAt, schedule, rcpts, envVars, quotaVars, pendVars, handed >>

RecordSent(j) ==
  /\ At(j, "recorded")
  /\ ApplyStatusCas(job[j].email, "sent")
  /\ Goto(j, "done")
  /\ UNCHANGED << sentAt, joined, schedule, rcpts, envVars, quotaVars, pendVars, handed >>

HandlerStep(j) ==
  \/ Skip(j) \/ Defer(j) \/ Load(j) \/ Park(j) \/ RefuseStopped(j)
  \/ RefuseSuppressed(j) \/ Strip(j) \/ FailUnsendable(j) \/ Build(j)
  \/ PassFinal(j) \/ Claim(j) \/ GateClosed(j) \/ SesAccepts(j)
  \/ SesAnswerLost(j) \/ SesRefuses(j) \/ SesRejects(j) \/ Release(j)
  \/ ParkReleased(j) \/ RecordMessageId(j) \/ RecordSent(j) \/ Ack(j)

DeadLetter(j) ==
  /\ job[j].st = "dead"
  /\ FailQueuedEmail(job[j].email)
  /\ job' = [job EXCEPT ![j] = NoJob]
  /\ UNCHANGED << joined, schedule, rcpts, envVars, quotaVars, pendVars, handed >>

-----------------------------------------------------------------------------
(* Accept, and what the customer may do to a scheduled email.               *)

Parked == {e \in Emails : status[e] = "queued_quota"}

(* Charged to the day it is to be delivered on. *)
Accept(e) ==
  /\ status[e] = "none"
  /\ \E n \in 1..MaxRcpts, when \in {"now", "later"}, day \in {today, today + 1} :
       /\ day \in Days
       /\ when = "now" => day = today
       /\ rcpts' = [rcpts EXCEPT ![e] = n]
       /\ schedule' = [schedule EXCEPT ![e] = when]
       /\ IF Room(day, n)
          THEN /\ SetStatus(e, "queued")
               /\ Charge(e, day, n)
               /\ owed' = [owed EXCEPT ![e] = TRUE]
          ELSE /\ Cardinality(Parked) < Backlog
               /\ SetStatus(e, "queued_quota")
               /\ UNCHANGED << quotaVars, owed >>
  /\ UNCHANGED << sentAt, joined, envVars, job, moved, handed >>

EnqueueAccepted(e) ==
  /\ owed[e]
  /\ owed' = [owed EXCEPT ![e] = FALSE]
  /\ job' = Enqueue(job, e)
  /\ UNCHANGED << rowVars, envVars, quotaVars, moved, handed >>

(* The process dies, or the queue is down, after the commit. *)
LoseEnqueue(e) ==
  /\ \/ owed[e] /\ owed' = [owed EXCEPT ![e] = FALSE] /\ UNCHANGED moved
     \/ moved[e] > 0 /\ moved' = [moved EXCEPT ![e] = 0] /\ UNCHANGED owed
  /\ UNCHANGED << rowVars, envVars, quotaVars, job, handed >>

Waiting(e) == status[e] \in {"queued", "queued_quota"}

UnclaimedOrNot(e) == Waiting(e)

Unclaimed(e) == Waiting(e) /\ sentAt[e] = "null"

(* A cancel hands nothing back to the quota. *)
Cancel(e) ==
  /\ Unclaimed(e) /\ schedule[e] # "now"
  /\ SetStatus(e, "canceled")
  /\ UNCHANGED << sentAt, joined, schedule, rcpts, envVars, quotaVars, job, pendVars, handed >>

Reschedule(e) ==
  /\ Unclaimed(e) /\ schedule[e] # "now"
  /\ schedule' = [schedule EXCEPT ![e] = "later"]
  /\ \/ status[e] = "queued" /\ job' = Enqueue(job, e)
     \/ UNCHANGED job
  /\ UNCHANGED << status, sentAt, joined, rcpts, envVars, quotaVars, pendVars, handed >>

-----------------------------------------------------------------------------
(* The operator and the customer's domain.                                  *)

CloseUnclaimed(s) ==
  status' = [e \in Emails |-> IF Unclaimed(e) THEN s ELSE status[e]]

FailQueuedEmailsForDomain ==
  /\ CloseUnclaimed("failed")
  /\ unsendable' = [e \in Emails |-> unsendable[e] \/ Waiting(e)]
  /\ UNCHANGED << sentAt, joined, schedule, rcpts, verdict, held, today,
                  quotaVars, job, pendVars, handed >>

CutTeamSendingAccess ==
  /\ \/ CloseUnclaimed("canceled")
     \/ UNCHANGED status
  /\ unsendable' = [e \in Emails |-> unsendable[e] \/ Waiting(e)]
  /\ held' = TRUE
  /\ UNCHANGED << sentAt, joined, schedule, rcpts, verdict, today,
                  quotaVars, job, pendVars, handed >>

-----------------------------------------------------------------------------
(* quota.drain and sends.reconcile.                                         *)

(* releaseParked: reservation and transition in one transaction. *)
DrainRelease(e) ==
  /\ status[e] = "queued_quota" /\ sentAt[e] = "null"
  /\ ~ held /\ moved[e] = 0
  /\ Room(today, rcpts[e])
  /\ SetStatus(e, "queued")
  /\ Charge(e, today, rcpts[e])
  /\ moved' = [moved EXCEPT ![e] = rcpts[e]]
  /\ UNCHANGED << sentAt, joined, schedule, rcpts, envVars, job, owed, handed >>

DrainEnqueue(e) ==
  /\ moved[e] > 0
  /\ moved' = [moved EXCEPT ![e] = 0]
  /\ job' = Enqueue(job, e)
  /\ UNCHANGED << rowVars, envVars, quotaVars, owed, handed >>

DrainEnqueueFailsRefundingAll(e) ==
  /\ moved[e] > 0
  /\ moved' = [moved EXCEPT ![e] = 0]
  /\ IF Open(e) THEN SetStatus(e, "queued_quota") ELSE UNCHANGED status
  /\ Refund(e, moved[e])
  /\ UNCHANGED << sentAt, joined, schedule, rcpts, envVars, job, owed, handed >>

(* The page's enqueue failed: the row is parked again, and its units go     *)
(* back only if no send lane had taken it meanwhile.                        *)
DrainEnqueueFails(e) ==
  /\ moved[e] > 0
  /\ moved' = [moved EXCEPT ![e] = 0]
  /\ ParkWithUnits(e, moved[e])
  /\ UNCHANGED << sentAt, joined, schedule, rcpts, envVars, job, owed, handed >>

Interrupted ==
  {e \in Emails : status[e] = "queued" /\ sentAt[e] = "stale" /\ ~ joined[e]}

ReconcileInterruptedReopens ==
  /\ Interrupted # {}
  /\ sentAt' = [e \in Emails |-> IF e \in Interrupted THEN "null" ELSE sentAt[e]]
  /\ UNCHANGED << status, joined, schedule, rcpts, envVars, quotaVars, job, pendVars, handed >>

(* A claim that never recorded a message id is failed, not given back.      *)
ReconcileInterrupted ==
  /\ Interrupted # {}
  /\ status' = [e \in Emails |-> IF e \in Interrupted THEN "failed" ELSE status[e]]
  /\ sentAt' = [e \in Emails |-> IF e \in Interrupted THEN "null" ELSE sentAt[e]]
  /\ UNCHANGED << joined, schedule, rcpts, envVars, quotaVars, job, pendVars, handed >>

ReconcileUnscheduled(e) ==
  /\ Open(e) /\ schedule[e] = "now"
  /\ job' = Enqueue(job, e)
  /\ UNCHANGED << rowVars, envVars, quotaVars, pendVars, handed >>

ReconcileRequeue(e) ==
  /\ Open(e) /\ schedule[e] # "later"
  /\ job' = Enqueue(job, e)
  /\ UNCHANGED << rowVars, envVars, quotaVars, pendVars, handed >>

-----------------------------------------------------------------------------
(* SES events: found by message id, or by the tag on a claimed row.         *)

ProviderEvent(e, s) ==
  /\ handed[e] > 0
  /\ joined[e] \/ sentAt[e] # "null"
  /\ joined' = [joined EXCEPT ![e] = TRUE]
  /\ ApplyStatusCas(e, s)
  /\ UNCHANGED << sentAt, schedule, rcpts, envVars, quotaVars, job, pendVars, handed >>

-----------------------------------------------------------------------------
(* What the rest of the system does to the inputs of a send.                *)

ToggleHold ==
  /\ held' = ~ held
  /\ UNCHANGED << rowVars, verdict, unsendable, today, quotaVars, job, pendVars, handed >>

(* Recipients are suppressed, or the row's broadcast is stopped (a          *)
(* broadcast row has one recipient).                                        *)
Ineligible(e, v) ==
  /\ Waiting(e) /\ verdict[e] = "ok"
  /\ v = "strip" => rcpts[e] > 1
  /\ v = "stopped" => rcpts[e] = 1
  /\ verdict' = [verdict EXCEPT ![e] = v]
  /\ UNCHANGED << rowVars, unsendable, held, today, quotaVars, job, pendVars, handed >>

BecomeUnsendable(e) ==
  /\ Waiting(e) /\ ~ unsendable[e]
  /\ unsendable' = [unsendable EXCEPT ![e] = TRUE]
  /\ UNCHANGED << rowVars, verdict, held, today, quotaVars, job, pendVars, handed >>

ClaimAges(e) ==
  /\ sentAt[e] = "fresh"
  /\ sentAt' = [sentAt EXCEPT ![e] = "stale"]
  /\ UNCHANGED << status, joined, schedule, rcpts, envVars, quotaVars, job, pendVars, handed >>

ComesDue(e) ==
  /\ Waiting(e) /\ schedule[e] = "later"
  /\ schedule' = [schedule EXCEPT ![e] = "due"]
  /\ UNCHANGED << status, sentAt, joined, rcpts, envVars, quotaVars, job, pendVars, handed >>

NextDay ==
  /\ today < LastDay
  /\ today' = today + 1
  /\ UNCHANGED << rowVars, verdict, unsendable, held, quotaVars, job, pendVars, handed >>

-----------------------------------------------------------------------------
Queue(j) == Fetch(j) \/ Interrupt(j) \/ Expire(j) \/ DeadLetter(j)

Customer(e) == Accept(e) \/ EnqueueAccepted(e) \/ LoseEnqueue(e) \/ Cancel(e) \/ Reschedule(e)

Operator == FailQueuedEmailsForDomain \/ CutTeamSendingAccess

Cron(e) ==
  DrainRelease(e) \/ DrainEnqueue(e) \/ DrainEnqueueFails(e) \/ ReconcileRequeue(e)

Environment(e) ==
  \/ \E v \in Refusals : Ineligible(e, v)
  \/ BecomeUnsendable(e) \/ ClaimAges(e) \/ ComesDue(e)
  \/ \E s \in Reports : ProviderEvent(e, s)

Next ==
  \/ \E j \in Jobs : HandlerStep(j) \/ Queue(j)
  \/ \E e \in Emails : Customer(e) \/ Cron(e) \/ Environment(e)
  \/ ReconcileInterrupted \/ Operator \/ ToggleHold \/ NextDay

Spec == Init /\ [][Next]_vars

(* The queue's workers and the crons keep running, time passes, and SES     *)
(* reports the messages it took.  The park that follows a released claim is *)
(* the next statement of the same attempt, while a rival needs a whole      *)
(* round of checks to claim the row in between: it is not outrun for ever.  *)
Fairness ==
  /\ \A j \in Jobs : /\ WF_vars(HandlerStep(j))
                      /\ WF_vars(Fetch(j))
                      /\ WF_vars(DeadLetter(j))
                      /\ SF_vars(ParkReleased(j) /\ Open(job[j].email))
  /\ \A e \in Emails : /\ WF_vars(ReconcileRequeue(e))
                        /\ WF_vars(DrainRelease(e))
                        /\ WF_vars(DrainEnqueue(e) \/ DrainEnqueueFails(e))
                        /\ WF_vars(ClaimAges(e))
                        /\ WF_vars(\E s \in Reports : ProviderEvent(e, s))
  /\ WF_vars(ReconcileInterrupted)

FairSpec == Spec /\ Fairness

-----------------------------------------------------------------------------
(* Properties.                                                              *)

(* Types.  Counters never go below zero, and a row is in the ladder.        *)
TypeOK ==
  /\ status \in [Emails -> Statuses \cup {"none"}]
  /\ sentAt \in [Emails -> {"null", "fresh", "stale"}]
  /\ joined \in [Emails -> BOOLEAN]
  /\ schedule \in [Emails -> {"now", "later", "due"}]
  /\ rcpts \in [Emails -> 0..MaxRcpts]
  /\ verdict \in [Emails -> {"ok", "strip", "refuse", "stopped"}]
  /\ unsendable \in [Emails -> BOOLEAN]
  /\ held \in BOOLEAN
  /\ job \in [Jobs -> JobRecords]
  /\ owed \in [Emails -> BOOLEAN]
  /\ moved \in [Emails -> 0..MaxRcpts]
  /\ usage \in [Days -> Nat]
  /\ chargedOn \in [Emails -> Days \cup {NotCharged}]
  /\ today \in Days
  /\ handed \in [Emails -> Nat]

(* The claim closes the double-send windows (send-email.ts:1126-1130):      *)
(* whatever duplicate jobs, retries, expiries, crashes and lost answers     *)
(* there are, SES takes the message of a row at most once.                  *)
AtMostOnce == \A e \in Emails : handed[e] <= 1

(* "Whichever update commits first, the other's WHERE no longer matches"    *)
(* (app.ts:4167-4168): SES never takes a message whose row was canceled,    *)
(* suppressed or parked by then.                                            *)
NoSendOnceWithdrawn ==
  [][\A e \in Emails : handed'[e] > handed[e] =>
       status[e] \notin {"canceled", "suppressed", "queued_quota"}]_vars

(* An SES event is matched by message id, or by tag while the row is        *)
(* claimed (process-provider-event.ts:124-159): a message SES took keeps    *)
(* its row findable until something fails the row.                          *)
AcceptedStaysFindable ==
  \A e \in Emails : handed[e] > 0 /\ status[e] # "failed" =>
    joined[e] \/ sentAt[e] # "null"

(* The attempts that hold the claim on a row. *)
Holds(j, e) ==
  /\ job[j].st \in {"active", "orphan"} /\ job[j].email = e
  /\ job[j].pc \in {"claimed", "refused", "accepted", "recorded"}

Unsent == {"none", "queued_quota", "queued", "canceled", "suppressed", "failed"}

Committed(e) ==
  /\ status[e] \notin {"none", "queued_quota", "canceled", "suppressed"}
  /\ status[e] = "queued" => sentAt[e] # "null"

(* What the claim of sent_at (send-email.ts:1126-1163) buys, and why the    *)
(* three properties above hold.  One attempt at a time holds it; the row    *)
(* under it is out of reach of every park, cancel and second claim, and     *)
(* stays so once SES took the message; and SES can take it only from the    *)
(* holder, which gives the claim back only if SES did not.                  *)
ClaimInv ==
  /\ \A j \in Jobs : job[j].st \in {"created", "retry"} => job[j].pc = "load"
  /\ \A j, k \in Jobs, e \in Emails : Holds(j, e) /\ Holds(k, e) => j = k
  /\ \A j \in Jobs, e \in Emails : Holds(j, e) =>
       /\ Committed(e)
       /\ handed[e] = IF job[j].pc \in {"claimed", "refused"} THEN 0 ELSE 1
       /\ job[j].pc = "recorded" => joined[e]
  /\ \A e \in Emails :
       /\ \/ handed[e] = 0 /\ status[e] \in Unsent
          \/ handed[e] = 1 /\ Committed(e)
       /\ handed[e] = 1 /\ status[e] # "failed" => joined[e] \/ sentAt[e] # "null"

(* "Out-of-order SES events can never regress" a row (emails.ts:20-22), and *)
(* no job, cron or cancel does either: a row only climbs the ladder, but    *)
(* for an unclaimed queued row that is parked.                              *)
StatusOnlyClimbs ==
  [][\A e \in Emails : status[e] # "none" /\ status'[e] # status[e] =>
       \/ Rank(status[e]) < Rank(status'[e])
       \/ status[e] = "queued" /\ status'[e] = "queued_quota" /\ sentAt[e] = "null"]_vars

Spent == {e \in Emails : status[e] = "queued" \/ handed[e] > 0}

(* "Refunding it here would credit the team for a send that happened"       *)
(* (cron.ts:465-466): the counters always hold the units of every row that  *)
(* is queued or that SES took, however parks, drains and failed enqueues    *)
(* interleave.                                                              *)
SentStaysCharged ==
  MapThenSumSet(LAMBDA e : rcpts[e], Spent) <= MapThenSumSet(LAMBDA d : usage[d], Days)

(* dailyCeiling is the "most a team may accept in one UTC day"              *)
(* (quota.ts:37): the rows charged to a day fit under it.                   *)
DayCeilingKept ==
  \A d \in Days :
    MapThenSumSet(LAMBDA e : rcpts[e], {e \in Emails : chargedOn[e] = d}) <= Ceiling

(* "A failed email can therefore never later be delivered" (emails.ts:26).  *)
FailedNeverSent ==
  [][\A e \in Emails : handed'[e] > handed[e] => status[e] # "failed"]_vars

(* "Rather than left queued forever" (cron.ts:668-671): a queued row that   *)
(* is due leaves queued, though enqueues are lost, workers die under their  *)
(* claim and answers never come.                                            *)
QueuedSettles ==
  \A e \in Emails : (status[e] = "queued" /\ schedule[e] # "later")
                       ~> (status[e] # "queued" \/ schedule[e] = "later")

(* Parked mail has handed its units back, so once nothing holds the team    *)
(* the drain finds room for it (send-email.ts:318-323).                     *)
ParkedDrains ==
  <>[](~ held) => \A e \in Emails : status[e] = "queued_quota" ~> status[e] # "queued_quota"
=============================================================================
