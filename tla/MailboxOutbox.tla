--------------------------- MODULE MailboxOutbox ---------------------------
(***************************************************************************)
(* The outbox of one Correio mailbox: rows that freeze one revision of one *)
(* draft, the mailbox.send handlers that hand them to a provider           *)
(* (sendMailboxOutbox of packages/core/src/mailbox-transport.ts and the    *)
(* senders of apps/worker/src), the reconcile cron, the dead-letter        *)
(* handler and the provider's evidence.  MailboxDrafts adds the drafts and *)
(* the clock that admit the rows.                                          *)
(*                                                                         *)
(* A row has one recipient.  What a sender may refuse or wait for -        *)
(* content, standing, domain, seat, the Azure window other lanes share -   *)
(* is a choice; what it has promised by then is not.                       *)
(***************************************************************************)
EXTENDS Integers, FiniteSets

CONSTANTS
  Drafts,
  MaxRevision,   \* bound: revisions of a draft
  Senders,       \* mailbox.send handlers
  MaxTries,      \* bound: claims of a row; the last one is not put off
  Allowance,     \* includedOutboundPerMailbox
  Mishaps        \* bound: handlers and clocks that throw or die

Rows == Drafts \X (1..MaxRevision)   \* mailbox_outbox_draft_revision_idx
None == << >>

ASSUME OutboxAssumption ==
  /\ MaxRevision \in Nat \ {0}
  /\ MaxTries \in Nat \ {0}
  /\ Allowance \in Nat
  /\ Mishaps \in Nat
  /\ IsFiniteSet(Drafts)

VARIABLES
  status,    \* of each row
  attempt,   \* attempt_id of each row: the number of the claim, 0 for null
  aged,      \* sending rows whose attempted_at is past the 15 minutes
  tries,     \* history: claims of each row
  fenced,    \* rows with a sending.mailbox_azure_claimed receipt
  charge,    \* probation units the row holds in the team's day counter
  taken,     \* provider: the claims of each row it accepted mail for
  waiting,   \* rows with a mailbox.send job in the queue
  dead,      \* rows with a job in the dead-letter queue
  at,        \* where each handler is
  job,       \* the row it works on
  mine,      \* the claim it made
  mishaps

rowVars == << status, attempt, aged, tries >>
ledgers == << fenced, charge >>
jobs == << waiting, dead >>
senderVars == << at, job, mine >>
laneVars == << rowVars, ledgers, taken, jobs, senderVars >>
outboxVars == << laneVars, mishaps >>

OutboxInit ==
  /\ status = [r \in Rows |-> "absent"]
  /\ attempt = [r \in Rows |-> 0]
  /\ aged = {}
  /\ tries = [r \in Rows |-> 0]
  /\ fenced = {}
  /\ charge = [r \in Rows |-> 0]
  /\ taken = [r \in Rows |-> {}]
  /\ waiting = {}
  /\ dead = {}
  /\ at = [s \in Senders |-> "off"]
  /\ job = [s \in Senders |-> None]
  /\ mine = [s \in Senders |-> 0]
  /\ mishaps = 0

-----------------------------------------------------------------------------
\* What the admission sums: an unknown send keeps its reservation.
Counted == { r \in Rows : status[r] \notin {"absent", "failed"} }
Undelivered == { r \in Rows : status[r] \in {"queued", "sending"} }
RoomFor(R) == Cardinality(R) < Allowance

\* A row that leaves "sending" is no longer asked how old its attempt is.
SetStatus(r, to) == status' = [status EXCEPT ![r] = to] /\ aged' = aged \ {r}
Keep == UNCHANGED << status, aged >>
Mishap == mishaps < Mishaps /\ mishaps' = mishaps + 1

Goto(s, place) == at' = [at EXCEPT ![s] = place]
MoveTo(s, place) == Goto(s, place) /\ UNCHANGED << job, mine >>
Leave(s) ==
  /\ Goto(s, "off")
  /\ job' = [job EXCEPT ![s] = None]
  /\ mine' = [mine EXCEPT ![s] = 0]

\* The row is still the one this handler claimed.
Holds(s) == attempt[job[s]] = mine[s]
Attempting(s) == Holds(s) /\ status[job[s]] = "sending"
CanWait(s) == tries[job[s]] < MaxTries

-----------------------------------------------------------------------------
(* Admission, whose checks of the draft are in MailboxDrafts. *)

\* The insert of queueAuthorizedMailboxDraft, inside the quota's lock.
Admit(r) ==
  /\ status[r] = "absent"
  /\ RoomFor(Counted)
  /\ SetStatus(r, "queued")
  /\ UNCHANGED << attempt, tries, ledgers, taken, mishaps, senderVars, dead >>

\* The caller's enqueue after the commit, or a run of the reconcile.
Enqueue(r) ==
  /\ waiting' = waiting \cup {r}
  /\ UNCHANGED << rowVars, ledgers, taken, dead, senderVars, mishaps >>

-----------------------------------------------------------------------------
(* One mailbox.send job. *)

\* The job's first read: a claimed row is left alone.
Fetch(s, r) ==
  /\ at[s] = "off"
  /\ r \in waiting
  /\ waiting' = waiting \ {r}
  /\ IF status[r] = "queued"
       THEN Goto(s, "prepare") /\ job' = [job EXCEPT ![s] = r] /\ UNCHANGED mine
       ELSE UNCHANGED senderVars
  /\ UNCHANGED << rowVars, ledgers, taken, dead, mishaps >>

\* The prepare transaction locks the row and claims it ...
Claim(s) ==
  LET r == job[s] IN
  /\ at[s] = "prepare"
  /\ status[r] = "queued"
  /\ tries[r] < MaxTries
  /\ SetStatus(r, "sending")
  /\ tries' = [tries EXCEPT ![r] = @ + 1]
  /\ attempt' = [attempt EXCEPT ![r] = tries[r] + 1]
  /\ mine' = [mine EXCEPT ![s] = tries[r] + 1]
  /\ Goto(s, "preflight")
  /\ UNCHANGED << job, ledgers, taken, jobs, mishaps >>

\* ... or finds it claimed by another job ...
TooLate(s) ==
  /\ at[s] = "prepare"
  /\ status[job[s]] # "queued"
  /\ Leave(s)
  /\ UNCHANGED << rowVars, ledgers, taken, jobs, mishaps >>

\* ... or is rolled back by a refusal, which a second statement records.
Refuse(s) ==
  /\ at[s] = "prepare"
  /\ status[job[s]] = "queued"
  /\ MoveTo(s, "refused")
  /\ UNCHANGED << rowVars, ledgers, taken, jobs, mishaps >>

\* Slip: the failure is recorded whatever the row has become.
FailAnyway(r) == SetStatus(r, "failed")

\* The update of a refusal and of the dead-letter handler.
FailIfQueued(r) ==
  IF status[r] = "queued" THEN SetStatus(r, "failed") ELSE Keep

RecordRefusal(s) ==
  /\ at[s] = "refused"
  /\ FailIfQueued(job[s])
  /\ Leave(s)
  /\ UNCHANGED << attempt, tries, ledgers, taken, jobs, mishaps >>

-----------------------------------------------------------------------------
(* sender.send: nothing has reached a provider before "smtp". *)

\* Content, standing and routing hold the mail, or withMailboxProbation
\* charges the day and a lane is entered.  The Azure lane reads the row and its
\* grants again before it reserves: a refusal there is nonacceptance too.
Preflight(s) ==
  /\ at[s] = "preflight"
  /\ \/ /\ CanWait(s)
        /\ MoveTo(s, "deferred")
        /\ UNCHANGED charge
     \/ /\ charge' = [charge EXCEPT ![job[s]] = @ + 1]
        /\ \/ MoveTo(s, "smtp")
           \/ Attempting(s) /\ MoveTo(s, "reserve")
           \/ (CanWait(s) \/ ~Attempting(s)) /\ MoveTo(s, "refund deferred")
  /\ UNCHANGED << rowVars, fenced, taken, jobs, mishaps >>

\* reserveMailboxAzureBudget: one receipt in a row's life.
Reserve(s) ==
  LET r == job[s] IN
  /\ at[s] = "reserve"
  /\ IF ~Attempting(s) \/ r \in aged \/ r \in fenced
       THEN MoveTo(s, "lost") /\ UNCHANGED fenced
       ELSE \/ CanWait(s) /\ MoveTo(s, "refund deferred") /\ UNCHANGED fenced
            \/ MoveTo(s, "reauthorize") /\ fenced' = fenced \cup {r}
  /\ UNCHANGED << rowVars, charge, taken, jobs, mishaps >>

\* Slip: a refusal after the receipt goes back to the queue.
ReauthorizeOrWait(s) ==
  /\ at[s] = "reauthorize"
  /\ \/ Attempting(s) /\ MoveTo(s, "smtp")
     \/ MoveTo(s, "refund deferred")
  /\ UNCHANGED << rowVars, ledgers, taken, jobs, mishaps >>

\* After the receipt a refusal proves nothing: it is an unknown attempt.
Reauthorize(s) ==
  /\ at[s] = "reauthorize"
  /\ \/ Attempting(s) /\ MoveTo(s, "smtp")
     \/ MoveTo(s, "lost")
  /\ UNCHANGED << rowVars, ledgers, taken, jobs, mishaps >>

\* The provider takes the mail, and its answer arrives or is lost ...
HandOver(s) ==
  /\ at[s] = "smtp"
  /\ taken' = [taken EXCEPT ![job[s]] = @ \cup {mine[s]}]
  /\ \E answer \in {"accepted", "lost"} : MoveTo(s, answer)
  /\ UNCHANGED << rowVars, ledgers, jobs, mishaps >>

\* ... or does not: a refusal, a wait outside the Azure lane, or silence.
NotTaken(s) ==
  /\ at[s] = "smtp"
  /\ \/ MoveTo(s, "refund rejected")
     \/ CanWait(s) /\ job[s] \notin fenced /\ MoveTo(s, "refund deferred")
     \/ MoveTo(s, "lost")
  /\ UNCHANGED << rowVars, ledgers, taken, jobs, mishaps >>

\* Slip: the unit is never given back.
KeepCharge(s) ==
  /\ \/ at[s] = "refund deferred" /\ MoveTo(s, "deferred")
     \/ at[s] = "refund rejected" /\ MoveTo(s, "rejected")
  /\ UNCHANGED << rowVars, ledgers, taken, jobs, mishaps >>

\* withMailboxProbation gives the unit back once nonacceptance is proven.
Refund(s) ==
  /\ \/ at[s] = "refund deferred" /\ MoveTo(s, "deferred")
     \/ at[s] = "refund rejected" /\ MoveTo(s, "rejected")
  /\ charge' = [charge EXCEPT ![job[s]] = @ - 1]
  /\ UNCHANGED << rowVars, fenced, taken, jobs, mishaps >>

-----------------------------------------------------------------------------
(* What sendMailboxOutbox does with the outcome. *)

\* Only this claim, and only while it is still sending.
Defer(s) ==
  LET r == job[s] IN
  /\ at[s] = "deferred"
  /\ IF Attempting(s)
       THEN /\ SetStatus(r, "queued")
            /\ attempt' = [attempt EXCEPT ![r] = 0]
            /\ MoveTo(s, "resend")
       ELSE Leave(s) /\ Keep /\ UNCHANGED attempt
  /\ UNCHANGED << tries, ledgers, taken, jobs, mishaps >>

\* The worker sends itself another job for a row still queued.
Resend(s) ==
  /\ at[s] = "resend"
  /\ waiting' = waiting \cup {job[s]}
  /\ Leave(s)
  /\ UNCHANGED << rowVars, ledgers, taken, dead, mishaps >>

Open(r, n) == attempt[r] = n /\ status[r] \in {"sending", "unknown"}
Settle(r, n, to) == IF Open(r, n) THEN SetStatus(r, to) ELSE Keep

\* Rejected, or anything else the sender threw.
Conclude(s) ==
  /\ \/ at[s] = "rejected" /\ Settle(job[s], mine[s], "failed")
     \/ at[s] = "lost" /\ Settle(job[s], mine[s], "unknown")
  /\ Leave(s)
  /\ UNCHANGED << attempt, tries, ledgers, taken, jobs, mishaps >>

\* acceptMailboxOutbox by the handler; its failure is an unknown outcome.
Accept(s) ==
  /\ at[s] = "accepted"
  /\ \/ Settle(job[s], mine[s], "accepted") /\ Leave(s)
     \/ MoveTo(s, "lost") /\ Keep
  /\ UNCHANGED << attempt, tries, ledgers, taken, jobs, mishaps >>

\* The provider's event names the claim it took.
Evidence(r, n) ==
  /\ n \in taken[r]
  /\ Open(r, n)
  /\ SetStatus(r, "accepted")
  /\ UNCHANGED << attempt, tries, ledgers, taken, jobs, senderVars, mishaps >>

-----------------------------------------------------------------------------
(* Faults, and what recovers from them. *)

\* The handler throws, dies or expires: its job is retried, or given up.
GiveUp(s) ==
  /\ at[s] # "off"
  /\ Mishap
  /\ \/ waiting' = waiting \cup {job[s]} /\ UNCHANGED dead
     \/ dead' = dead \cup {job[s]} /\ UNCHANGED waiting
  /\ Leave(s)
  /\ UNCHANGED << rowVars, ledgers, taken >>

\* failQueuedMailboxOutbox.
DeadLetter(r) ==
  /\ r \in dead
  /\ dead' = dead \ {r}
  /\ FailIfQueued(r)
  /\ UNCHANGED << attempt, tries, ledgers, taken, waiting, senderVars, mishaps >>

Ages(r) ==
  /\ status[r] = "sending"
  /\ r \notin aged
  /\ aged' = aged \cup {r}
  /\ UNCHANGED << status, attempt, tries, ledgers, taken, jobs, senderVars, mishaps >>

\* Slip: a claim with a receipt is left to the provider's events.
InterruptUnfenced(r) ==
  /\ status[r] = "sending"
  /\ r \in aged \ fenced
  /\ SetStatus(r, "unknown")
  /\ UNCHANGED << attempt, tries, ledgers, taken, jobs, senderVars, mishaps >>

\* Slip: an old claim goes back to the queue.
InterruptAndRetry(r) ==
  /\ status[r] = "sending"
  /\ r \in aged
  /\ SetStatus(r, "queued")
  /\ UNCHANGED << attempt, tries, ledgers, taken, jobs, senderVars, mishaps >>

\* reconcileMailboxOutbox ends old claims and enqueues what is queued.
Interrupt(r) ==
  /\ status[r] = "sending"
  /\ r \in aged
  /\ SetStatus(r, "unknown")
  /\ UNCHANGED << attempt, tries, ledgers, taken, jobs, senderVars, mishaps >>

Requeue(r) ==
  /\ status[r] = "queued"
  /\ r \notin waiting
  /\ Enqueue(r)

-----------------------------------------------------------------------------
SenderStep(s) ==
  \/ Claim(s) \/ TooLate(s) \/ Refuse(s) \/ RecordRefusal(s)
  \/ Preflight(s) \/ Reserve(s) \/ Reauthorize(s)
  \/ HandOver(s) \/ NotTaken(s) \/ Refund(s)
  \/ Defer(s) \/ Resend(s) \/ Conclude(s) \/ Accept(s)

FetchJob(r) == \E s \in Senders : Fetch(s, r)
Cron(r) == DeadLetter(r) \/ Interrupt(r) \/ Requeue(r)
RowStep(r) == FetchJob(r) \/ Cron(r) \/ Ages(r)

\* Everything but the admission.
Delivery ==
  \/ \E s \in Senders : SenderStep(s) \/ GiveUp(s)
  \/ \E r \in Rows : RowStep(r) \/ \E n \in 1..MaxTries : Evidence(r, n)

\* The admissions, and a mishap of the clock that makes them.
OutboxNext ==
  \/ Delivery
  \/ \E r \in Rows : \/ Admit(r) /\ waiting' \in {waiting, waiting \cup {r}}
                     \/ Enqueue(r)
  \/ Mishap /\ UNCHANGED laneVars

OutboxSpec == OutboxInit /\ [][OutboxNext]_outboxVars

\* Handlers run on; the queue, the crons and time see to each row.  Nothing is
\* owed by the provider's events.
DeliveryFairness ==
  /\ \A s \in Senders : WF_outboxVars(SenderStep(s))
  /\ \A r \in Rows : WF_outboxVars(RowStep(r))

-----------------------------------------------------------------------------
Places ==
  {"off", "prepare", "refused", "preflight", "reserve",
   "reauthorize", "smtp", "refund deferred", "refund rejected", "deferred",
   "rejected", "lost", "accepted", "resend"}

\* Every variable holds a value of its kind; a row owes the day's counter one
\* unit at most, however often it is tried (withMailboxProbation).
OutboxTypeOK ==
  /\ status \in [Rows -> {"absent", "queued", "sending", "accepted", "unknown", "failed"}]
  /\ attempt \in [Rows -> 0..MaxTries]
  /\ aged \subseteq Rows
  /\ tries \in [Rows -> 0..MaxTries]
  /\ fenced \subseteq Rows
  /\ charge \in [Rows -> 0..1]
  /\ taken \in [Rows -> SUBSET (1..MaxTries)]
  /\ waiting \subseteq Rows
  /\ dead \subseteq Rows
  /\ at \in [Senders -> Places]
  /\ job \in [Senders -> Rows \cup {None}]
  /\ mine \in [Senders -> 0..MaxTries]
  /\ mishaps \in 0..Mishaps

\* A row reaches a provider at most once in its life, and one that is queued
\* or failed never did: a retry, a late deferral, the reconcile and the
\* dead-letter handler only move rows nobody handed over.
HandedOnce ==
  \A r \in Rows :
    /\ \A m, n \in taken[r] : m = n
    /\ status[r] \in {"absent", "queued", "failed"} => taken[r] = {}

\* Mail a provider took stays charged to the day; a row back in the queue, or
\* failed, owes nothing; and one with an Azure receipt is never queued again
\* (reserveMailboxAzureBudget: "never refund", one lifetime attempt).
LedgersAgree ==
  \A r \in Rows :
    /\ taken[r] # {} => charge[r] = 1
    /\ status[r] \in {"absent", "queued", "failed"} => charge[r] = 0
    /\ status[r] \in {"absent", "queued"} => r \notin fenced

\* What providers took stays within the period's allowance, though failed rows
\* give their reservation back while jobs for them are still about.
AllowanceKept == Cardinality({ r \in Rows : taken[r] # {} }) <= Allowance

\* A row handed to the lane comes to an end, if only "unknown".
SendsResolve == \A r \in Rows : r \in Undelivered ~> r \notin Undelivered
=============================================================================
