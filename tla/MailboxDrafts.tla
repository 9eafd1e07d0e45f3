--------------------------- MODULE MailboxDrafts ---------------------------
(***************************************************************************)
(* The drafts of a Correio mailbox over its outbox: the editor             *)
(* (saveMailboxDraft, setMailboxItemTrash and the organization of          *)
(* mailbox-private-store.ts and mailbox-organization.ts), the send button  *)
(* (queueMailboxDraft) and the scheduled send with its clock               *)
(* (mailbox-scheduling.ts, handlers/mailbox-scheduling.ts).                *)
(*                                                                         *)
(* Requests carry the revision their screen shows; one that lost a race is *)
(* refused and changes nothing, so only winners are actions.  A run of the *)
(* clock that holds several drafts is several clocks here.                 *)
(***************************************************************************)
EXTENDS MailboxOutbox

CONSTANT Clocks   \* runs of mailbox.schedules, which may overlap

VARIABLES
  revision,
  trashed,
  schedule,   \* send_at of each draft: none, ahead, or due
  holder,     \* send_claimed_at: the clock whose claim it is
  lapsed,     \* drafts whose claim is older than MAILBOX_SEND_CLAIM_STALE_MS
  failure,    \* drafts that show a send_failure
  clock,      \* where each run is
  due         \* what it claimed: the draft and the revision it saw

NoOne == "none"
draftVars == << revision, trashed, schedule, holder, lapsed, failure >>
clockVars == << clock, due >>
vars == << outboxVars, draftVars, clockVars >>

Init ==
  /\ OutboxInit
  /\ revision = [d \in Drafts |-> 1]
  /\ trashed = {}
  /\ schedule \in [Drafts -> {"none", "ahead"}]
  /\ holder = [d \in Drafts |-> NoOne]
  /\ lapsed = {}
  /\ failure = {}
  /\ clock = [c \in Clocks |-> "off"]
  /\ due = [c \in Clocks |-> None]

-----------------------------------------------------------------------------
\* Rows of a draft that were not refused: what every editor looks for.
Live(d) == { r \in Rows : r[1] = d /\ status[r] \notin {"absent", "failed"} }

Bump(d) ==
  /\ revision[d] < MaxRevision
  /\ revision' = [revision EXCEPT ![d] = @ + 1]

\* The schedule of d leaves as `to`; its claim with it.
Reschedule(d, to) ==
  /\ schedule' = [schedule EXCEPT ![d] = to]
  /\ holder' = [holder EXCEPT ![d] = NoOne]
  /\ lapsed' = lapsed \ {d}

\* Slip: an editor that does not look at the outbox.
EditableUnlooked(d) == d \notin trashed

\* A save, a star or a folder: never on a draft already submitted.
Editable(d) == d \notin trashed /\ Live(d) = {}
EditDraft(d) ==
  /\ Editable(d)
  /\ Bump(d)
  /\ UNCHANGED << outboxVars, trashed, schedule, holder, lapsed, failure, clockVars >>

\* Either way, and the schedule stays until a clock sees it.
TrashDraft(d) ==
  /\ Live(d) = {}
  /\ Bump(d)
  /\ trashed' = IF d \in trashed THEN trashed \ {d} ELSE trashed \cup {d}
  /\ UNCHANGED << outboxVars, schedule, holder, lapsed, failure, clockVars >>

ScheduleSend(d) ==
  /\ d \notin trashed
  /\ Live(d) = {}
  /\ Bump(d)
  /\ Reschedule(d, "ahead")
  /\ failure' = failure \ {d}
  /\ UNCHANGED << outboxVars, trashed, clockVars >>

\* Asks nothing of the outbox.
CancelSchedule(d) ==
  /\ d \notin trashed
  /\ schedule[d] # "none" \/ d \in failure
  /\ Bump(d)
  /\ Reschedule(d, "none")
  /\ failure' = failure \ {d}
  /\ UNCHANGED << outboxVars, trashed, clockVars >>

-----------------------------------------------------------------------------
\* queueAuthorizedMailboxDraft past its lookup: the revision, the trash and,
\* in Admit, the allowance.
Admissible(r) == r[1] \notin trashed /\ revision[r[1]] = r[2]

\* The send button, and its enqueue unless that fails.
SendNow(d) ==
  LET r == << d, revision[d] >> IN
  /\ Admissible(r)
  /\ Admit(r)
  /\ waiting' \in {waiting, waiting \cup {r}}
  /\ UNCHANGED << draftVars, clockVars >>

-----------------------------------------------------------------------------
(* mailbox.schedules. *)

\* A trashed draft loses its schedule first.
DropTrashed(d) ==
  /\ schedule[d] # "none"
  /\ d \in trashed
  /\ Reschedule(d, "none")
  /\ UNCHANGED << outboxVars, revision, trashed, failure, clockVars >>

\* Slip: a claim left behind holds the draft for ever.
ClaimableOnce(d) == holder[d] = NoOne

Claimable(d) == holder[d] = NoOne \/ d \in lapsed

\* The list a run works off may be older than the trash.
ClaimDue(c, d) ==
  /\ clock[c] = "off"
  /\ schedule[d] = "due"
  /\ Claimable(d)
  /\ holder' = [holder EXCEPT ![d] = c]
  /\ lapsed' = lapsed \ {d}
  /\ due' = [due EXCEPT ![c] = << d, revision[d] >>]
  /\ clock' = [clock EXCEPT ![c] = "admit"]
  /\ UNCHANGED << outboxVars, revision, trashed, schedule, failure >>

ClockTo(c, place) == clock' = [clock EXCEPT ![c] = place] /\ UNCHANGED due
ClockEnds(c) ==
  /\ clock' = [clock EXCEPT ![c] = "off"]
  /\ due' = [due EXCEPT ![c] = None]

\* The row of that revision is there already: it is the answer.
AdmitAgain(c) ==
  /\ clock[c] = "admit"
  /\ status[due[c]] # "absent"
  /\ ClockTo(c, "complete")
  /\ UNCHANGED << outboxVars, draftVars >>

AdmitDue(c) ==
  /\ clock[c] = "admit"
  /\ Admissible(due[c])
  /\ Admit(due[c])
  /\ UNCHANGED waiting
  /\ ClockTo(c, "complete")
  /\ UNCHANGED draftVars

\* The draft moved on, or person, seat, plan, domain or allowance refuse it;
\* access is asked before the lookup, so a row already there does not help.
RefuseDue(c) ==
  /\ clock[c] = "admit"
  /\ ClockTo(c, "fail")
  /\ UNCHANGED << outboxVars, draftVars >>

Owns(c) == holder[due[c][1]] = c

\* completeMailboxSend and failMailboxSend: by the claim they made.
FinishDue(c) ==
  LET d == due[c][1] IN
  /\ clock[c] \in {"complete", "fail"}
  /\ IF Owns(c)
       THEN /\ Reschedule(d, "none")
            /\ failure' = IF clock[c] = "fail" THEN failure \cup {d} ELSE failure \ {d}
       ELSE UNCHANGED << schedule, holder, lapsed, failure >>
  /\ IF clock[c] = "fail" THEN ClockEnds(c)
                           ELSE ClockTo(c, "enqueue")
  /\ UNCHANGED << outboxVars, revision, trashed >>

EnqueueDue(c) ==
  /\ clock[c] = "enqueue"
  /\ Enqueue(due[c])
  /\ ClockEnds(c)
  /\ UNCHANGED draftVars

\* A passing problem, or the clock dies: the claim is left to lapse.
LetLapse(c) ==
  /\ clock[c] # "off"
  /\ Mishap
  /\ ClockEnds(c)
  /\ UNCHANGED << laneVars, draftVars >>

ComesDue(d) ==
  /\ schedule[d] = "ahead"
  /\ schedule' = [schedule EXCEPT ![d] = "due"]
  /\ UNCHANGED << outboxVars, revision, trashed, holder, lapsed, failure, clockVars >>

ClaimLapses(d) ==
  /\ holder[d] # NoOne
  /\ d \notin lapsed
  /\ lapsed' = lapsed \cup {d}
  /\ UNCHANGED << outboxVars, revision, trashed, schedule, holder, failure, clockVars >>

-----------------------------------------------------------------------------
ClockStep(c) ==
  AdmitAgain(c) \/ AdmitDue(c) \/ RefuseDue(c) \/ FinishDue(c) \/ EnqueueDue(c)

\* The clock looks at a draft, or time passes for it.
ClockLooks(d) ==
  DropTrashed(d) \/ ComesDue(d) \/ ClaimLapses(d) \/ \E c \in Clocks : ClaimDue(c, d)

Owner(d) ==
  EditDraft(d) \/ TrashDraft(d) \/ ScheduleSend(d) \/ CancelSchedule(d) \/ SendNow(d)

Next ==
  \/ Delivery /\ UNCHANGED << draftVars, clockVars >>
  \/ \E c \in Clocks : ClockStep(c) \/ LetLapse(c)
  \/ \E d \in Drafts : Owner(d) \/ ClockLooks(d)

Spec == Init /\ [][Next]_vars

FairSpec ==
  /\ Spec
  /\ DeliveryFairness
  /\ \A c \in Clocks : WF_vars(ClockStep(c))
  /\ \A d \in Drafts : WF_vars(ClockLooks(d))

-----------------------------------------------------------------------------
\* Every variable holds a value of its kind.
TypeOK ==
  /\ OutboxTypeOK
  /\ revision \in [Drafts -> 1..MaxRevision]
  /\ trashed \subseteq Drafts
  /\ schedule \in [Drafts -> {"none", "ahead", "due"}]
  /\ holder \in [Drafts -> Clocks \cup {NoOne}]
  /\ lapsed \subseteq { d \in Drafts : holder[d] # NoOne }
  /\ failure \subseteq Drafts
  /\ clock \in [Clocks -> {"off", "admit", "complete", "fail", "enqueue"}]
  /\ due \in [Clocks -> Rows \cup {None}]

\* A schedule never sends a draft twice: whatever the clock claimed, took over
\* from a run that died, or holds while the draft is edited, trashed, canceled
\* or sent by hand, the revision it would admit is never one more of a draft
\* that has a row at work (queueAuthorizedMailboxDraft looks only for a row of
\* the same revision).
ScheduleSendsOnce ==
  \A c \in Clocks :
    /\ clock[c] = "admit"
    /\ status[due[c]] = "absent"
    /\ Admissible(due[c])
    => Live(due[c][1]) = {}

\* A due schedule is admitted, refused with a reason, or dropped.
SchedulesResolve == \A d \in Drafts : schedule[d] = "due" ~> schedule[d] # "due"
=============================================================================
