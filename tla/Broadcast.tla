------------------------------ MODULE Broadcast ------------------------------
(***************************************************************************)
(* One broadcast: its fan-out (apps/worker/src/handlers/send-broadcast.ts) *)
(* into rows of the emails table, the cancel that stops it (apps/api and   *)
(* apps/web, over cancelBroadcastRows of packages/core/src/                *)
(* broadcast-pacing.ts), the drain that releases what was paced, and the   *)
(* finalizeBroadcast all of them end in.                                   *)
(*                                                                         *)
(* Several walks of the fan-out may run at once: a job that expired, a     *)
(* retry, the stall reconcile.  Their pages are bounded by contact id, so  *)
(* the audience is 1..Contacts.  The send lane is here as its check, claim *)
(* and delivery of a row: EmailSend has it whole, and it has the quota,    *)
(* which here only decides, freely, whether a row is queued or parked.     *)
(***************************************************************************)
EXTENDS Integers

CONSTANTS
  Contacts,   \* size of the audience, contacts no check skips
  PageSize,   \* contacts per page of the walk
  Walks,      \* broadcast.send jobs that may run at once
  Mishaps     \* early ends of a walk, stray jobs and rows parked by a lane, in all

Audience == 1..Contacts

Canceler == "cancel"
Drainer == "drain"
Reconciler == "reconcile"

Actors == Walks \cup {Canceler, Drainer, Reconciler}

Points == {"off", "claim", "page", "write", "stopped", "probe", "finish", "drain",
           "pick parked", "flip parked", "pick queued", "flip queued", "answered"}

ASSUME BroadcastAssumption ==
  /\ Contacts \in Nat
  /\ PageSize \in Nat \ {0}
  /\ Mishaps \in Nat
  /\ {Canceler, Drainer, Reconciler} \cap Walks = {}

VARIABLES
  status,    \* of the broadcast
  cursor,    \* fan_out_cursor: contacts up to here have their rows
  counted,   \* recipient_count is set: a walk has ended
  row,       \* latest_status of each contact's row
  passed,    \* a lane job read the broadcast as not canceled for the row
  claimed,   \* sent_at of the row is set
  late,      \* history: rows written after the stop
  pc,        \* where each actor is
  at,        \* the walk's own cursor
  pos,       \* contacts of its page the walk has written
  picked,    \* rows the subselect of a sweep's update chose
  moving,    \* the sweep's round has moved something
  mishaps

vars == << status, cursor, counted, row, passed, claimed, late,
           pc, at, pos, picked, moving, mishaps >>

castVars == << status, cursor, counted >>
laneVars == << passed, claimed >>
walkVars == << at, pos >>
sweepVars == << picked, moving >>

Init ==
  /\ status = "scheduled"
  /\ cursor = 0
  /\ counted = FALSE
  /\ row = [c \in Audience |-> "absent"]
  /\ passed = [c \in Audience |-> FALSE]
  /\ claimed = [c \in Audience |-> FALSE]
  /\ late = {}
  /\ pc = [a \in Actors |-> "off"]
  /\ at = [w \in Walks |-> 0]
  /\ pos = [w \in Walks |-> 0]
  /\ picked = [a \in Actors |-> {}]
  /\ moving = [a \in Actors |-> FALSE]
  /\ mishaps = 0

Goto(a, p) == pc' = [pc EXCEPT ![a] = p]

Live == {"scheduled", "sending"}

-----------------------------------------------------------------------------
(* sendBroadcast.  A walk reads the broadcast, with its cursor, well before *)
(* the update that claims it.  Only a stray job loads a counted broadcast.  *)

LoadScheduled(w) ==
  /\ pc[w] = "off" /\ status = "scheduled"
  /\ at' = [at EXCEPT ![w] = cursor]
  /\ Goto(w, "claim")
  /\ UNCHANGED << castVars, row, laneVars, late, pos, sweepVars, mishaps >>

Load(w) ==
  /\ pc[w] = "off" /\ status \in Live
  /\ IF counted THEN mishaps < Mishaps /\ mishaps' = mishaps + 1 ELSE UNCHANGED mishaps
  /\ at' = [at EXCEPT ![w] = cursor]
  /\ Goto(w, "claim")
  /\ UNCHANGED << castVars, row, laneVars, late, pos, sweepVars >>

(* A walk that goes no further keeps nothing but what it has committed.     *)
Halt(w, p) ==
  /\ Goto(w, p)
  /\ at' = [at EXCEPT ![w] = 0]
  /\ pos' = [pos EXCEPT ![w] = 0]

ClaimWalk(w) ==
  /\ pc[w] = "claim"
  /\ IF status \in Live
     THEN status' = "sending" /\ Goto(w, "page") /\ UNCHANGED walkVars
     ELSE UNCHANGED status /\ Halt(w, "off")
  /\ UNCHANGED << cursor, counted, row, laneVars, late, sweepVars, mishaps >>

(* The heartbeat at the page's start keeps the cursor of the page before.   *)
CursorAhead(w) ==
  cursor' = IF at[w] + PageSize < Contacts THEN at[w] + PageSize ELSE Contacts

Heartbeat(w) == cursor' = at[w]

(* It also ends a walk whose broadcast was stopped or finished by its twin. *)
Page(w) ==
  /\ pc[w] = "page" /\ at[w] < Contacts
  /\ IF status = "sending"
     THEN Heartbeat(w) /\ pos' = [pos EXCEPT ![w] = at[w]] /\ Goto(w, "write") /\ UNCHANGED at
     ELSE UNCHANGED cursor /\ Halt(w, "stopped")
  /\ UNCHANGED << status, counted, row, laneVars, late, sweepVars, mishaps >>

(* One contact: insert, or nothing if the unique index has it.  Pacing or   *)
(* the reservation decides whether the row is queued or parked.             *)
WriteRow(w, s) ==
  LET c == pos[w] + 1 IN
  IF row[c] # "absent" THEN UNCHANGED << row, late >>
  ELSE /\ row' = [row EXCEPT ![c] = s]
       /\ late' = IF status = "canceled" THEN late \cup {c} ELSE late

Write(w) ==
  /\ pc[w] = "write"
  /\ \E s \in {"queued", "queued_quota"} : WriteRow(w, s)
  /\ LET next == pos[w] + 1 IN
     IF next \in {at[w] + PageSize, Contacts}
     THEN /\ at' = [at EXCEPT ![w] = next] /\ pos' = [pos EXCEPT ![w] = 0]
          /\ Goto(w, "page")
     ELSE UNCHANGED at /\ pos' = [pos EXCEPT ![w] = next] /\ Goto(w, "write")
  /\ UNCHANGED << castVars, laneVars, sweepVars, mishaps >>

(* The walk's end: the count, guarded by the status.                        *)
Count(w) ==
  /\ pc[w] = "page" /\ at[w] = Contacts
  /\ IF status = "sending"
     THEN counted' = TRUE /\ cursor' = 0 /\ Halt(w, "probe")
     ELSE UNCHANGED << counted, cursor >> /\ Halt(w, "stopped")
  /\ UNCHANGED << status, row, laneVars, late, sweepVars, mishaps >>

(* A hold, a shutdown, an abort or a crash: the job comes back later.       *)
Leave(w) ==
  /\ pc[w] # "off" /\ mishaps < Mishaps
  /\ mishaps' = mishaps + 1
  /\ Halt(w, "off")
  /\ picked' = [picked EXCEPT ![w] = {}]
  /\ moving' = [moving EXCEPT ![w] = FALSE]
  /\ UNCHANGED << castVars, row, laneVars, late >>

(* stopIfCanceled *)
Stopped(w) ==
  /\ pc[w] = "stopped"
  /\ Goto(w, IF status = "canceled" THEN "pick parked" ELSE "off")
  /\ UNCHANGED << castVars, row, laneVars, late, walkVars, sweepVars, mishaps >>

-----------------------------------------------------------------------------
(* finalizeBroadcast: a probe, then an update.                              *)

Waiting(c) == row[c] \in {"queued", "queued_quota"}

Probe(a) ==
  /\ pc[a] = "probe"
  /\ Goto(a, IF \E c \in Audience : Waiting(c) THEN "off" ELSE "finish")
  /\ UNCHANGED << castVars, row, laneVars, late, walkVars, sweepVars, mishaps >>

FinishUncounted(a) ==
  /\ pc[a] = "finish"
  /\ status' = IF status = "sending" THEN "sent" ELSE status
  /\ Goto(a, "off")
  /\ UNCHANGED << cursor, counted, row, laneVars, late, walkVars, sweepVars, mishaps >>

Finish(a) ==
  /\ pc[a] = "finish"
  /\ status' = IF status = "sending" /\ counted THEN "sent" ELSE status
  /\ Goto(a, "off")
  /\ UNCHANGED << cursor, counted, row, laneVars, late, walkVars, sweepVars, mishaps >>

-----------------------------------------------------------------------------
(* cancelBroadcastRows.  Each flip is "update ... where id in (select ...   *)
(* limit n)": the subselect's conditions are on the rows as its snapshot    *)
(* has them, and a row changed since is updated all the same.               *)

Cancel ==
  /\ pc[Canceler] = "off" /\ status \in Live
  /\ status' = "canceled"
  /\ Goto(Canceler, "pick parked")
  /\ UNCHANGED << cursor, counted, row, laneVars, late, walkVars, sweepVars, mishaps >>

Pick(a) ==
  /\ \/ /\ pc[a] = "pick parked"
        /\ picked' = [picked EXCEPT ![a] = {c \in Audience : row[c] = "queued_quota" /\ ~ claimed[c]}]
        /\ moving' = [moving EXCEPT ![a] = FALSE]
        /\ Goto(a, "flip parked")
     \/ /\ pc[a] = "pick queued"
        /\ picked' = [picked EXCEPT ![a] = {c \in Audience : row[c] = "queued" /\ ~ claimed[c]}]
        /\ UNCHANGED moving
        /\ Goto(a, "flip queued")
  /\ UNCHANGED << castVars, row, laneVars, late, walkVars, mishaps >>

(* The sweep ends once a whole round of both flips has moved nothing.       *)
Flip(a) ==
  /\ pc[a] \in {"flip parked", "flip queued"}
  /\ row' = [c \in Audience |-> IF c \in picked[a] THEN "canceled" ELSE row[c]]
  /\ moving' = [moving EXCEPT ![a] = @ \/ picked[a] # {}]
  /\ picked' = [picked EXCEPT ![a] = {}]
  /\ Goto(a, IF pc[a] = "flip parked" THEN "pick queued"
             ELSE IF moving[a] \/ picked[a] # {} THEN "pick parked"
             ELSE IF a = Canceler THEN "answered" ELSE "off")
  /\ UNCHANGED << castVars, laneVars, late, walkVars, mishaps >>

-----------------------------------------------------------------------------
(* quota.drain: the broadcasts with parked rows are listed once per run,    *)
(* and each one the run touched is finalized at its end.                    *)

DrainList ==
  /\ pc[Drainer] = "off" /\ status \in {"sending", "sent"}
  /\ \E c \in Audience : row[c] = "queued_quota"
  /\ Goto(Drainer, "drain")
  /\ UNCHANGED << castVars, row, laneVars, late, walkVars, sweepVars, mishaps >>

DrainRelease(c) ==
  /\ pc[Drainer] = "drain"
  /\ row[c] = "queued_quota" /\ ~ claimed[c]
  /\ row' = [row EXCEPT ![c] = "queued"]
  /\ UNCHANGED << castVars, laneVars, late, pc, walkVars, sweepVars, mishaps >>

DrainFinalize ==
  /\ pc[Drainer] = "drain"
  /\ Goto(Drainer, "probe")
  /\ UNCHANGED << castVars, row, laneVars, late, walkVars, sweepVars, mishaps >>

(* broadcasts.reconcile finalizes what a walk has counted.                  *)
ReconcileFinalize ==
  /\ pc[Reconciler] = "off" /\ status = "sending" /\ counted
  /\ Goto(Reconciler, "probe")
  /\ UNCHANGED << castVars, row, laneVars, late, walkVars, sweepVars, mishaps >>

-----------------------------------------------------------------------------
(* The send lane, on a row of this broadcast.                               *)

Open(c) == row[c] = "queued" /\ ~ claimed[c]

CheckNothing(c) ==
  /\ Open(c)
  /\ passed' = [passed EXCEPT ![c] = TRUE]
  /\ UNCHANGED << castVars, row, claimed, late, pc, walkVars, sweepVars, mishaps >>

(* checkSendEligibility, and refuse for the row of a canceled broadcast.    *)
Check(c) ==
  /\ Open(c)
  /\ IF status = "canceled"
     THEN /\ row' = [row EXCEPT ![c] = "canceled"]
          /\ UNCHANGED passed
     ELSE passed' = [passed EXCEPT ![c] = TRUE] /\ UNCHANGED row
  /\ UNCHANGED << castVars, claimed, late, pc, walkVars, sweepVars, mishaps >>

(* parkQueued, of any job of the row.                                       *)
Park(c) ==
  /\ Open(c) /\ mishaps < Mishaps
  /\ mishaps' = mishaps + 1
  /\ row' = [row EXCEPT ![c] = "queued_quota"]
  /\ UNCHANGED << castVars, laneVars, late, pc, walkVars, sweepVars >>

Claim(c) ==
  /\ passed[c]
  /\ passed' = [passed EXCEPT ![c] = FALSE]
  /\ claimed' = [claimed EXCEPT ![c] = @ \/ Open(c)]
  /\ UNCHANGED << castVars, row, late, pc, walkVars, sweepVars, mishaps >>

(* SES takes the message; applyStatusCas leaves a higher status alone.      *)
Deliver(c) ==
  /\ claimed[c] /\ row[c] = "queued"
  /\ row' = [row EXCEPT ![c] = "sent"]
  /\ UNCHANGED << castVars, laneVars, late, pc, walkVars, sweepVars, mishaps >>

-----------------------------------------------------------------------------
Walk(w) ==
  Load(w) \/ ClaimWalk(w) \/ Page(w) \/ Write(w) \/ Count(w) \/ Stopped(w)

Sweep(a) == Pick(a) \/ Flip(a)

Finalize(a) == Probe(a) \/ Finish(a)

Drain == DrainList \/ (\E c \in Audience : DrainRelease(c)) \/ DrainFinalize \/ ReconcileFinalize

Lane(c) == Check(c) \/ Claim(c) \/ Deliver(c)

Next ==
  \/ \E w \in Walks : Walk(w) \/ Leave(w)
  \/ \E a \in Actors : Sweep(a) \/ Finalize(a)
  \/ \E c \in Audience : Lane(c) \/ Park(c)
  \/ Cancel \/ Drain

Spec == Init /\ [][Next]_vars

(* broadcasts.reconcile kicks a walk only until one has been counted.       *)
Kicked(w) == ~ counted /\ Load(w)

(* Jobs are retried and reconciled, crons recur, lanes work.  A drain goes  *)
(* over every parked row of what it listed, and is run again: it wins a     *)
(* reservation for each in the end, for caps and SES windows roll over.     *)
Fairness ==
  /\ \A w \in Walks : WF_vars(Kicked(w) \/ (pc[w] # "off" /\ Walk(w)))
  /\ \A a \in Actors : WF_vars(Sweep(a) \/ Finalize(a))
  /\ \A c \in Audience : /\ WF_vars(Check(c) /\ ~ passed[c])
                          /\ WF_vars(Claim(c))
                          /\ WF_vars(Deliver(c))
                          /\ SF_vars(DrainRelease(c))
  /\ WF_vars(DrainList)
  /\ WF_vars(DrainFinalize)
  /\ WF_vars(ReconcileFinalize)

FairSpec == Spec /\ Fairness

-----------------------------------------------------------------------------
(* Types, and a broadcast is sent only when some walk was counted.          *)
TypeOK ==
  /\ status \in {"scheduled", "sending", "sent", "canceled"}
  /\ cursor \in 0..Contacts
  /\ counted \in BOOLEAN
  /\ status = "sent" => counted
  /\ row \in [Audience -> {"absent", "queued_quota", "queued", "sent", "canceled"}]
  /\ passed \in [Audience -> BOOLEAN]
  /\ claimed \in [Audience -> BOOLEAN]
  /\ late \subseteq Audience
  /\ pc \in [Actors -> Points]
  /\ at \in [Walks -> 0..Contacts]
  /\ pos \in [Walks -> 0..Contacts]
  /\ picked \in [Actors -> SUBSET Audience]
  /\ moving \in [Actors -> BOOLEAN]
  /\ mishaps \in 0..Mishaps

(* "A walk cut off mid-page resumes from the last committed page"           *)
(* (send-broadcast.ts:428-430): however walks overlap, crash and resume, no *)
(* contact is left without a row once a walk has been counted or the        *)
(* broadcast says sent.                                                     *)
NobodySkipped ==
  counted \/ status = "sent" => \A c \in Audience : row[c] # "absent"

(* "A row a racing page commits afterwards is refused at send time"         *)
(* (app.ts:3325-3328): nothing written after the stop is ever claimed, even *)
(* by way of a drain that listed the broadcast before it.                   *)
LateRowsRefused == \A c \in late : ~ claimed[c]

(* "Its broadcast stays sending only while parked rows drain, and finalize  *)
(* flips it once the last one has gone" (cron.ts:125-126).                  *)
SendingEnds == status = "sending" ~> status \in {"sent", "canceled"}
=============================================================================
