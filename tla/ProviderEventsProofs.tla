------------------------ MODULE ProviderEventsProofs ------------------------
(***************************************************************************)
(* ProviderEvents: its type invariant, that what it does to the deliveries *)
(* is a behaviour of Webhooks, and EffectsOnce, for any number of          *)
(* messages, copies, handlers and losses.                                  *)
(***************************************************************************)
EXTENDS ProviderEvents, WebhooksProofs, FiniteSetTheorems

\* A handler past the gate holds the message alone, and has yet to record it.
GateInv ==
  \A h \in Handlers : handler[h] = "commit" =>
    /\ message[h] \in Events \ recorded
    /\ \A g \in Handlers \ {h} : handler[g] = "commit" => message[g] # message[h]

EventTypes ==
  /\ queued \subseteq Events
  /\ handler \in [Handlers -> {"off", "gate", "commit", "enqueue"}]
  /\ message \in [Handlers -> Events \cup {None}]
  /\ \A h \in Handlers : handler[h] # "off" => message[h] \in Events
  /\ recorded \subseteq Events
  /\ IsFiniteSet(recorded)
  /\ reason \in {"none", "one_click_unsubscribe", "hard_bounce"}

EventInv == HookInv /\ EventTypes /\ GateInv /\ EffectsOnce

\* The drain, the cron, time, the owner and the console.
HookPart ==
  \/ FetchDrain
  \/ \E p \in Passes : PassStep(p)
  \/ Reconcile
  \/ \E r \in Rows : Passing(r)
  \/ Surroundings

-----------------------------------------------------------------------------
\* Only a writer writes: what was absent stays absent.
LEMMA AbsentStays ==
  ASSUME HookInv, HookPart, NEW m \in Events, status[m] = "absent"
  PROVE  status'[m] = "absent"
<1>0. HookTypeOK /\ AbsentInv  BY DEF HookInv
<1>1. m \in Rows /\ Passes \subseteq Sweeps /\ Reconciler \in Sweeps  BY DEF Rows, Sweeps
<1>2. /\ \A p \in Passes : work[p][m] = "none"
      /\ \A a \in Sweeps : m \notin picked[a]
      /\ tester[m] = "idle"
  BY <1>0, <1>1 DEF AbsentInv
<1>3. ASSUME NEW p \in Passes, PassStep(p) PROVE status'[m] = "absent"
  <2>1. CASE Settle(p)
    BY <1>1, <1>2, <2>1 DEF Settle, ExhaustPicked, On
  <2>2. ASSUME NEW r \in Rows, TakeRow(p, r) PROVE status'[m] = "absent"
    <3>1. r # m  BY <1>2, <2>2 DEF TakeRow
    <3> QED BY <3>1, <2>2, <1>0, <1>1 DEF TakeRow, HookTypeOK
  <2>3. ASSUME NEW r \in Rows, NEW ok \in BOOLEAN, Answered(p, r, ok)
        PROVE  status'[m] = "absent"
    <3>1. r # m  BY <1>2, <2>3 DEF Answered
    <3> QED BY <3>1, <2>3, <1>0, <1>1 DEF Answered, HookTypeOK
  <2> QED
    BY <1>3, <2>1, <2>2, <2>3 DEF PassStep, Retry, ClaimDue, CheckEndpoint, EndPage,
      Finish, PostRow, JudgeEndpoint, TripBreaker, rowVars
<1>4. CASE Reconcile
  BY <1>1, <1>2, <1>4 DEF Reconcile, ReconcilePick, ReconcileArm, ExhaustPicked, On, rowVars
<1>5. CASE Surroundings
  <2>1. ASSUME NEW t \in Tests, StartTest(t) PROVE status'[m] = "absent"
    <3>1. t # m  BY ProviderEventsAssumption
    <3> QED BY <3>1, <1>1, <2>1 DEF StartTest, Insert, On
  <2>2. ASSUME NEW t \in Tests, NEW ok \in BOOLEAN, EndTest(t, ok)
        PROVE  status'[m] = "absent"
    <3>1. t # m  BY ProviderEventsAssumption
    <3> QED BY <3>1, <1>0, <1>1, <2>2 DEF EndTest, HookTypeOK
  <2> QED
    BY <1>5, <2>1, <2>2 DEF Surroundings, Crash, RunOut, Throttled, Ages, SwitchEndpoint,
      rowVars
<1> QED
  BY <1>3, <1>4, <1>5 DEF HookPart, FetchDrain, Fetch, Passing, LeaseLapses, ComesDue,
    rowVars

LEMMA HookPartIsHookNext == HookPart => HookNext
BY DEF HookPart, HookNext

LEMMA NextIsHookNext == ASSUME EventInv, [Next]_vars PROVE [HookNext]_hookVars
<1>1. CASE HookPart /\ UNCHANGED eventVars  BY <1>1, HookPartIsHookNext
<1>2. ASSUME NEW h \in Handlers, EventStep(h) PROVE [HookNext]_hookVars
  <2>1. ASSUME NEW m \in Events, StartEvent(h, m) PROVE [HookNext]_hookVars
    BY <2>1 DEF StartEvent
  <2>2. CASE PassGate(h)  BY <2>2 DEF PassGate
  <2>3. CASE Commit(h)
    <3>1. message[h] \in Events \ recorded
      BY <2>3 DEF Commit, EventInv, GateInv
    <3>2. status[message[h]] = "absent"
      BY <3>1 DEF EventInv, EffectsOnce
    <3>3. CASE fans[h]
      <4>1. Emit(message[h])
        BY <2>3, <3>1, <3>2, <3>3 DEF Commit, Emit
      <4>2. message[h] \in Rows  BY <3>1 DEF Rows
      <4> QED BY <4>1, <4>2 DEF HookNext
    <3>4. CASE ~fans[h]
      BY <2>3, <3>4 DEF Commit, hookVars, passVars
    <3> QED BY <3>3, <3>4
  <2>4. CASE EnqueueDrain(h)
    <3>1. CASE armed = TRUE
      BY <2>4, <3>1 DEF EnqueueDrain, hookVars, passVars, rowVars
    <3>2. CASE ~armed
      BY <2>4, <3>2 DEF EnqueueDrain, Arm, HookNext
    <3>3. armed \in BOOLEAN  BY DEF EventInv, HookInv, HookTypeOK
    <3> QED BY <3>1, <3>2, <3>3
  <2> QED BY <1>2, <2>1, <2>2, <2>3, <2>4 DEF EventStep
<1>3. CASE EventSurroundings
  BY <1>3 DEF EventSurroundings, Publish, EventCrash, Unsubscribe, Resubscribe
<1>4. CASE UNCHANGED vars  BY <1>4 DEF vars, hookVars
<1> QED BY <1>1, <1>2, <1>3, <1>4 DEF Next, HookPart

-----------------------------------------------------------------------------
LEMMA RecordOne ==
  ASSUME IsFiniteSet(recorded), NEW m, m \notin recorded
  PROVE  /\ IsFiniteSet(recorded \cup {m})
         /\ m \in Bounces =>
              /\ (recorded \cup {m}) \ Bounces = recorded \ Bounces
              /\ Cardinality((recorded \cup {m}) \cap Bounces)
                   = Cardinality(recorded \cap Bounces) + 1
         /\ m \notin Bounces =>
              /\ (recorded \cup {m}) \cap Bounces = recorded \cap Bounces
              /\ Cardinality((recorded \cup {m}) \ Bounces)
                   = Cardinality(recorded \ Bounces) + 1
<1>1. IsFiniteSet(recorded \cup {m})  BY FS_AddElement
<1>2. IsFiniteSet(recorded \cap Bounces) /\ IsFiniteSet(recorded \ Bounces)
  BY FS_Subset
<1>3. CASE m \in Bounces
  <2>1. (recorded \cup {m}) \cap Bounces = (recorded \cap Bounces) \cup {m}  BY <1>3
  <2>2. m \notin recorded \cap Bounces  OBVIOUS
  <2> QED BY <1>1, <1>2, <1>3, <2>1, <2>2, FS_AddElement
<1>4. CASE m \notin Bounces
  <2>1. (recorded \cup {m}) \ Bounces = (recorded \ Bounces) \cup {m}  BY <1>4
  <2>2. m \notin recorded \ Bounces  OBVIOUS
  <2> QED BY <1>1, <1>2, <1>4, <2>1, <2>2, FS_AddElement
<1> QED BY <1>3, <1>4

LEMMA CommitStep == ASSUME EventInv, NEW h \in Handlers, Commit(h)
                    PROVE  EventTypes' /\ GateInv' /\ EffectsOnce'
<1> DEFINE m == message[h]
<1>0. EventTypes /\ GateInv /\ EffectsOnce  BY DEF EventInv
<1>1. handler[h] = "commit" /\ m \in Events \ recorded
  BY <1>0 DEF Commit, GateInv
<1>2. recorded' = recorded \cup {m}  BY DEF Commit
<1>3. /\ handler' = [handler EXCEPT ![h] = handler'[h]]
      /\ handler'[h] \in {"off", "enqueue"}
      /\ \A g \in Handlers \ {h} : message'[g] = message[g]
      /\ message' \in [Handlers -> Events \cup {None}]
      /\ handler'[h] = "enqueue" => message'[h] = m
      /\ queued' = queued
  BY <1>0 DEF Commit, Done, EventTypes
<1>4. EventTypes'
  <2>1. reason' \in {"none", "one_click_unsubscribe", "hard_bounce"}
    BY <1>0 DEF Commit, Suppressed, EventTypes
  <2>2. recorded' \subseteq Events /\ IsFiniteSet(recorded')
    BY <1>0, <1>1, <1>2, RecordOne DEF EventTypes
  <2>3. /\ queued' \subseteq Events
        /\ handler' \in [Handlers -> {"off", "gate", "commit", "enqueue"}]
        /\ \A g \in Handlers : handler'[g] # "off" => message'[g] \in Events
    BY <1>0, <1>1, <1>3 DEF EventTypes
  <2> QED BY <1>3, <2>1, <2>2, <2>3 DEF EventTypes
<1>5. GateInv'
  BY <1>0, <1>1, <1>2, <1>3 DEF GateInv, EventTypes
<1>6. EffectsOnce'
  <2>1. \A x \in Events : status'[x] # "absent" => status[x] # "absent" \/ x = m
    BY DEF Commit, Insert, On, Rows
  <2>2. CASE m \in Bounces
    <3>1. delivered' = delivered /\ bounced' = bounced + 1  BY <2>2 DEF Commit
    <3>2. reason' = "hard_bounce"
      <4>1. reason \in {"none", "one_click_unsubscribe", "hard_bounce"}
        BY DEF EventInv, EventTypes
      <4> QED BY <4>1, <2>2 DEF Commit, Suppressed
    <3> QED BY <1>0, <1>1, <1>2, <2>1, <2>2, <3>1, <3>2, RecordOne DEF EffectsOnce, EventTypes
  <2>3. CASE m \notin Bounces
    <3>1. delivered' = delivered + 1 /\ bounced' = bounced /\ reason' = reason
      BY <2>3 DEF Commit, Suppressed
    <3> QED BY <1>0, <1>1, <1>2, <2>1, <2>3, <3>1, RecordOne DEF EffectsOnce, EventTypes
  <2> QED BY <2>2, <2>3
<1> QED BY <1>4, <1>5, <1>6

LEMMA EventStepInv == ASSUME EventInv, [Next]_vars PROVE EventInv'
<1>0. HookInv /\ EventTypes /\ GateInv /\ EffectsOnce  BY DEF EventInv
<1>1. HookInv'  BY <1>0, NextIsHookNext, HookNextInv
<1>2. ASSUME UNCHANGED eventVars, \A m \in Events : status[m] = "absent" => status'[m] = "absent"
      PROVE  EventTypes' /\ GateInv' /\ EffectsOnce'
  BY <1>0, <1>2 DEF eventVars, EventTypes, GateInv, EffectsOnce
<1>3. CASE HookPart /\ UNCHANGED eventVars  BY <1>0, <1>1, <1>2, <1>3, AbsentStays DEF EventInv
<1>4. CASE UNCHANGED vars  BY <1>1, <1>2, <1>4 DEF vars, hookVars, EventInv
<1>5. ASSUME NEW h \in Handlers, EventStep(h) PROVE EventTypes' /\ GateInv' /\ EffectsOnce'
  <2>1. ASSUME NEW m \in Events, StartEvent(h, m) PROVE EventTypes' /\ GateInv' /\ EffectsOnce'
    BY <1>0, <2>1 DEF StartEvent, hookVars, EventTypes, GateInv, EffectsOnce
  <2>2. CASE PassGate(h)
    <3>1. EventTypes'  BY <1>0, <2>2 DEF PassGate, Done, EventTypes
    <3>2. GateInv'  BY <1>0, <2>2 DEF PassGate, Gated, Done, EventTypes, GateInv
    <3>3. EffectsOnce'  BY <1>0, <2>2 DEF PassGate, hookVars, EffectsOnce
    <3> QED BY <3>1, <3>2, <3>3
  <2>3. CASE Commit(h)  BY <2>3, CommitStep
  <2>4. CASE EnqueueDrain(h)
    BY <1>0, <2>4 DEF EnqueueDrain, Done, rowVars, EventTypes, GateInv, EffectsOnce
  <2> QED BY <1>5, <2>1, <2>2, <2>3, <2>4 DEF EventStep
<1>6. CASE EventSurroundings
  <2>1. ASSUME NEW m \in Events, Publish(m) PROVE EventTypes' /\ GateInv' /\ EffectsOnce'
    BY <1>0, <2>1 DEF Publish, hookVars, EventTypes, GateInv, EffectsOnce
  <2>2. ASSUME NEW h \in Handlers, EventCrash(h) PROVE EventTypes' /\ GateInv' /\ EffectsOnce'
    BY <1>0, <2>2 DEF EventCrash, Done, hookVars, EventTypes, GateInv, EffectsOnce
  <2>3. ASSUME Unsubscribe \/ Resubscribe PROVE EventTypes' /\ GateInv' /\ EffectsOnce'
    <3>1. reason # "hard_bounce" /\ reason' \in {"none", "one_click_unsubscribe"}
      BY <2>3 DEF Unsubscribe, Resubscribe
    <3>2. UNCHANGED << queued, handler, message, recorded, delivered, bounced, status >>
      BY <2>3 DEF Unsubscribe, Resubscribe, hookVars
    <3> QED BY <1>0, <3>1, <3>2 DEF EventTypes, GateInv, EffectsOnce
  <2> QED BY <1>1, <1>6, <2>1, <2>2, <2>3 DEF EventSurroundings, EventInv
<1> QED BY <1>1, <1>3, <1>4, <1>5, <1>6 DEF Next, HookPart, EventInv

LEMMA EventInitInv == ASSUME Init PROVE EventInv
<1>1. HookInv  BY HookInitInv DEF Init
<1>2. EventTypes /\ GateInv  BY FS_EmptySet DEF Init, EventTypes, GateInv
<1>3. EffectsOnce
  BY FS_EmptySet, ProviderEventsAssumption DEF Init, HookInit, EffectsOnce, Rows
<1> QED BY <1>1, <1>2, <1>3 DEF EventInv

\* Whatever the transport and the handlers do to a delivery, the drain's
\* component would have let its writer do: HookSpec is implemented, and what
\* holds of Webhooks holds of the composition.
THEOREM EventsDriveHooks == Spec => HookSpec
<1>1. Init => HookInit  BY DEF Init
<1>2. EventInv /\ [Next]_vars => [HookNext]_hookVars  BY NextIsHookNext
<1> QED BY <1>1, <1>2, EventInitInv, EventStepInv, PTL DEF Spec, HookSpec

\* EffectsOnce is an invariant: an event's counters, suppression and delivery
\* land once and together, however often SNS and SQS deliver it and wherever
\* its handler dies.
THEOREM EffectsLandOnce == Spec => []EffectsOnce
<1>1. EventInv => EffectsOnce  BY DEF EventInv
<1> QED BY <1>1, EventInitInv, EventStepInv, PTL DEF Spec

-----------------------------------------------------------------------------
\* What TypeOK says beyond EventInv: the bounded counters and the handlers'
\* copies of the endpoint's status.
CounterTypes ==
  /\ copies \in 0..Copies
  /\ losses \in 0..Losses
  /\ fans \in [Handlers -> BOOLEAN]

LEMMA CounterStep == ASSUME CounterTypes, [Next]_vars PROVE CounterTypes'
<1>1. copies' = copies \/ (copies < Copies /\ copies' = copies + 1)
  <2>1. ASSUME NEW h \in Handlers, EventStep(h) PROVE copies' = copies
    BY <2>1 DEF EventStep, StartEvent, PassGate, Commit, EnqueueDrain
  <2>2. CASE EventSurroundings
    BY <2>2 DEF EventSurroundings, Publish, EventCrash, Unsubscribe, Resubscribe
  <2> QED BY <2>1, <2>2 DEF Next, eventVars, vars
<1>2. losses' = losses \/ (losses < Losses /\ losses' = losses + 1)
  <2>1. ASSUME NEW h \in Handlers, EventStep(h) PROVE losses' = losses
    BY <2>1 DEF EventStep, StartEvent, PassGate, Commit, EnqueueDrain
  <2>2. CASE EventSurroundings
    BY <2>2 DEF EventSurroundings, Publish, EventCrash, Unsubscribe, Resubscribe
  <2> QED BY <2>1, <2>2 DEF Next, eventVars, vars
<1>3. UNCHANGED fans \/ \E h \in Handlers, enabled \in BOOLEAN : fans' = [fans EXCEPT ![h] = enabled]
  <2>1. ASSUME NEW h \in Handlers, EventStep(h)
        PROVE  UNCHANGED fans \/ \E enabled \in BOOLEAN : fans' = [fans EXCEPT ![h] = enabled]
    BY <2>1 DEF EventStep, StartEvent, PassGate, Commit, EnqueueDrain, Done
  <2>2. CASE EventSurroundings
    BY <2>2 DEF EventSurroundings, Publish, EventCrash, Unsubscribe, Resubscribe, Done
  <2> QED BY <2>1, <2>2 DEF Next, eventVars, vars
<1>4. fans' \in [Handlers -> BOOLEAN]  BY <1>3 DEF CounterTypes
<1> QED BY <1>1, <1>2, <1>4, ProviderEventsAssumption DEF CounterTypes

\* Every variable keeps its kind: at most Copies copies are handed over, and
\* the two usage counters are natural numbers because they count events.
THEOREM EventTypeCorrect == Spec => []TypeOK
<1>1. Init => CounterTypes  BY ProviderEventsAssumption DEF Init, CounterTypes
<1>2. EventInv /\ CounterTypes => TypeOK
  <2> SUFFICES ASSUME EventInv, CounterTypes PROVE TypeOK
    OBVIOUS
  <2>1. HookTypeOK /\ EventTypes /\ EffectsOnce  BY DEF EventInv, HookInv
  <2>2. IsFiniteSet(recorded \ Bounces) /\ IsFiniteSet(recorded \cap Bounces)
    BY <2>1, FS_Subset DEF EventTypes
  <2>3. delivered \in Nat /\ bounced \in Nat
    BY <2>1, <2>2, FS_CardinalityType DEF EffectsOnce
  <2> QED BY <2>1, <2>3 DEF EventTypes, CounterTypes, TypeOK
<1> QED BY <1>1, <1>2, CounterStep, EventInitInv, EventStepInv, PTL DEF Spec

\* What holds of Webhooks holds of the composition: every post is charged, ...
THEOREM EventPostsCharged == Spec => []PostsAreCharged
<1> QED BY EventsDriveHooks, EveryPostCharged, PTL

\* ... what the receiver took is not posted again, ...
THEOREM EventNeverPostedTwice == Spec => NoPostAfterSuccess
<1> QED BY EventsDriveHooks, NeverPostedTwice, PTL

\* ... and the breaker trips on failures alone.
THEOREM EventBreakerTrips == Spec => TripsOnFailures
<1> QED BY EventsDriveHooks, BreakerTripsOnFailures, PTL
=============================================================================
