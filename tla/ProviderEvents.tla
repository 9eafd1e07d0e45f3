--------------------------- MODULE ProviderEvents ---------------------------
(***************************************************************************)
(* What SES reports of one email, from the topic to the customer: the      *)
(* at-least-once transport (apps/worker/src/sqs-poller.ts and the ses.     *)
(* event job), processProviderEvent (packages/core/src/process-provider-   *)
(* event.ts) and the deliveries it writes, which Webhooks drains.          *)
(*                                                                         *)
(* A message is named by its SNS MessageId; the row it writes for the      *)
(* endpoint bears the same name.  The email is one recipient's, and all    *)
(* messages match it; the climb of its status is in EmailSend.             *)
(***************************************************************************)
EXTENDS Webhooks

CONSTANTS
  Bounces,     \* the events that are permanent bounces; the others are deliveries
  Handlers,    \* ses.event jobs that may run at once
  Copies,      \* times the transport hands a message to the queue, in all
  Losses       \* ses.event jobs that die, in all

ASSUME ProviderEventsAssumption ==
  /\ Events \cap Tests = {}
  /\ Bounces \subseteq Events
  /\ Copies \in Nat
  /\ Losses \in Nat

VARIABLES
  queued,     \* messages with a ses.event job to run
  copies,
  losses,
  handler,    \* where each handler is
  message,    \* the message it works on
  fans,       \* its transaction read the endpoint as enabled
  recorded,   \* sns_message_id's of email_events
  delivered,  \* usage_counters.delivered
  bounced,    \* usage_counters.hard_bounced
  reason      \* of the recipient's suppression

eventVars == << queued, copies, losses, handler, message, fans, recorded, delivered,
                bounced, reason >>
vars == << hookVars, eventVars >>

None == 0

Init ==
  /\ HookInit
  /\ queued = {}
  /\ copies = 0
  /\ losses = 0
  /\ handler = [h \in Handlers |-> "off"]
  /\ message = [h \in Handlers |-> None]
  /\ fans = [h \in Handlers |-> FALSE]
  /\ recorded = {}
  /\ delivered = 0
  /\ bounced = 0
  /\ reason = "none"

-----------------------------------------------------------------------------
\* A copy of a message reaches the queue; a job still queued swallows it.
Publish(m) ==
  /\ copies < Copies
  /\ copies' = copies + 1
  /\ queued' = queued \cup {m}
  /\ UNCHANGED << hookVars, losses, handler, message, fans, recorded, delivered,
                  bounced, reason >>

StartEvent(h, m) ==
  /\ handler[h] = "off"
  /\ m \in queued
  /\ queued' = queued \ {m}
  /\ handler' = [handler EXCEPT ![h] = "gate"]
  /\ message' = [message EXCEPT ![h] = m]
  /\ UNCHANGED << hookVars, copies, losses, fans, recorded, delivered, bounced, reason >>

Done(h) ==
  /\ handler' = [handler EXCEPT ![h] = "off"]
  /\ message' = [message EXCEPT ![h] = None]
  /\ fans' = [fans EXCEPT ![h] = FALSE]

NeverGated(m) == FALSE
Gated(m) == m \in recorded

\* The transaction inserts the event, which waits for another's insert of the
\* same message, and reads the enabled endpoints.
PassGate(h) ==
  /\ handler[h] = "gate"
  /\ \A g \in Handlers : handler[g] = "commit" => message[g] # message[h]
  /\ IF Gated(message[h])
       THEN Done(h)
       ELSE /\ handler' = [handler EXCEPT ![h] = "commit"]
            /\ fans' = [fans EXCEPT ![h] = (endpoint = "enabled")]
            /\ UNCHANGED message
  /\ UNCHANGED << hookVars, queued, copies, losses, recorded, delivered, bounced,
                  reason >>

\* A bounce replaces an opt-out, and leaves any other reason as it is.
Suppressed(m) ==
  IF m \in Bounces /\ reason \in {"none", "one_click_unsubscribe"}
    THEN "hard_bounce" ELSE reason

\* Gate, counters, suppression and delivery rows commit together.
Commit(h) ==
  LET m == message[h]
  IN  /\ handler[h] = "commit"
      /\ recorded' = recorded \cup {m}
      /\ delivered' = IF m \in Bounces THEN delivered ELSE delivered + 1
      /\ bounced' = IF m \in Bounces THEN bounced + 1 ELSE bounced
      /\ reason' = Suppressed(m)
      /\ IF fans[h]
           THEN /\ Insert({m})
                /\ handler' = [handler EXCEPT ![h] = "enqueue"]
                /\ UNCHANGED << message, fans >>
           ELSE Done(h) /\ UNCHANGED << status, clock >>
      /\ UNCHANGED << endpoint, attempts, asked, old, armed, passVars, tester,
                      posts, spared, mishaps, switches, queued, copies, losses >>

\* The drain is armed after the commit; a failure to arm it is logged.
EnqueueDrain(h) ==
  /\ handler[h] = "enqueue"
  /\ Done(h)
  /\ armed' = TRUE
  /\ UNCHANGED << endpoint, rowVars, old, passVars, tester, posts, spared,
                  mishaps, switches, queued, copies, losses, recorded, delivered,
                  bounced, reason >>

\* The worker dies: what was not committed is undone, the job is retried.
EventCrash(h) ==
  /\ handler[h] # "off"
  /\ losses < Losses
  /\ losses' = losses + 1
  /\ Done(h)
  /\ queued' = queued \cup {message[h]}
  /\ UNCHANGED << hookVars, copies, recorded, delivered, bounced, reason >>

\* The one-click link: inserts an opt-out where no suppression stands.
Unsubscribe ==
  /\ reason = "none"
  /\ reason' = "one_click_unsubscribe"
  /\ UNCHANGED << hookVars, queued, copies, losses, handler, message, fans,
                  recorded, delivered, bounced >>

\* clearUnsubscribeSuppression, when the team subscribes the contact again.
Resubscribe ==
  /\ reason = "one_click_unsubscribe"
  /\ reason' = "none"
  /\ UNCHANGED << hookVars, queued, copies, losses, handler, message, fans, recorded,
                  delivered, bounced >>

-----------------------------------------------------------------------------
EventStep(h) ==
  \/ \E m \in Events : StartEvent(h, m)
  \/ PassGate(h) \/ Commit(h) \/ EnqueueDrain(h)

EventSurroundings ==
  \/ \E m \in Events : Publish(m)
  \/ \E h \in Handlers : EventCrash(h)
  \/ Unsubscribe \/ Resubscribe

Next ==
  \/ /\ \/ FetchDrain
        \/ \E p \in Passes : PassStep(p)
        \/ Reconcile
        \/ \E r \in Rows : Passing(r)
        \/ Surroundings
     /\ UNCHANGED eventVars
  \/ \E h \in Handlers : EventStep(h)
  \/ EventSurroundings

Spec == Init /\ [][Next]_vars

\* The fairness of the drain and the cron, and of the ses.event jobs.
FairSpec ==
  /\ Spec
  /\ WF_vars(FetchDrain /\ UNCHANGED eventVars)
  /\ \A p \in Passes : WF_vars(PassStep(p) /\ UNCHANGED eventVars)
  /\ WF_vars(Reconcile /\ UNCHANGED eventVars)
  /\ \A r \in Rows : WF_vars(Passing(r) /\ UNCHANGED eventVars)
  /\ \A h \in Handlers : WF_vars(EventStep(h))

-----------------------------------------------------------------------------
\* Every variable holds a value of its kind.
TypeOK ==
  /\ HookTypeOK
  /\ queued \subseteq Events
  /\ copies \in 0..Copies
  /\ losses \in 0..Losses
  /\ handler \in [Handlers -> {"off", "gate", "commit", "enqueue"}]
  /\ message \in [Handlers -> Events \cup {None}]
  /\ fans \in [Handlers -> BOOLEAN]
  /\ recorded \subseteq Events
  /\ delivered \in Nat
  /\ bounced \in Nat
  /\ reason \in {"none", "one_click_unsubscribe", "hard_bounce"}

\* However often the transport hands a message over, and wherever a handler
\* dies, its effects land once and together: the counters are those of the
\* events recorded, a delivery exists only for a recorded event, and a
\* recorded permanent bounce blocks the recipient whatever opt-outs and
\* re-subscriptions came before or after.
EffectsOnce ==
  /\ delivered = Cardinality(recorded \ Bounces)
  /\ bounced = Cardinality(recorded \cap Bounces)
  /\ \A m \in Events : status[m] # "absent" => m \in recorded
  /\ recorded \cap Bounces # {} => reason = "hard_bounce"

\* A message the transport handed over is recorded, and its delivery, where
\* one was written, is settled: posted or exhausted, through lost jobs, dead
\* passes, an endpoint switched off under its writer and no help from age.
EventsSettle ==
  \A m \in Events :
    m \in queued ~> m \in recorded /\ status[m] \in {"absent", "success", "exhausted"}

=============================================================================
