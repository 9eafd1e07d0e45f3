------------------------------ MODULE Webhooks ------------------------------
(***************************************************************************)
(* The deliveries of one webhook endpoint: the drain that posts them       *)
(* (apps/worker/src/handlers/deliver-webhook.ts), the sweep that backs it  *)
(* (reconcileWebhookDeliveries of handlers/cron.ts), the endpoint's owner  *)
(* and the test delivery of the console (apps/web/src/server/routers/      *)
(* webhooks.ts).  ProviderEvents adds the writers of the rows.             *)
(*                                                                         *)
(* A row's clock is next_attempt_at, kept to what a statement can tell:    *)
(* null, due, ahead because of a backoff, or ahead because a pass leased   *)
(* it.  Passes may overlap in any order, which covers the two lanes and    *)
(* the expired job the code names.                                         *)
(***************************************************************************)
EXTENDS Integers, FiniteSets

CONSTANTS
  Events,        \* deliveries an event may write, and
  Tests,         \* the console's test button: numbers, in creation order
  Passes,        \* webhook.drain jobs that may run at once
  MaxAttempts,   \* WEBHOOK_MAX_ATTEMPTS
  DisableAfter,  \* WEBHOOK_AUTO_DISABLE_AFTER
  Mishaps,       \* crashes, lost jobs, passes out of time and 429s, in all
  Switches       \* times the owner turns the endpoint on or off

Rows == Events \cup Tests
Reconciler == "reconcile"
Sweeps == Passes \cup {Reconciler}

ASSUME WebhooksAssumption ==
  /\ Events \subseteq Nat /\ IsFiniteSet(Events)
  /\ Tests \subseteq Nat /\ IsFiniteSet(Tests)
  /\ MaxAttempts \in Nat \ {0, 1}
  /\ DisableAfter \in Nat \ {0}
  /\ Mishaps \in Nat
  /\ Switches \in Nat
  /\ Reconciler \notin Passes

VARIABLES
  endpoint,   \* status of the endpoint
  status,     \* of each delivery row
  attempts,
  clock,      \* next_attempt_at of each row
  asked,      \* last_response_code is 429
  old,        \* rows past WEBHOOK_MAX_AGE_MS
  armed,      \* a webhook.drain job waits in the queue
  pc,         \* where each pass is, and the reconcile
  work,       \* what a pass is doing with each row of its page
  seen,       \* attempts of the rows as the pass claimed them
  stop,       \* why a pass ends early
  picked,     \* rows the subselect of exhaustOpenDeliveries chose
  tester,     \* the request behind each test delivery
  posts,      \* history: posts of each row by a pass
  spared,     \* history: posts that ended without charging an attempt
  mishaps,
  switches

rowVars == << status, attempts, clock, asked >>
passVars == << pc, work, seen, stop, picked >>
hookVars == << endpoint, status, attempts, clock, asked, old, armed, pc, work,
               seen, stop, picked, tester, posts, spared, mishaps, switches >>

HookInit ==
  /\ endpoint = "enabled"
  /\ status = [r \in Rows |-> "absent"]
  /\ attempts = [r \in Rows |-> 0]
  /\ clock = [r \in Rows |-> "none"]
  /\ asked = [r \in Rows |-> FALSE]
  /\ old = {}
  /\ armed = FALSE
  /\ pc = [a \in Sweeps |-> "off"]
  /\ work = [p \in Passes |-> [r \in Rows |-> "none"]]
  /\ seen = [p \in Passes |-> [r \in Rows |-> 0]]
  /\ stop = [p \in Passes |-> "none"]
  /\ picked = [a \in Sweeps |-> {}]
  /\ tester = [r \in Rows |-> "idle"]
  /\ posts = [r \in Rows |-> 0]
  /\ spared = [r \in Rows |-> 0]
  /\ mishaps = 0
  /\ switches = 0

-----------------------------------------------------------------------------
Open == { r \in Rows : status[r] \in {"pending", "failed"} }
Waiting == { r \in Open : clock[r] # "none" }
DueOrLeased == { r \in Open : clock[r] \in {"due", "leased"} }
Due == { r \in Open : clock[r] = "due" }
Settled == { r \in Rows : status[r] \in {"success", "exhausted"} }

Mishap == mishaps < Mishaps /\ mishaps' = mishaps + 1

\* The values `on` has for the rows of R, those `f` has for the others.
On(R, f, value) == [r \in Rows |-> IF r \in R THEN value ELSE f[r]]

\* A row is written, due at once.
Insert(R) ==
  /\ status' = On(R, status, "pending")
  /\ clock' = On(R, clock, "due")

\* The update of exhaustOpenDeliveries: by id, whatever became of the rows
\* since its subselect chose them.
ExhaustPicked(a) ==
  /\ status' = On(picked[a], status, "exhausted")
  /\ clock' = On(picked[a], clock, "none")
  /\ picked' = [picked EXCEPT ![a] = {}]

Goto(a, place) == pc' = [pc EXCEPT ![a] = place]
Doing(p, r, what) == work' = [work EXCEPT ![p][r] = what]

-----------------------------------------------------------------------------
(* A pass of drainWebhookEndpoint. *)

LoadAndReturn(p) ==
  /\ Goto(p, IF endpoint = "enabled" THEN "claim" ELSE "off")
  /\ UNCHANGED picked

\* Reads the endpoint: off, the rows still open are to be settled.
LoadEndpoint(p) ==
  IF endpoint = "enabled"
    THEN Goto(p, "claim") /\ UNCHANGED picked
    ELSE Goto(p, "settle") /\ picked' = [picked EXCEPT ![p] = Waiting]

\* The queue hands out the armed job, and a failed or expired one again.  Its
\* fetch and the read it begins with are one step.
Fetch(p) ==
  /\ pc[p] = "off"
  /\ armed
  /\ armed' = FALSE
  /\ LoadEndpoint(p)
  /\ UNCHANGED << endpoint, seen, rowVars, old, work, stop, tester, posts,
                  spared, mishaps, switches >>

Retry(p) ==
  /\ pc[p] = "retry"
  /\ LoadEndpoint(p)
  /\ UNCHANGED << endpoint, seen, rowVars, old, armed, work, stop, tester, posts,
                  spared, mishaps, switches >>

\* The endpoint was off: its backlog is exhausted unposted.
Settle(p) ==
  /\ pc[p] = "settle"
  /\ ExhaustPicked(p)
  /\ Goto(p, "off")
  /\ UNCHANGED << endpoint, seen, attempts, asked, old, armed, work, stop, tester,
                  posts, spared, mishaps, switches >>

\* One statement leases the due rows no other statement has locked.
ClaimDue(p) ==
  /\ pc[p] = "claim"
  /\ clock' = On(Due, clock, "leased")
  /\ work' = [work EXCEPT ![p] = On(Due, @, "held")]
  /\ seen' = [seen EXCEPT ![p] = attempts]
  /\ Goto(p, IF Due = {} THEN "finish" ELSE "check")
  /\ UNCHANGED << endpoint, status, attempts, asked, old, armed, stop, picked,
                  tester, posts, spared, mishaps, switches >>

\* The pass has no row in hand.
Forget(p) ==
  /\ work' = [work EXCEPT ![p] = [r \in Rows |-> "none"]]
  /\ seen' = [seen EXCEPT ![p] = [r \in Rows |-> 0]]

HeldBy(p) == { r \in Rows : work[p][r] \in {"held", "back"} }

\* Hands rows back by id, due again at `at`.
Release(p, at) ==
  /\ clock' = On(HeldBy(p), clock, at)
  /\ Forget(p)

\* The status is read again once per page, after the claim.
CheckEndpoint(p) ==
  /\ pc[p] = "check"
  /\ IF endpoint = "enabled"
       THEN Goto(p, "post") /\ UNCHANGED << clock, work, seen >>
       ELSE Goto(p, "finish") /\ Release(p, "due")
  /\ UNCHANGED << endpoint, status, attempts, asked, old, armed, stop, picked,
                  tester, posts, spared, mishaps, switches >>

\* DRAIN_BUDGET_MS is spent, or the queue is shutting down.
RunOut(p) ==
  /\ Mishap
  /\ \/ pc[p] = "claim" /\ Goto(p, "finish") /\ UNCHANGED stop
     \/ /\ pc[p] = "post" /\ stop[p] = "none"
        /\ stop' = [stop EXCEPT ![p] = "budget"]
        /\ UNCHANGED pc
  /\ UNCHANGED << endpoint, seen, rowVars, old, armed, work, picked, tester, posts,
                  spared, switches >>

\* A worker of the pass takes a row; one too old is exhausted unposted.
TakeRow(p, r) ==
  /\ pc[p] = "post"
  /\ work[p][r] = "held"
  /\ stop[p] = "none"
  /\ IF r \in old
       THEN /\ status' = [status EXCEPT ![r] = "exhausted"]
            /\ clock' = [clock EXCEPT ![r] = "none"]
            /\ Doing(p, r, "none")
       ELSE Doing(p, r, "taken") /\ UNCHANGED << status, clock >>
  /\ UNCHANGED << endpoint, seen, attempts, asked, old, armed, pc, stop, picked,
                  tester, posts, spared, mishaps, switches >>

\* After its turn at the token bucket the worker posts, unless the pass ended.
PostRow(p, r) ==
  /\ work[p][r] = "taken"
  /\ IF stop[p] = "none"
       THEN Doing(p, r, "posted") /\ posts' = [posts EXCEPT ![r] = @ + 1]
       ELSE Doing(p, r, "back") /\ UNCHANGED posts
  /\ UNCHANGED << endpoint, seen, rowVars, old, armed, pc, stop, picked, tester,
                  spared, mishaps, switches >>

\* 429: the receiver asks for room.  No attempt is charged and the pass ends.
Throttled(p, r) ==
  /\ work[p][r] = "posted"
  /\ Mishap
  /\ clock' = [clock EXCEPT ![r] = "ahead"]
  /\ asked' = [asked EXCEPT ![r] = TRUE]
  /\ stop' = [stop EXCEPT ![p] = IF @ = "disabled" THEN @ ELSE "throttled"]
  /\ spared' = [spared EXCEPT ![r] = @ + 1]
  /\ Doing(p, r, "none")
  /\ UNCHANGED << endpoint, seen, status, attempts, old, armed, pc, picked, tester,
                  posts, switches >>

SpentLate(n) == n > MaxAttempts
Spent(n) == n >= MaxAttempts

\* Any other answer, or none: the row is updated by id, unconditionally.
Answered(p, r, ok) ==
  LET spent == ~ok /\ Spent(seen[p][r] + 1)
  IN  /\ work[p][r] = "posted"
      /\ attempts' = [attempts EXCEPT ![r] = seen[p][r] + 1]
      /\ asked' = [asked EXCEPT ![r] = FALSE]
      /\ status' = [status EXCEPT ![r] =
                      IF ok THEN "success" ELSE IF spent THEN "exhausted" ELSE "failed"]
      /\ clock' = [clock EXCEPT ![r] = IF ok \/ spent THEN "none" ELSE "ahead"]
      /\ Doing(p, r, IF spent THEN "judge" ELSE "none")
      /\ UNCHANGED << endpoint, seen, old, armed, pc, stop, picked, tester, posts,
                      spared, mishaps, switches >>

CountedAll == Settled

\* COUNTED_SETTLED_SQL: rows that say something about the receiver.
Counted == { r \in Settled : \/ status[r] = "success"
                             \/ Spent(attempts[r])
                             \/ asked[r] }

\* The last DisableAfter of them, by creation.
Recent == { r \in Counted :
              Cardinality({ q \in Counted : q > r }) < DisableAfter }

\* autoDisableIfDead, its read ...
JudgeEndpoint(p, r) ==
  /\ work[p][r] = "judge"
  /\ Doing(p, r, IF /\ Cardinality(Recent) = DisableAfter
                    /\ \A q \in Recent : status[q] = "exhausted"
                 THEN "trip" ELSE "none")
  /\ UNCHANGED << endpoint, seen, rowVars, old, armed, pc, stop, picked, tester,
                  posts, spared, mishaps, switches >>

\* ... and its update.
TripBreaker(p, r) ==
  /\ work[p][r] = "trip"
  /\ Doing(p, r, "none")
  /\ IF endpoint = "enabled"
       THEN endpoint' = "auto_disabled" /\ stop' = [stop EXCEPT ![p] = "disabled"]
       ELSE UNCHANGED << endpoint, stop >>
  /\ UNCHANGED << seen, rowVars, old, armed, pc, picked, tester, posts, spared,
                  mishaps, switches >>

\* Every worker of the page has returned.
EndPage(p) ==
  /\ pc[p] = "post"
  /\ \A r \in Rows : work[p][r] \in {"none", "held", "back"}
  /\ \/ /\ stop[p] = "none"
        /\ HeldBy(p) = {}
        /\ Goto(p, "claim")
        /\ Forget(p)
        /\ UNCHANGED clock
     \/ /\ stop[p] # "none"
        /\ Release(p, IF stop[p] = "throttled" THEN "ahead" ELSE "due")
        /\ Goto(p, "finish")
  /\ UNCHANGED << endpoint, status, attempts, asked, old, armed, stop, picked,
                  tester, posts, spared, mishaps, switches >>

\* Re-arms for the next due instant, if a row is open; a queued job stays.
Finish(p) ==
  /\ pc[p] = "finish"
  /\ armed' = (armed \/ stop[p] = "throttled" \/ Waiting # {})
  /\ stop' = [stop EXCEPT ![p] = "none"]
  /\ Goto(p, "off")
  /\ UNCHANGED << endpoint, seen, rowVars, old, work, picked, tester, posts, spared,
                  mishaps, switches >>

\* The worker dies or a statement throws: the job is retried or dead-lettered.
Crash(p) ==
  /\ pc[p] \notin {"off", "retry"}
  /\ Mishap
  /\ \E next \in {"retry", "off"} : Goto(p, next)
  /\ Forget(p)
  /\ stop' = [stop EXCEPT ![p] = "none"]
  /\ seen' = [seen EXCEPT ![p] = [r \in Rows |-> 0]]
  /\ picked' = [picked EXCEPT ![p] = {}]
  /\ spared' = [r \in Rows |->
                  IF work[p][r] = "posted" THEN spared[r] + 1 ELSE spared[r]]
  /\ UNCHANGED << endpoint, rowVars, old, armed, tester, posts, switches >>

-----------------------------------------------------------------------------
(* Time. *)

LeaseLapsesEarly(r) ==
  /\ clock[r] = "leased"
  /\ clock' = [clock EXCEPT ![r] = "due"]
  /\ UNCHANGED << endpoint, status, attempts, asked, old, armed, passVars,
                  tester, posts, spared, mishaps, switches >>

\* LEASE_MS outlasts a pass: DRAIN_BUDGET_MS and one post.
LeaseLapses(r) ==
  /\ clock[r] = "leased"
  /\ \A p \in Passes : work[p][r] = "none"
  /\ clock' = [clock EXCEPT ![r] = "due"]
  /\ UNCHANGED << endpoint, status, attempts, asked, old, armed, passVars,
                  tester, posts, spared, mishaps, switches >>

ComesDue(r) ==
  /\ clock[r] = "ahead"
  /\ clock' = [clock EXCEPT ![r] = "due"]
  /\ UNCHANGED << endpoint, status, attempts, asked, old, armed, passVars,
                  tester, posts, spared, mishaps, switches >>

Ages(r) ==
  /\ r \notin old
  /\ r \in Open
  /\ old' = old \cup {r}
  /\ UNCHANGED << endpoint, rowVars, armed, passVars, tester, posts, spared,
                  mishaps, switches >>

-----------------------------------------------------------------------------
(* reconcileWebhookDeliveries: exhausts what is a day old, then arms the    *)
(* drain if a row has been due for a while.  The update and the probe after *)
(* it are one step.                                                         *)

ReconcilePick ==
  /\ pc[Reconciler] = "off"
  /\ Waiting # {}
  /\ picked' = [picked EXCEPT ![Reconciler] = Waiting \cap old]
  /\ Goto(Reconciler, "settle")
  /\ UNCHANGED << endpoint, seen, rowVars, old, armed, work, stop, tester, posts,
                  spared, mishaps, switches >>

ArmsNothing == armed
Arms == armed \/ Due \ picked[Reconciler] # {}

ReconcileArm ==
  /\ pc[Reconciler] = "settle"
  /\ ExhaustPicked(Reconciler)
  /\ armed' = Arms
  /\ Goto(Reconciler, "off")
  /\ UNCHANGED << endpoint, seen, attempts, asked, old, work, stop, tester,
                  posts, spared, mishaps, switches >>

-----------------------------------------------------------------------------
(* The writers of rows, and the owner. *)

\* A transaction that read the endpoint as enabled commits its row, whatever
\* has become of the endpoint since ...
Emit(r) ==
  /\ r \in Events
  /\ status[r] = "absent"
  /\ Insert({r})
  /\ UNCHANGED << endpoint, attempts, asked, old, armed, passVars, tester, posts,
                  spared, mishaps, switches >>

\* ... and drainWebhookEndpoints arms the drain, if nothing fails between.
Arm ==
  /\ ~armed
  /\ armed' = TRUE
  /\ UNCHANGED << endpoint, rowVars, old, passVars, tester, posts, spared,
                  mishaps, switches >>

SwitchEndpoint(to) ==
  /\ switches < Switches
  /\ endpoint # to
  /\ endpoint' = to
  /\ switches' = switches + 1
  /\ UNCHANGED << rowVars, old, armed, passVars, tester, posts, spared, mishaps >>

\* testDelivery writes a due row, whatever the endpoint's status ...
StartTest(t) ==
  /\ status[t] = "absent"
  /\ tester' = [tester EXCEPT ![t] = "written"]
  /\ Insert({t})
  /\ UNCHANGED << endpoint, attempts, asked, old, armed, passVars, posts,
                  spared, mishaps, switches >>

\* ... posts it itself, and settles it by id: a failure keeps no clock.
EndTest(t, ok) ==
  /\ tester[t] = "written"
  /\ tester' = [tester EXCEPT ![t] = "done"]
  /\ status' = [status EXCEPT ![t] = IF ok THEN "success" ELSE "failed"]
  /\ attempts' = [attempts EXCEPT ![t] = 1]
  /\ clock' = [clock EXCEPT ![t] = "none"]
  /\ asked' = [asked EXCEPT ![t] = FALSE]
  /\ UNCHANGED << endpoint, old, armed, passVars, posts, spared, mishaps, switches >>

-----------------------------------------------------------------------------
PassStep(p) ==
  \/ Retry(p) \/ Settle(p) \/ ClaimDue(p) \/ CheckEndpoint(p)
  \/ EndPage(p) \/ Finish(p)
  \/ \E r \in Rows : \/ TakeRow(p, r) \/ PostRow(p, r) \/ JudgeEndpoint(p, r)
                     \/ TripBreaker(p, r)
                     \/ \E ok \in BOOLEAN : Answered(p, r, ok)

FetchDrain == \E p \in Passes : Fetch(p)
Reconcile == ReconcilePick \/ ReconcileArm
Passing(r) == LeaseLapses(r) \/ ComesDue(r)

\* Faults, time enough for a row to age, the owner and the console.
Surroundings ==
  \/ \E p \in Passes : Crash(p) \/ RunOut(p) \/ \E r \in Rows : Throttled(p, r)
  \/ \E r \in Rows : Ages(r)
  \/ \E to \in {"enabled", "disabled"} : SwitchEndpoint(to)
  \/ \E t \in Tests : StartTest(t) \/ \E ok \in BOOLEAN : EndTest(t, ok)

HookNext ==
  \/ FetchDrain
  \/ \E p \in Passes : PassStep(p)
  \/ Reconcile
  \/ \E r \in Rows : Passing(r) \/ Emit(r)
  \/ Arm
  \/ Surroundings

HookSpec == HookInit /\ [][HookNext]_hookVars

\* Jobs run on, the cron comes round, leases and backoffs end.  Writers and
\* their arming, faults, the owner and the test's request owe nothing.
FairHookSpec ==
  /\ HookSpec
  /\ WF_hookVars(FetchDrain)
  /\ \A p \in Passes : WF_hookVars(PassStep(p))
  /\ WF_hookVars(Reconcile)
  /\ \A r \in Rows : WF_hookVars(Passing(r))

-----------------------------------------------------------------------------
\* Every variable holds a value of its kind.
HookTypeOK ==
  /\ endpoint \in {"enabled", "disabled", "auto_disabled"}
  /\ status \in [Rows -> {"absent", "pending", "failed", "success", "exhausted"}]
  /\ attempts \in [Rows -> 0..MaxAttempts]
  /\ clock \in [Rows -> {"none", "due", "ahead", "leased"}]
  /\ asked \in [Rows -> BOOLEAN]
  /\ old \subseteq Rows
  /\ armed \in BOOLEAN
  /\ pc \in [Sweeps -> {"off", "retry", "settle", "claim", "check", "post", "finish"}]
  /\ work \in [Passes -> [Rows ->
       {"none", "held", "taken", "posted", "judge", "trip", "back"}]]
  /\ seen \in [Passes -> [Rows -> 0..MaxAttempts]]
  /\ stop \in [Passes -> {"none", "budget", "throttled", "disabled"}]
  /\ picked \in [Sweeps -> SUBSET Rows]
  /\ tester \in [Rows -> {"idle", "written", "done"}]
  /\ posts \in [Rows -> Nat]
  /\ spared \in [Rows -> Nat]
  /\ mishaps \in 0..Mishaps
  /\ switches \in 0..Switches

\* Rows a test wrote: its request posts them too.
Tested == { r \in Rows : tester[r] # "idle" }

InFlight(r) == { p \in Passes : work[p][r] = "posted" }

\* Every post of an event's delivery is accounted for: it charged one attempt,
\* met a 429, died with its pass, or is in flight, and at most one is.  Two
\* passes on one row would write over each other's count (drainWebhookEndpoint
\* copies attempts at the claim and updates by id) and the receiver would be
\* posted to more than WEBHOOK_MAX_ATTEMPTS times.
PostsAreCharged ==
  \A r \in Rows \ Tested :
    posts[r] = attempts[r] + spared[r] + (IF InFlight(r) = {} THEN 0 ELSE 1)

\* A pass never posts an event's delivery the receiver has already taken,
\* though a sweep may since have shown it exhausted.
NoPostAfterSuccess ==
  [][\A r \in Rows \ Tested : posts'[r] > posts[r] => status[r] # "success"]_hookVars

PostsOf(r) == IF r \in Tested THEN posts[r] + 1 ELSE posts[r]

\* The breaker trips only on an endpoint whose receiver failed DisableAfter
\* deliveries: rows that aged out or were settled by a disable, never posted
\* to the end, do not count (COUNTED_SETTLED_SQL).
TripsOnFailures ==
  [][endpoint = "enabled" /\ endpoint' = "auto_disabled"
       => Cardinality({ r \in Rows : PostsOf(r) >= MaxAttempts \/ spared[r] > 0 })
          >= DisableAfter]_hookVars

\* No delivery stays open with a clock, test deliveries left behind included.
NothingStaysOpen == \A r \in Rows : r \in Waiting ~> r \notin Waiting
=============================================================================
