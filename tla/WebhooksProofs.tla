--------------------------- MODULE WebhooksProofs ---------------------------
(***************************************************************************)
(* Webhooks: its type invariant, PostsAreCharged, NoPostAfterSuccess and   *)
(* TripsOnFailures, for any number of rows, passes, attempts, faults and   *)
(* switches.                                                               *)
(***************************************************************************)
EXTENDS Webhooks, FiniteSetTheorems, TLAPS

\* What a pass does with a row it still has to answer for.
InHand == {"held", "taken", "posted", "back"}

IsOpen(r) == status[r] \in {"pending", "failed"}

\* A row nobody has written is untouched.
AbsentInv ==
  \A r \in Rows : status[r] = "absent" =>
    /\ attempts[r] = 0 /\ posts[r] = 0 /\ spared[r] = 0
    /\ tester[r] = "idle"
    /\ \A p \in Passes : work[p][r] = "none"
    /\ \A a \in Sweeps : r \notin picked[a]

\* An open row has an attempt left, and so had one in hand when claimed.
RoomInv ==
  /\ \A r \in Rows : IsOpen(r) => attempts[r] < MaxAttempts
  /\ \A p \in Passes, r \in Rows : work[p][r] \in InHand => seen[p][r] < MaxAttempts

\* A pass has rows in hand only between its claim and the end of the page.
PlaceInv ==
  \A p \in Passes, r \in Rows :
    /\ pc[p] = "check" => work[p][r] \in {"none", "held"}
    /\ pc[p] \notin {"check", "post"} => work[p][r] = "none"

\* A row no test wrote is in one pass's hands at most; its lease stands until
\* the pass is done with it, unless a sweep exhausts it first; and the pass
\* knows its attempts.
LeaseInv ==
  \A p \in Passes, r \in Rows : tester[r] = "idle" /\ work[p][r] # "none" =>
    /\ \A q \in Passes \ {p} : work[q][r] = "none"
    /\ status[r] = "exhausted" \/ (IsOpen(r) /\ clock[r] = "leased")
    /\ work[p][r] \in InHand => seen[p][r] = attempts[r]

\* PostsAreCharged, row by row and pass by pass.
ChargeInv ==
  \A r \in Rows : tester[r] = "idle" =>
    /\ (\A p \in Passes : work[p][r] # "posted") => posts[r] = attempts[r] + spared[r]
    /\ \A p \in Passes : work[p][r] = "posted" => posts[r] = attempts[r] + spared[r] + 1

HookInv == HookTypeOK /\ AbsentInv /\ RoomInv /\ PlaceInv /\ LeaseInv /\ ChargeInv

\* The kinds of the variables a step changes.
Places == {"off", "retry", "settle", "claim", "check", "post", "finish"}
Marks == {"none", "held", "taken", "posted", "judge", "trip", "back"}
PcOK == pc \in [Sweeps -> Places]
WorkOK == work \in [Passes -> [Rows -> Marks]]
ClockOK == clock \in [Rows -> {"none", "due", "ahead", "leased"}]
StatusOK == status \in [Rows -> {"absent", "pending", "failed", "success", "exhausted"}]
SeenOK == seen \in [Passes -> [Rows -> 0..MaxAttempts]]
PickedOK == picked \in [Sweeps -> SUBSET Rows]
StopOK == stop \in [Passes -> {"none", "budget", "throttled", "disabled"}]

LEMMA GotoType ==
  ASSUME PcOK, NEW a, NEW place \in Places, Goto(a, place) PROVE PcOK'
BY DEF PcOK, Goto, Places

LEMMA DoingType ==
  ASSUME WorkOK, NEW p, NEW r, NEW what \in Marks, Doing(p, r, what) PROVE WorkOK'
BY DEF WorkOK, Doing, Marks

LEMMA OnType ==
  ASSUME NEW S, NEW f \in [Rows -> S], NEW R, NEW value \in S
  PROVE  On(R, f, value) \in [Rows -> S]
BY DEF On

LEMMA LoadType ==
  ASSUME HookTypeOK, NEW p \in Passes, LoadEndpoint(p) PROVE PcOK' /\ PickedOK'
<1>1. CASE endpoint = "enabled"
  BY <1>1 DEF LoadEndpoint, HookTypeOK, Goto, PcOK, PickedOK, Places
<1>2. CASE endpoint # "enabled"
  <2>1. Waiting \subseteq Rows  BY DEF Waiting, Open
  <2>2. picked' = [picked EXCEPT ![p] = Waiting] /\ pc' = [pc EXCEPT ![p] = "settle"]
    BY <1>2 DEF LoadEndpoint, Goto
  <2> QED BY <2>1, <2>2 DEF HookTypeOK, PcOK, PickedOK, Places
<1> QED BY <1>1, <1>2

LEMMA ForgetType ==
  ASSUME HookTypeOK, NEW p \in Passes, Forget(p) PROVE WorkOK' /\ SeenOK'
BY WebhooksAssumption DEF HookTypeOK, Forget, WorkOK, SeenOK, Marks

LEMMA FetchType == ASSUME HookTypeOK, NEW p \in Passes, Fetch(p) PROVE HookTypeOK'
<1>1. PcOK' /\ PickedOK'  BY LoadType DEF Fetch
<1> QED BY <1>1 DEF Fetch, HookTypeOK, PcOK, PickedOK, Places, rowVars

LEMMA RetryType == ASSUME HookTypeOK, NEW p \in Passes, Retry(p) PROVE HookTypeOK'
<1>1. PcOK' /\ PickedOK'  BY LoadType DEF Retry
<1> QED BY <1>1 DEF Retry, HookTypeOK, PcOK, PickedOK, Places, rowVars

LEMMA SettleType == ASSUME HookTypeOK, NEW p \in Passes, Settle(p) PROVE HookTypeOK'
<1>1. StatusOK' /\ ClockOK'
  BY OnType DEF Settle, ExhaustPicked, HookTypeOK, StatusOK, ClockOK
<1>2. PickedOK'
  BY DEF Settle, ExhaustPicked, HookTypeOK, PickedOK
<1>3. PcOK'
  <2>1. PcOK /\ Goto(p, "off")  BY DEF HookTypeOK, PcOK, Places, Settle
  <2> QED BY <2>1, GotoType DEF Places
<1> QED BY <1>1, <1>2, <1>3
    DEF Settle, HookTypeOK, StatusOK, ClockOK, PickedOK, PcOK, Places

LEMMA ClaimDueType == ASSUME HookTypeOK, NEW p \in Passes, ClaimDue(p) PROVE HookTypeOK'
<1>1. PcOK'
  <2>1. PcOK  BY DEF HookTypeOK, PcOK, Places
  <2>2. Goto(p, "finish") \/ Goto(p, "check")  BY DEF ClaimDue
  <2> QED BY <2>1, <2>2, GotoType DEF Places
<1>2. ClockOK'  BY OnType DEF ClaimDue, HookTypeOK, ClockOK
<1>3. WorkOK'
  <2>1. work[p] \in [Rows -> Marks] /\ "held" \in Marks  BY DEF HookTypeOK, Marks
  <2>2. On(Due, work[p], "held") \in [Rows -> Marks]  BY <2>1, OnType
  <2>3. WorkOK  BY DEF HookTypeOK, WorkOK, Marks
  <2>4. work' = [work EXCEPT ![p] = On(Due, work[p], "held")]  BY DEF ClaimDue
  <2> QED BY <2>2, <2>3, <2>4 DEF WorkOK
<1>4. SeenOK'  BY DEF ClaimDue, HookTypeOK, SeenOK
<1> QED BY <1>1, <1>2, <1>3, <1>4
    DEF ClaimDue, HookTypeOK, PcOK, ClockOK, WorkOK, SeenOK, Places, Marks

LEMMA CheckEndpointType ==
  ASSUME HookTypeOK, NEW p \in Passes, CheckEndpoint(p) PROVE HookTypeOK'
<1>1. PcOK' /\ ClockOK' /\ WorkOK' /\ SeenOK'
  <2>1. CASE endpoint = "enabled"
    BY <2>1 DEF CheckEndpoint, Goto, HookTypeOK, PcOK, ClockOK, WorkOK, SeenOK, Places, Marks
  <2>2. CASE endpoint # "enabled"
    <3>1. WorkOK' /\ SeenOK'  BY <2>2, ForgetType DEF CheckEndpoint, Release
    <3>2. PcOK' /\ ClockOK'
      BY <2>2 DEF CheckEndpoint, Release, Goto, On, HookTypeOK, PcOK, ClockOK, Places
    <3> QED BY <3>1, <3>2
  <2> QED BY <2>1, <2>2
<1> QED BY <1>1 DEF CheckEndpoint, HookTypeOK, PcOK, ClockOK, WorkOK, SeenOK, Places, Marks

LEMMA MishapType == ASSUME HookTypeOK, Mishap PROVE mishaps' \in 0..Mishaps
BY WebhooksAssumption DEF HookTypeOK, Mishap

LEMMA RunOutType == ASSUME HookTypeOK, NEW p \in Passes, RunOut(p) PROVE HookTypeOK'
<1>1. mishaps' \in 0..Mishaps  BY MishapType DEF RunOut
<1>2. PcOK' /\ StopOK'
  BY DEF RunOut, Goto, HookTypeOK, PcOK, StopOK, Places
<1> QED BY <1>1, <1>2 DEF RunOut, HookTypeOK, PcOK, StopOK, Places, rowVars

LEMMA TakeRowType ==
  ASSUME HookTypeOK, NEW p \in Passes, NEW r \in Rows, TakeRow(p, r) PROVE HookTypeOK'
<1>1. \E what \in Marks : Doing(p, r, what)  BY DEF TakeRow, Marks
<1>2. WorkOK'  BY <1>1, DoingType DEF HookTypeOK, WorkOK, Marks
<1>3. StatusOK' /\ ClockOK'  BY DEF TakeRow, HookTypeOK, StatusOK, ClockOK
<1> QED BY <1>2, <1>3 DEF TakeRow, HookTypeOK, WorkOK, StatusOK, ClockOK, Marks

LEMMA PostRowType ==
  ASSUME HookTypeOK, NEW p \in Passes, NEW r \in Rows, PostRow(p, r) PROVE HookTypeOK'
<1>1. \E what \in Marks : Doing(p, r, what)  BY DEF PostRow, Marks
<1>2. WorkOK'  BY <1>1, DoingType DEF HookTypeOK, WorkOK, Marks
<1>3. posts' \in [Rows -> Nat]  BY DEF PostRow, HookTypeOK
<1> QED BY <1>2, <1>3 DEF PostRow, HookTypeOK, WorkOK, Marks, rowVars

LEMMA ThrottledType ==
  ASSUME HookTypeOK, NEW p \in Passes, NEW r \in Rows, Throttled(p, r) PROVE HookTypeOK'
<1>1. mishaps' \in 0..Mishaps  BY MishapType DEF Throttled
<1>2. WorkOK'  BY DoingType DEF Throttled, HookTypeOK, WorkOK, Marks
<1>3. StopOK'  BY DEF Throttled, HookTypeOK, StopOK
<1>4. spared' \in [Rows -> Nat] /\ ClockOK' /\ asked' \in [Rows -> BOOLEAN]
  BY DEF Throttled, HookTypeOK, ClockOK
<1> QED BY <1>1, <1>2, <1>3, <1>4 DEF Throttled, HookTypeOK, WorkOK, StopOK, ClockOK, Marks

LEMMA EndPageType == ASSUME HookTypeOK, NEW p \in Passes, EndPage(p) PROVE HookTypeOK'
<1>1. WorkOK' /\ SeenOK'  BY ForgetType DEF EndPage, Release
<1>2. PcOK'
  <2>1. PcOK  BY DEF HookTypeOK, PcOK, Places
  <2>2. Goto(p, "claim") \/ Goto(p, "finish")  BY DEF EndPage
  <2> QED BY <2>1, <2>2, GotoType DEF Places
<1>3. ClockOK'
  <2>1. CASE UNCHANGED clock  BY <2>1 DEF HookTypeOK, ClockOK
  <2>2. CASE \E at \in {"ahead", "due"} : Release(p, at)
    BY <2>2 DEF Release, On, HookTypeOK, ClockOK
  <2> QED BY <2>1, <2>2 DEF EndPage
<1> QED BY <1>1, <1>2, <1>3 DEF EndPage, HookTypeOK, WorkOK, SeenOK, PcOK, ClockOK, Places, Marks

LEMMA CrashType == ASSUME HookTypeOK, NEW p \in Passes, Crash(p) PROVE HookTypeOK'
<1>1. mishaps' \in 0..Mishaps  BY MishapType DEF Crash
<1>2. WorkOK' /\ SeenOK'  BY ForgetType DEF Crash
<1>3. PcOK' /\ StopOK' /\ PickedOK'
  <2>1. PcOK /\ StopOK /\ PickedOK  BY DEF HookTypeOK, PcOK, StopOK, PickedOK, Places
  <2>2. /\ Goto(p, "retry") \/ Goto(p, "off")
        /\ stop' = [stop EXCEPT ![p] = "none"]
        /\ picked' = [picked EXCEPT ![p] = {}]
    BY DEF Crash
  <2>3. PcOK'  BY <2>1, <2>2, GotoType DEF Places
  <2>4. StopOK' /\ PickedOK'  BY <2>1, <2>2 DEF StopOK, PickedOK
  <2> QED BY <2>3, <2>4
<1>4. spared' \in [Rows -> Nat]  BY DEF Crash, HookTypeOK
<1> QED BY <1>1, <1>2, <1>3, <1>4
  DEF Crash, HookTypeOK, WorkOK, SeenOK, PcOK, StopOK, PickedOK, Places, Marks, rowVars

LEMMA SwitchEndpointType ==
  ASSUME HookTypeOK, NEW to \in {"enabled", "disabled"}, SwitchEndpoint(to)
  PROVE  HookTypeOK'
<1>1. switches' \in 0..Switches  BY WebhooksAssumption DEF SwitchEndpoint, HookTypeOK
<1>2. endpoint' \in {"enabled", "disabled", "auto_disabled"}  BY DEF SwitchEndpoint
<1> QED BY <1>1, <1>2 DEF SwitchEndpoint, HookTypeOK, rowVars, passVars

LEMMA EndTestType ==
  ASSUME HookTypeOK, NEW t \in Tests, NEW ok \in BOOLEAN, EndTest(t, ok) PROVE HookTypeOK'
<1>1. StatusOK' /\ ClockOK'  BY DEF EndTest, HookTypeOK, StatusOK, ClockOK
<1>2. attempts' \in [Rows -> 0..MaxAttempts]
  <2>1. 1 \in 0..MaxAttempts  BY WebhooksAssumption
  <2> QED BY <2>1 DEF EndTest, HookTypeOK
<1>3. tester' \in [Rows -> {"idle", "written", "done"}] /\ asked' \in [Rows -> BOOLEAN]
  BY DEF EndTest, HookTypeOK
<1> QED BY <1>1, <1>2, <1>3 DEF EndTest, HookTypeOK, StatusOK, ClockOK, passVars

LEMMA AnsweredType ==
  ASSUME HookTypeOK, RoomInv, NEW p \in Passes, NEW r \in Rows, NEW ok \in BOOLEAN,
         Answered(p, r, ok)
  PROVE  HookTypeOK'
<1>1. seen[p][r] < MaxAttempts  BY DEF Answered, RoomInv, InHand
<1>2. attempts' \in [Rows -> 0..MaxAttempts]
  BY <1>1, WebhooksAssumption DEF Answered, HookTypeOK
<1>3. \E what \in Marks : Doing(p, r, what)  BY DEF Answered, Marks
<1>4. WorkOK'  BY <1>3, DoingType DEF HookTypeOK, WorkOK, Marks
<1>5. StatusOK' /\ ClockOK'  BY DEF Answered, HookTypeOK, StatusOK, ClockOK
<1>6. asked' \in [Rows -> BOOLEAN]  BY DEF Answered, HookTypeOK
<1> QED BY <1>2, <1>4, <1>5, <1>6 DEF Answered, HookTypeOK, WorkOK, StatusOK, ClockOK, Marks

\* What Doing and Forget leave, mark by mark.
LEMMA DoingAfter ==
  ASSUME HookTypeOK, NEW p \in Passes, NEW r \in Rows, NEW what, Doing(p, r, what)
  PROVE  \A q \in Passes, x \in Rows :
           work'[q][x] = IF q = p /\ x = r THEN what ELSE work[q][x]
BY DEF Doing, HookTypeOK

LEMMA ForgetAfter ==
  ASSUME HookTypeOK, NEW p \in Passes, Forget(p)
  PROVE  \A q \in Passes, x \in Rows :
           /\ work'[q][x] = IF q = p THEN "none" ELSE work[q][x]
           /\ seen'[q][x] = IF q = p THEN 0 ELSE seen[q][x]
BY DEF Forget, HookTypeOK

LEMMA OnAt ==
  ASSUME NEW R, NEW f, NEW value
  PROVE  \A x \in Rows : On(R, f, value)[x] = IF x \in R THEN value ELSE f[x]
BY DEF On

LEMMA GotoAt ==
  ASSUME HookTypeOK, NEW a, NEW place, Goto(a, place)
  PROVE  \A b \in Sweeps : pc'[b] = IF b = a THEN place ELSE pc[b]
BY DEF Goto, HookTypeOK

LEMMA CountsAreNat ==
  ASSUME HookTypeOK
  PROVE  \A x \in Rows :
           /\ posts[x] \in Nat /\ attempts[x] \in Nat /\ spared[x] \in Nat
           /\ \A q \in Passes : seen[q][x] \in Nat
BY WebhooksAssumption DEF HookTypeOK

LEMMA FetchStep == ASSUME HookInv, NEW p \in Passes, Fetch(p) PROVE HookInv'
<1>0. HookTypeOK /\ AbsentInv /\ RoomInv /\ PlaceInv /\ LeaseInv /\ ChargeInv
  BY DEF HookInv
<1>1. HookTypeOK'  BY <1>0, FetchType
<1>u. UNCHANGED << status, attempts, clock, work, seen, tester, posts, spared >>
  BY DEF Fetch, rowVars, passVars
<1>p. p \in Sweeps /\ Passes \subseteq Sweeps /\ Reconciler \notin Passes
  BY WebhooksAssumption DEF Sweeps
<1>a. \A b \in Sweeps : pc'[b] = IF b = p THEN pc'[p] ELSE pc[b]
  BY <1>0, <1>p, GotoAt DEF Fetch, HookTypeOK, LoadEndpoint
<1>b. pc'[p] \in {"claim", "settle"} /\ pc[p] \in {"off", "retry"}
  BY <1>0, <1>p DEF Fetch, HookTypeOK, LoadEndpoint, Goto
<1>c. \A b \in Sweeps : picked'[b] \subseteq picked[b] \cup Waiting
  BY <1>0, <1>p DEF Fetch, HookTypeOK, LoadEndpoint, Goto
<1>2. AbsentInv'  BY <1>0, <1>u, <1>p, <1>a, <1>b, <1>c DEF AbsentInv, Waiting, Open
<1>3. RoomInv'  BY <1>0, <1>u, <1>p, <1>a, <1>b, <1>c DEF RoomInv, IsOpen, InHand
<1>4. PlaceInv'  BY <1>0, <1>u, <1>p, <1>a, <1>b, <1>c DEF PlaceInv
<1>5. LeaseInv'
  BY <1>0, <1>u, <1>p, <1>a, <1>b, <1>c DEF AbsentInv, LeaseInv, IsOpen, InHand
<1>6. ChargeInv'  BY <1>0, <1>u, <1>p, <1>a, <1>b, <1>c DEF AbsentInv, LeaseInv, ChargeInv
<1> QED BY <1>1, <1>2, <1>3, <1>4, <1>5, <1>6 DEF HookInv

LEMMA RetryStep == ASSUME HookInv, NEW p \in Passes, Retry(p) PROVE HookInv'
<1>0. HookTypeOK /\ AbsentInv /\ RoomInv /\ PlaceInv /\ LeaseInv /\ ChargeInv
  BY DEF HookInv
<1>1. HookTypeOK'  BY <1>0, RetryType
<1>u. UNCHANGED << status, attempts, clock, work, seen, tester, posts, spared >>
  BY DEF Retry, rowVars, passVars
<1>p. p \in Sweeps /\ Passes \subseteq Sweeps /\ Reconciler \notin Passes
  BY WebhooksAssumption DEF Sweeps
<1>a. \A b \in Sweeps : pc'[b] = IF b = p THEN pc'[p] ELSE pc[b]
  BY <1>0, <1>p, GotoAt DEF Retry, HookTypeOK, LoadEndpoint
<1>b. pc'[p] \in {"claim", "settle"} /\ pc[p] \in {"off", "retry"}
  BY <1>0, <1>p DEF Retry, HookTypeOK, LoadEndpoint, Goto
<1>c. \A b \in Sweeps : picked'[b] \subseteq picked[b] \cup Waiting
  BY <1>0, <1>p DEF Retry, HookTypeOK, LoadEndpoint, Goto
<1>2. AbsentInv'  BY <1>0, <1>u, <1>p, <1>a, <1>b, <1>c DEF AbsentInv, Waiting, Open
<1>3. RoomInv'  BY <1>0, <1>u, <1>p, <1>a, <1>b, <1>c DEF RoomInv, IsOpen, InHand
<1>4. PlaceInv'  BY <1>0, <1>u, <1>p, <1>a, <1>b, <1>c DEF PlaceInv
<1>5. LeaseInv'
  BY <1>0, <1>u, <1>p, <1>a, <1>b, <1>c DEF AbsentInv, LeaseInv, IsOpen, InHand
<1>6. ChargeInv'  BY <1>0, <1>u, <1>p, <1>a, <1>b, <1>c DEF AbsentInv, LeaseInv, ChargeInv
<1> QED BY <1>1, <1>2, <1>3, <1>4, <1>5, <1>6 DEF HookInv

LEMMA SettleStep == ASSUME HookInv, NEW p \in Passes, Settle(p) PROVE HookInv'
<1>0. HookTypeOK /\ AbsentInv /\ RoomInv /\ PlaceInv /\ LeaseInv /\ ChargeInv
  BY DEF HookInv
<1>1. HookTypeOK'  BY <1>0, SettleType
<1>u. UNCHANGED << attempts, work, seen, tester, posts, spared >>
  BY DEF Settle, rowVars, passVars, ExhaustPicked
<1>p. p \in Sweeps /\ Passes \subseteq Sweeps /\ Reconciler \notin Passes
  BY WebhooksAssumption DEF Sweeps
<1>a. \A b \in Sweeps : pc'[b] = IF b = p THEN "off" ELSE pc[b]
  BY <1>0, <1>p, GotoAt DEF Settle, HookTypeOK, ExhaustPicked
<1>b. pc[p] = "settle"  BY <1>0, <1>p DEF Settle, HookTypeOK, ExhaustPicked, Goto, On
<1>c. \A x \in Rows : status'[x] = IF x \in picked[p] THEN "exhausted" ELSE status[x]
  BY <1>0, <1>p, OnAt DEF Settle, HookTypeOK, ExhaustPicked
<1>d. \A x \in Rows : clock'[x] = IF x \in picked[p] THEN "none" ELSE clock[x]
  BY <1>0, <1>p, OnAt DEF Settle, HookTypeOK, ExhaustPicked
<1>e. \A b \in Sweeps : picked'[b] = IF b = p THEN {} ELSE picked[b]
  BY <1>0, <1>p DEF Settle, HookTypeOK, ExhaustPicked, Goto, On
<1>2. AbsentInv'  BY <1>0, <1>u, <1>p, <1>a, <1>b, <1>c, <1>d, <1>e DEF AbsentInv
<1>3. RoomInv'
  BY <1>0, <1>u, <1>p, <1>a, <1>b, <1>c, <1>d, <1>e DEF RoomInv, IsOpen, InHand
<1>4. PlaceInv'  BY <1>0, <1>u, <1>p, <1>a, <1>b, <1>c, <1>d, <1>e DEF PlaceInv
<1>5. LeaseInv'
  BY <1>0, <1>u, <1>p, <1>a, <1>b, <1>c, <1>d, <1>e DEF AbsentInv, LeaseInv, IsOpen,
    InHand
<1>6. ChargeInv'
  BY <1>0, <1>u, <1>p, <1>a, <1>b, <1>c, <1>d, <1>e DEF AbsentInv, LeaseInv, ChargeInv
<1> QED BY <1>1, <1>2, <1>3, <1>4, <1>5, <1>6 DEF HookInv

LEMMA ClaimDueStep == ASSUME HookInv, NEW p \in Passes, ClaimDue(p) PROVE HookInv'
<1>0. HookTypeOK /\ AbsentInv /\ RoomInv /\ PlaceInv /\ LeaseInv /\ ChargeInv
  BY DEF HookInv
<1>1. HookTypeOK'  BY <1>0, ClaimDueType
<1>u. UNCHANGED << status, attempts, picked, tester, posts, spared >>
  BY DEF ClaimDue, rowVars, passVars
<1>p. p \in Sweeps /\ Passes \subseteq Sweeps /\ Reconciler \notin Passes
  BY WebhooksAssumption DEF Sweeps
<1>a. \A x \in Rows : clock'[x] = IF x \in Due THEN "leased" ELSE clock[x]
  BY <1>0, <1>p, OnAt DEF ClaimDue, HookTypeOK
<1>b. \A q \in Passes, x \in Rows :
        /\ work'[q][x] = IF q = p /\ x \in Due THEN "held" ELSE work[q][x]
        /\ seen'[q][x] = IF q = p THEN attempts[x] ELSE seen[q][x]
  BY <1>0, <1>p, OnAt DEF ClaimDue, HookTypeOK
<1>c. \A b \in Sweeps : pc'[b] = IF b = p THEN pc'[p] ELSE pc[b]
  BY <1>0, <1>p, GotoAt DEF ClaimDue, HookTypeOK
<1>d. pc'[p] = IF Due = {} THEN "finish" ELSE "check"
  BY <1>0, <1>p, GotoAt DEF ClaimDue, HookTypeOK
<1>z. pc[p] = "claim"  BY DEF ClaimDue
<1>2. AbsentInv'
  BY <1>0, <1>u, <1>p, <1>a, <1>b, <1>c, <1>d, <1>z DEF AbsentInv, Due, Open, PlaceInv
<1>3. RoomInv'
  BY <1>0, <1>u, <1>p, <1>a, <1>b, <1>c, <1>d, <1>z DEF RoomInv, IsOpen, InHand, Due,
    Open, PlaceInv
<1>4. PlaceInv'  BY <1>0, <1>u, <1>p, <1>a, <1>b, <1>c, <1>d, <1>z DEF PlaceInv
<1>5. LeaseInv'
  BY <1>0, <1>u, <1>p, <1>a, <1>b, <1>c, <1>d, <1>z DEF AbsentInv, LeaseInv, IsOpen,
    InHand, Due, Open, PlaceInv
<1>6. ChargeInv'
  BY <1>0, <1>u, <1>p, <1>a, <1>b, <1>c, <1>d, <1>z DEF AbsentInv, LeaseInv, ChargeInv,
    PlaceInv, Due
<1> QED BY <1>1, <1>2, <1>3, <1>4, <1>5, <1>6 DEF HookInv

LEMMA CheckEndpointStep == ASSUME HookInv, NEW p \in Passes, CheckEndpoint(p) PROVE HookInv'
<1>0. HookTypeOK /\ AbsentInv /\ RoomInv /\ PlaceInv /\ LeaseInv /\ ChargeInv
  BY DEF HookInv
<1>1. HookTypeOK'  BY <1>0, CheckEndpointType
<1>u. UNCHANGED << status, attempts, picked, tester, posts, spared >>
  BY DEF CheckEndpoint, rowVars, passVars
<1>p. p \in Sweeps /\ Passes \subseteq Sweeps /\ Reconciler \notin Passes
  BY WebhooksAssumption DEF Sweeps
<1>a. endpoint # "enabled" => Forget(p)  BY DEF CheckEndpoint, Release
<1>b. \A q \in Passes, x \in Rows :
        /\ work'[q][x] = IF endpoint # "enabled" /\ q = p THEN "none" ELSE work[q][x]
        /\ seen'[q][x] = IF endpoint # "enabled" /\ q = p THEN 0 ELSE seen[q][x]
  BY <1>0, <1>a, ForgetAfter DEF CheckEndpoint
<1>c. \A b \in Sweeps : pc'[b] = IF b = p THEN pc'[p] ELSE pc[b]
  BY <1>0, <1>p, GotoAt DEF CheckEndpoint
<1>d. pc[p] = "check" /\ pc'[p] = IF endpoint = "enabled" THEN "post" ELSE "finish"
  BY <1>0, <1>p, GotoAt DEF CheckEndpoint
<1>e. \A x \in Rows : clock'[x] = clock[x] \/ (endpoint # "enabled" /\ work[p][x] \in {"held", "back"})
  BY OnAt DEF CheckEndpoint, Release, HeldBy
<1>2. AbsentInv'  BY <1>0, <1>u, <1>p, <1>b, <1>c, <1>d, <1>e DEF AbsentInv
<1>3. RoomInv'  BY <1>0, <1>u, <1>p, <1>b, <1>c, <1>d, <1>e DEF RoomInv, IsOpen, InHand
<1>4. PlaceInv'  BY <1>0, <1>u, <1>p, <1>b, <1>c, <1>d, <1>e DEF PlaceInv
<1>5. LeaseInv'
  BY <1>0, <1>u, <1>p, <1>b, <1>c, <1>d, <1>e DEF AbsentInv, LeaseInv, IsOpen, InHand
<1>6. ChargeInv'
  BY <1>0, <1>u, <1>p, <1>b, <1>c, <1>d, <1>e DEF AbsentInv, LeaseInv, ChargeInv, PlaceInv
<1> QED BY <1>1, <1>2, <1>3, <1>4, <1>5, <1>6 DEF HookInv

LEMMA RunOutStep == ASSUME HookInv, NEW p \in Passes, RunOut(p) PROVE HookInv'
<1>0. HookTypeOK /\ AbsentInv /\ RoomInv /\ PlaceInv /\ LeaseInv /\ ChargeInv
  BY DEF HookInv
<1>1. HookTypeOK'  BY <1>0, RunOutType
<1>u. UNCHANGED << status, attempts, clock, work, seen, picked, tester, posts, spared >>
  BY DEF RunOut, rowVars, passVars
<1>p. p \in Sweeps /\ Passes \subseteq Sweeps /\ Reconciler \notin Passes
  BY WebhooksAssumption DEF Sweeps
<1>a. \A b \in Sweeps : pc'[b] = pc[b] \/ (b = p /\ pc[p] = "claim" /\ pc'[p] = "finish")
  BY <1>0, <1>p DEF RunOut, HookTypeOK, Goto
<1>2. AbsentInv'  BY <1>0, <1>u, <1>p, <1>a DEF AbsentInv
<1>3. RoomInv'  BY <1>0, <1>u, <1>p, <1>a DEF RoomInv, IsOpen, InHand
<1>4. PlaceInv'  BY <1>0, <1>u, <1>p, <1>a DEF PlaceInv
<1>5. LeaseInv'  BY <1>0, <1>u, <1>p, <1>a DEF AbsentInv, LeaseInv, IsOpen, InHand
<1>6. ChargeInv'  BY <1>0, <1>u, <1>p, <1>a DEF AbsentInv, LeaseInv, ChargeInv
<1> QED BY <1>1, <1>2, <1>3, <1>4, <1>5, <1>6 DEF HookInv

LEMMA TakeRowStep ==
  ASSUME HookInv, NEW p \in Passes, NEW r \in Rows, TakeRow(p, r)
  PROVE  HookInv'
<1>0. HookTypeOK /\ AbsentInv /\ RoomInv /\ PlaceInv /\ LeaseInv /\ ChargeInv
  BY DEF HookInv
<1>1. HookTypeOK'  BY <1>0, TakeRowType
<1>u. UNCHANGED << attempts, pc, seen, picked, tester, posts, spared >>
  BY DEF TakeRow, rowVars, passVars
<1>a. \A q \in Passes, x \in Rows :
        work'[q][x] = IF q = p /\ x = r THEN IF r \in old THEN "none" ELSE "taken" ELSE work[q][x]
  BY <1>0, DoingAfter DEF TakeRow, HookTypeOK
<1>b. \A x \in Rows : status'[x] = status[x] \/ (x = r /\ r \in old /\ status'[r] = "exhausted")
  BY <1>0 DEF TakeRow, HookTypeOK, Doing
<1>c. \A x \in Rows : clock'[x] = clock[x] \/ (x = r /\ r \in old)
  BY <1>0 DEF TakeRow, HookTypeOK, Doing
<1>d. work[p][r] = "held" /\ pc[p] = "post"  BY <1>0 DEF TakeRow, HookTypeOK, Doing
<1>2. AbsentInv'  BY <1>0, <1>u, <1>a, <1>b, <1>c, <1>d DEF AbsentInv, PlaceInv
<1>3. RoomInv'  BY <1>0, <1>u, <1>a, <1>b, <1>c, <1>d DEF RoomInv, IsOpen, InHand, PlaceInv
<1>4. PlaceInv'  BY <1>0, <1>u, <1>a, <1>b, <1>c, <1>d DEF PlaceInv
<1>5. LeaseInv'
  BY <1>0, <1>u, <1>a, <1>b, <1>c, <1>d DEF AbsentInv, LeaseInv, IsOpen, InHand, PlaceInv
<1>6. ChargeInv'
  BY <1>0, <1>u, <1>a, <1>b, <1>c, <1>d DEF AbsentInv, LeaseInv, ChargeInv, PlaceInv
<1> QED BY <1>1, <1>2, <1>3, <1>4, <1>5, <1>6 DEF HookInv

LEMMA PostRowStep ==
  ASSUME HookInv, NEW p \in Passes, NEW r \in Rows, PostRow(p, r)
  PROVE  HookInv'
<1>0. HookTypeOK /\ AbsentInv /\ RoomInv /\ PlaceInv /\ LeaseInv /\ ChargeInv
  BY DEF HookInv
<1>1. HookTypeOK'  BY <1>0, PostRowType
<1>u. UNCHANGED << status, attempts, clock, pc, seen, picked, tester, spared >>
  BY DEF PostRow, rowVars, passVars
<1>a. \A q \in Passes, x \in Rows :
        work'[q][x] = IF q = p /\ x = r THEN IF stop[p] = "none" THEN "posted" ELSE "back" ELSE work[q][x]
  BY <1>0, DoingAfter DEF PostRow, HookTypeOK
<1>b. \A x \in Rows : posts'[x] = IF x = r /\ stop[p] = "none" THEN posts[x] + 1 ELSE posts[x]
  BY <1>0 DEF PostRow, HookTypeOK, Doing
<1>c. work[p][r] = "taken"  BY <1>0 DEF PostRow, HookTypeOK, Doing
<1>2. AbsentInv'  BY <1>0, <1>u, <1>a, <1>b, <1>c DEF AbsentInv, PlaceInv
<1>3. RoomInv'  BY <1>0, <1>u, <1>a, <1>b, <1>c DEF RoomInv, IsOpen, InHand, PlaceInv
<1>4. PlaceInv'  BY <1>0, <1>u, <1>a, <1>b, <1>c DEF PlaceInv
<1>5. LeaseInv'
  BY <1>0, <1>u, <1>a, <1>b, <1>c DEF AbsentInv, LeaseInv, IsOpen, InHand, PlaceInv
<1>6. ChargeInv'
  BY <1>0, <1>u, <1>a, <1>b, <1>c, CountsAreNat DEF AbsentInv, LeaseInv, ChargeInv,
    PlaceInv
<1> QED BY <1>1, <1>2, <1>3, <1>4, <1>5, <1>6 DEF HookInv

LEMMA ThrottledStep ==
  ASSUME HookInv, NEW p \in Passes, NEW r \in Rows, Throttled(p, r)
  PROVE  HookInv'
<1>0. HookTypeOK /\ AbsentInv /\ RoomInv /\ PlaceInv /\ LeaseInv /\ ChargeInv
  BY DEF HookInv
<1>1. HookTypeOK'  BY <1>0, ThrottledType
<1>u. UNCHANGED << status, attempts, pc, seen, picked, tester, posts >>
  BY DEF Throttled, rowVars, passVars
<1>a. \A q \in Passes, x \in Rows :
        work'[q][x] = IF q = p /\ x = r THEN "none" ELSE work[q][x]
  BY <1>0, DoingAfter DEF Throttled, HookTypeOK
<1>b. \A x \in Rows : clock'[x] = IF x = r THEN "ahead" ELSE clock[x]
  BY <1>0 DEF Throttled, HookTypeOK, Doing
<1>c. \A x \in Rows : spared'[x] = IF x = r THEN spared[r] + 1 ELSE spared[x]
  BY <1>0 DEF Throttled, HookTypeOK, Doing
<1>d. work[p][r] = "posted"  BY <1>0 DEF Throttled, HookTypeOK, Doing
<1>2. AbsentInv'  BY <1>0, <1>u, <1>a, <1>b, <1>c, <1>d DEF AbsentInv, PlaceInv
<1>3. RoomInv'  BY <1>0, <1>u, <1>a, <1>b, <1>c, <1>d DEF RoomInv, IsOpen, InHand, PlaceInv
<1>4. PlaceInv'  BY <1>0, <1>u, <1>a, <1>b, <1>c, <1>d DEF PlaceInv
<1>5. LeaseInv'
  BY <1>0, <1>u, <1>a, <1>b, <1>c, <1>d DEF AbsentInv, LeaseInv, IsOpen, InHand, PlaceInv
<1>6. ChargeInv'
  BY <1>0, <1>u, <1>a, <1>b, <1>c, <1>d, CountsAreNat DEF AbsentInv, LeaseInv, ChargeInv,
    PlaceInv
<1> QED BY <1>1, <1>2, <1>3, <1>4, <1>5, <1>6 DEF HookInv

LEMMA AnsweredStep ==
  ASSUME HookInv, NEW p \in Passes, NEW r \in Rows, NEW ok \in BOOLEAN, Answered(p, r, ok)
  PROVE  HookInv'
<1>0. HookTypeOK /\ AbsentInv /\ RoomInv /\ PlaceInv /\ LeaseInv /\ ChargeInv
  BY DEF HookInv
<1>1. HookTypeOK'  BY <1>0, AnsweredType
<1>u. UNCHANGED << pc, seen, picked, tester, posts, spared >>
  BY DEF Answered, rowVars, passVars
<1>a. \A q \in Passes, x \in Rows :
        work'[q][x] = IF q = p /\ x = r THEN IF ~ok /\ Spent(seen[p][r] + 1) THEN "judge" ELSE "none" ELSE work[q][x]
  BY <1>0, DoingAfter DEF Answered, HookTypeOK, Spent
<1>b. \A x \in Rows : attempts'[x] = IF x = r THEN seen[p][r] + 1 ELSE attempts[x]
  BY <1>0 DEF Answered, HookTypeOK, Spent, Doing
<1>c. \A x \in Rows : status'[x] = IF x = r THEN status'[r] ELSE status[x]
  BY <1>0 DEF Answered, HookTypeOK, Spent, Doing
<1>d. \A x \in Rows : clock'[x] = IF x = r THEN clock'[r] ELSE clock[x]
  BY <1>0 DEF Answered, HookTypeOK, Spent, Doing
<1>e. status'[r] \in {"success", "exhausted", "failed"}
  BY <1>0 DEF Answered, HookTypeOK, Spent, Doing
<1>f. status'[r] = "failed" => ~Spent(seen[p][r] + 1)
  BY <1>0 DEF Answered, HookTypeOK, Spent, Doing
<1>g. ~Spent(seen[p][r] + 1) => seen[p][r] + 1 < MaxAttempts
  BY <1>0, CountsAreNat, WebhooksAssumption DEF Spent
<1>h. ~ok /\ Spent(seen[p][r] + 1) => status'[r] = "exhausted"
  BY <1>0 DEF Answered, HookTypeOK, Spent, Doing
<1>i. work[p][r] = "posted"  BY <1>0 DEF Answered, HookTypeOK, Spent, Doing
<1>2. AbsentInv'
  BY <1>0, <1>u, <1>a, <1>b, <1>c, <1>d, <1>e, <1>f, <1>g, <1>h, <1>i DEF AbsentInv,
    PlaceInv
<1>3. RoomInv'
  BY <1>0, <1>u, <1>a, <1>b, <1>c, <1>d, <1>e, <1>f, <1>g, <1>h, <1>i DEF RoomInv, IsOpen,
    InHand, PlaceInv
<1>4. PlaceInv'
  BY <1>0, <1>u, <1>a, <1>b, <1>c, <1>d, <1>e, <1>f, <1>g, <1>h, <1>i DEF PlaceInv
<1>5. LeaseInv'
  BY <1>0, <1>u, <1>a, <1>b, <1>c, <1>d, <1>e, <1>f, <1>g, <1>h, <1>i DEF AbsentInv,
    LeaseInv, IsOpen, InHand, PlaceInv
<1>6. ChargeInv'
  BY <1>0, <1>u, <1>a, <1>b, <1>c, <1>d, <1>e, <1>f, <1>g, <1>h, <1>i, CountsAreNat DEF
    AbsentInv, LeaseInv, ChargeInv, PlaceInv, InHand
<1> QED BY <1>1, <1>2, <1>3, <1>4, <1>5, <1>6 DEF HookInv

LEMMA JudgeEndpointStep ==
  ASSUME HookInv, NEW p \in Passes, NEW r \in Rows, JudgeEndpoint(p, r)
  PROVE  HookInv'
<1>0. HookTypeOK /\ AbsentInv /\ RoomInv /\ PlaceInv /\ LeaseInv /\ ChargeInv
  BY DEF HookInv
<1>1. HookTypeOK'
  BY <1>0, WebhooksAssumption DEF HookTypeOK, Rows, Sweeps, Reconciler, rowVars, passVars,
    Open, Waiting, JudgeEndpoint, Doing
<1>u. UNCHANGED << status, attempts, clock, pc, seen, picked, tester, posts, spared >>
  BY DEF JudgeEndpoint, rowVars, passVars
<1>a. \E what \in {"none", "trip"} : \A q \in Passes, x \in Rows :
        work'[q][x] = IF q = p /\ x = r THEN what ELSE work[q][x]
  <2>1. \E what \in {"none", "trip"} : Doing(p, r, what)  BY DEF JudgeEndpoint
  <2> QED BY <1>0, <2>1, DoingAfter
<1>b. work[p][r] = "judge"  BY DEF JudgeEndpoint
<1>2. AbsentInv'  BY <1>0, <1>u, <1>a, <1>b DEF AbsentInv
<1>3. RoomInv'  BY <1>0, <1>u, <1>a, <1>b DEF RoomInv, IsOpen, InHand
<1>4. PlaceInv'  BY <1>0, <1>u, <1>a, <1>b DEF PlaceInv
<1>5. LeaseInv'  BY <1>0, <1>u, <1>a, <1>b DEF AbsentInv, LeaseInv, IsOpen, InHand
<1>6. ChargeInv'  BY <1>0, <1>u, <1>a, <1>b DEF AbsentInv, LeaseInv, ChargeInv
<1> QED BY <1>1, <1>2, <1>3, <1>4, <1>5, <1>6 DEF HookInv

LEMMA TripBreakerStep ==
  ASSUME HookInv, NEW p \in Passes, NEW r \in Rows, TripBreaker(p, r)
  PROVE  HookInv'
<1>0. HookTypeOK /\ AbsentInv /\ RoomInv /\ PlaceInv /\ LeaseInv /\ ChargeInv
  BY DEF HookInv
<1>1. HookTypeOK'
  BY <1>0, WebhooksAssumption DEF HookTypeOK, Rows, Sweeps, Reconciler, rowVars, passVars,
    Open, Waiting, TripBreaker, Doing
<1>u. UNCHANGED << status, attempts, clock, pc, seen, picked, tester, posts, spared >>
  BY DEF TripBreaker, rowVars, passVars
<1>a. \A q \in Passes, x \in Rows :
        work'[q][x] = IF q = p /\ x = r THEN "none" ELSE work[q][x]
  BY <1>0, DoingAfter DEF TripBreaker, HookTypeOK
<1>b. work[p][r] = "trip"  BY <1>0 DEF TripBreaker, HookTypeOK, Doing
<1>2. AbsentInv'  BY <1>0, <1>u, <1>a, <1>b DEF AbsentInv
<1>3. RoomInv'  BY <1>0, <1>u, <1>a, <1>b DEF RoomInv, IsOpen, InHand
<1>4. PlaceInv'  BY <1>0, <1>u, <1>a, <1>b DEF PlaceInv
<1>5. LeaseInv'  BY <1>0, <1>u, <1>a, <1>b DEF AbsentInv, LeaseInv, IsOpen, InHand
<1>6. ChargeInv'  BY <1>0, <1>u, <1>a, <1>b DEF AbsentInv, LeaseInv, ChargeInv
<1> QED BY <1>1, <1>2, <1>3, <1>4, <1>5, <1>6 DEF HookInv

LEMMA EndPageStep == ASSUME HookInv, NEW p \in Passes, EndPage(p) PROVE HookInv'
<1>0. HookTypeOK /\ AbsentInv /\ RoomInv /\ PlaceInv /\ LeaseInv /\ ChargeInv
  BY DEF HookInv
<1>1. HookTypeOK'  BY <1>0, EndPageType
<1>u. UNCHANGED << status, attempts, picked, tester, posts, spared >>
  BY DEF EndPage, rowVars, passVars
<1>p. p \in Sweeps /\ Passes \subseteq Sweeps /\ Reconciler \notin Passes
  BY WebhooksAssumption DEF Sweeps
<1>a. \A q \in Passes, x \in Rows :
        /\ work'[q][x] = IF q = p THEN "none" ELSE work[q][x]
        /\ seen'[q][x] = IF q = p THEN 0 ELSE seen[q][x]
  BY <1>0, <1>p, ForgetAfter DEF EndPage, HookTypeOK, Release
<1>b. \A b \in Sweeps : pc'[b] = IF b = p THEN pc'[p] ELSE pc[b]
  BY <1>0, <1>p, GotoAt DEF EndPage, HookTypeOK, Release
<1>c. pc'[p] \in {"claim", "finish"}  BY <1>0, <1>p, GotoAt DEF EndPage, HookTypeOK, Release
<1>d. \A x \in Rows : work[p][x] \in {"none", "held", "back"}
  BY <1>0, <1>p DEF EndPage, HookTypeOK, Release, Forget, HeldBy, Goto, On
<1>e. \A x \in Rows : clock'[x] = clock[x] \/ work[p][x] \in {"held", "back"}
  BY <1>0, <1>p, OnAt DEF EndPage, HookTypeOK, Release, HeldBy
<1>2. AbsentInv'  BY <1>0, <1>u, <1>p, <1>a, <1>b, <1>c, <1>d, <1>e DEF AbsentInv
<1>3. RoomInv'
  BY <1>0, <1>u, <1>p, <1>a, <1>b, <1>c, <1>d, <1>e DEF RoomInv, IsOpen, InHand
<1>4. PlaceInv'  BY <1>0, <1>u, <1>p, <1>a, <1>b, <1>c, <1>d, <1>e DEF PlaceInv
<1>5. LeaseInv'
  BY <1>0, <1>u, <1>p, <1>a, <1>b, <1>c, <1>d, <1>e DEF AbsentInv, LeaseInv, IsOpen,
    InHand
<1>6. ChargeInv'
  BY <1>0, <1>u, <1>p, <1>a, <1>b, <1>c, <1>d, <1>e DEF AbsentInv, LeaseInv, ChargeInv
<1> QED BY <1>1, <1>2, <1>3, <1>4, <1>5, <1>6 DEF HookInv

LEMMA FinishStep == ASSUME HookInv, NEW p \in Passes, Finish(p) PROVE HookInv'
<1>0. HookTypeOK /\ AbsentInv /\ RoomInv /\ PlaceInv /\ LeaseInv /\ ChargeInv
  BY DEF HookInv
<1>1. HookTypeOK'
  BY <1>0, WebhooksAssumption DEF HookTypeOK, Rows, Sweeps, Reconciler, rowVars, passVars,
    Open, Waiting, Finish, Goto
<1>u. UNCHANGED << status, attempts, clock, work, seen, picked, tester, posts, spared >>
  BY DEF Finish, rowVars, passVars
<1>p. p \in Sweeps /\ Passes \subseteq Sweeps /\ Reconciler \notin Passes
  BY WebhooksAssumption DEF Sweeps
<1>a. \A b \in Sweeps : pc'[b] = IF b = p THEN "off" ELSE pc[b]
  BY <1>0, <1>p, GotoAt DEF Finish, HookTypeOK
<1>b. pc[p] = "finish"  BY <1>0, <1>p DEF Finish, HookTypeOK, Goto
<1>2. AbsentInv'  BY <1>0, <1>u, <1>p, <1>a, <1>b DEF AbsentInv
<1>3. RoomInv'  BY <1>0, <1>u, <1>p, <1>a, <1>b DEF RoomInv, IsOpen, InHand
<1>4. PlaceInv'  BY <1>0, <1>u, <1>p, <1>a, <1>b DEF PlaceInv
<1>5. LeaseInv'  BY <1>0, <1>u, <1>p, <1>a, <1>b DEF AbsentInv, LeaseInv, IsOpen, InHand
<1>6. ChargeInv'  BY <1>0, <1>u, <1>p, <1>a, <1>b DEF AbsentInv, LeaseInv, ChargeInv
<1> QED BY <1>1, <1>2, <1>3, <1>4, <1>5, <1>6 DEF HookInv

LEMMA CrashStep == ASSUME HookInv, NEW p \in Passes, Crash(p) PROVE HookInv'
<1>0. HookTypeOK /\ AbsentInv /\ RoomInv /\ PlaceInv /\ LeaseInv /\ ChargeInv
  BY DEF HookInv
<1>1. HookTypeOK'  BY <1>0, CrashType
<1>u. UNCHANGED << status, attempts, clock, tester, posts >>
  BY DEF Crash, rowVars, passVars
<1>p. p \in Sweeps /\ Passes \subseteq Sweeps /\ Reconciler \notin Passes
  BY WebhooksAssumption DEF Sweeps
<1>a. \A q \in Passes, x \in Rows :
        /\ work'[q][x] = IF q = p THEN "none" ELSE work[q][x]
        /\ seen'[q][x] = IF q = p THEN 0 ELSE seen[q][x]
  BY <1>0, <1>p, ForgetAfter DEF Crash, HookTypeOK
<1>b. \A b \in Sweeps : pc'[b] = IF b = p THEN pc'[p] ELSE pc[b]
  BY <1>0, <1>p, GotoAt DEF Crash, HookTypeOK
<1>c. pc'[p] \in {"retry", "off"}  BY <1>0, <1>p, GotoAt DEF Crash, HookTypeOK
<1>d. \A x \in Rows : spared'[x] = IF work[p][x] = "posted" THEN spared[x] + 1 ELSE spared[x]
  BY <1>0, <1>p DEF Crash, HookTypeOK, Forget, Goto
<1>e. \A b \in Sweeps : picked'[b] = IF b = p THEN {} ELSE picked[b]
  BY <1>0, <1>p DEF Crash, HookTypeOK, Forget, Goto
<1>2. AbsentInv'  BY <1>0, <1>u, <1>p, <1>a, <1>b, <1>c, <1>d, <1>e DEF AbsentInv
<1>3. RoomInv'
  BY <1>0, <1>u, <1>p, <1>a, <1>b, <1>c, <1>d, <1>e DEF RoomInv, IsOpen, InHand
<1>4. PlaceInv'  BY <1>0, <1>u, <1>p, <1>a, <1>b, <1>c, <1>d, <1>e DEF PlaceInv
<1>5. LeaseInv'
  BY <1>0, <1>u, <1>p, <1>a, <1>b, <1>c, <1>d, <1>e DEF AbsentInv, LeaseInv, IsOpen,
    InHand
<1>6. ChargeInv'
  BY <1>0, <1>u, <1>p, <1>a, <1>b, <1>c, <1>d, <1>e, CountsAreNat DEF AbsentInv, LeaseInv,
    ChargeInv
<1> QED BY <1>1, <1>2, <1>3, <1>4, <1>5, <1>6 DEF HookInv

LEMMA LeaseLapsesStep == ASSUME HookInv, NEW r \in Rows, LeaseLapses(r) PROVE HookInv'
<1>0. HookTypeOK /\ AbsentInv /\ RoomInv /\ PlaceInv /\ LeaseInv /\ ChargeInv
  BY DEF HookInv
<1>1. HookTypeOK'
  BY <1>0, WebhooksAssumption DEF HookTypeOK, Rows, Sweeps, Reconciler, rowVars, passVars,
    Open, Waiting, LeaseLapses
<1>u. UNCHANGED << status, attempts, pc, work, seen, picked, tester, posts, spared >>
  BY DEF LeaseLapses, rowVars, passVars
<1>a. \A x \in Rows : clock'[x] = IF x = r THEN "due" ELSE clock[x]
  BY <1>0 DEF LeaseLapses, HookTypeOK
<1>b. \A q \in Passes : work[q][r] = "none"  BY <1>0 DEF LeaseLapses, HookTypeOK
<1>2. AbsentInv'  BY <1>0, <1>u, <1>a, <1>b DEF AbsentInv
<1>3. RoomInv'  BY <1>0, <1>u, <1>a, <1>b DEF RoomInv, IsOpen, InHand
<1>4. PlaceInv'  BY <1>0, <1>u, <1>a, <1>b DEF PlaceInv
<1>5. LeaseInv'  BY <1>0, <1>u, <1>a, <1>b DEF AbsentInv, LeaseInv, IsOpen, InHand
<1>6. ChargeInv'  BY <1>0, <1>u, <1>a, <1>b DEF AbsentInv, LeaseInv, ChargeInv
<1> QED BY <1>1, <1>2, <1>3, <1>4, <1>5, <1>6 DEF HookInv

LEMMA ComesDueStep == ASSUME HookInv, NEW r \in Rows, ComesDue(r) PROVE HookInv'
<1>0. HookTypeOK /\ AbsentInv /\ RoomInv /\ PlaceInv /\ LeaseInv /\ ChargeInv
  BY DEF HookInv
<1>1. HookTypeOK'
  BY <1>0, WebhooksAssumption DEF HookTypeOK, Rows, Sweeps, Reconciler, rowVars, passVars,
    Open, Waiting, ComesDue
<1>u. UNCHANGED << status, attempts, pc, work, seen, picked, tester, posts, spared >>
  BY DEF ComesDue, rowVars, passVars
<1>a. \A x \in Rows : clock'[x] = IF x = r THEN "due" ELSE clock[x]
  BY <1>0 DEF ComesDue, HookTypeOK
<1>b. clock[r] = "ahead"  BY <1>0 DEF ComesDue, HookTypeOK
<1>2. AbsentInv'  BY <1>0, <1>u, <1>a, <1>b DEF AbsentInv
<1>3. RoomInv'  BY <1>0, <1>u, <1>a, <1>b DEF RoomInv, IsOpen, InHand
<1>4. PlaceInv'  BY <1>0, <1>u, <1>a, <1>b DEF PlaceInv
<1>5. LeaseInv'  BY <1>0, <1>u, <1>a, <1>b DEF AbsentInv, LeaseInv, IsOpen, InHand
<1>6. ChargeInv'  BY <1>0, <1>u, <1>a, <1>b DEF AbsentInv, LeaseInv, ChargeInv
<1> QED BY <1>1, <1>2, <1>3, <1>4, <1>5, <1>6 DEF HookInv

LEMMA AgesStep == ASSUME HookInv, NEW r \in Rows, Ages(r) PROVE HookInv'
<1>0. HookTypeOK /\ AbsentInv /\ RoomInv /\ PlaceInv /\ LeaseInv /\ ChargeInv
  BY DEF HookInv
<1>1. HookTypeOK'
  BY <1>0, WebhooksAssumption DEF HookTypeOK, Rows, Sweeps, Reconciler, rowVars, passVars,
    Open, Waiting, Ages
<1>u. UNCHANGED << status, attempts, clock, pc, work, seen, picked, tester, posts, spared >>
  BY DEF Ages, rowVars, passVars
<1>2. AbsentInv'  BY <1>0, <1>u DEF AbsentInv
<1>3. RoomInv'  BY <1>0, <1>u DEF RoomInv, IsOpen, InHand
<1>4. PlaceInv'  BY <1>0, <1>u DEF PlaceInv
<1>5. LeaseInv'  BY <1>0, <1>u DEF AbsentInv, LeaseInv, IsOpen, InHand
<1>6. ChargeInv'  BY <1>0, <1>u DEF AbsentInv, LeaseInv, ChargeInv
<1> QED BY <1>1, <1>2, <1>3, <1>4, <1>5, <1>6 DEF HookInv

LEMMA ReconcilePickStep == ASSUME HookInv, ReconcilePick PROVE HookInv'
<1>0. HookTypeOK /\ AbsentInv /\ RoomInv /\ PlaceInv /\ LeaseInv /\ ChargeInv
  BY DEF HookInv
<1>1. HookTypeOK'
  BY <1>0, WebhooksAssumption DEF HookTypeOK, Rows, Sweeps, Reconciler, rowVars, passVars,
    Open, Waiting, ReconcilePick, Goto
<1>u. UNCHANGED << status, attempts, clock, work, seen, tester, posts, spared >>
  BY DEF ReconcilePick, rowVars, passVars
<1>p. Reconciler \in Sweeps /\ Passes \subseteq Sweeps /\ Reconciler \notin Passes
  BY WebhooksAssumption DEF Sweeps
<1>a. \A b \in Sweeps : pc'[b] = IF b = Reconciler THEN "settle" ELSE pc[b]
  BY <1>0, <1>p, GotoAt DEF ReconcilePick, HookTypeOK
<1>b. \A b \in Sweeps : picked'[b] \subseteq picked[b] \cup Waiting
  BY <1>0, <1>p DEF ReconcilePick, HookTypeOK, Goto
<1>2. AbsentInv'  BY <1>0, <1>u, <1>p, <1>a, <1>b DEF AbsentInv, Waiting, Open
<1>3. RoomInv'  BY <1>0, <1>u, <1>p, <1>a, <1>b DEF RoomInv, IsOpen, InHand
<1>4. PlaceInv'  BY <1>0, <1>u, <1>p, <1>a, <1>b DEF PlaceInv
<1>5. LeaseInv'  BY <1>0, <1>u, <1>p, <1>a, <1>b DEF AbsentInv, LeaseInv, IsOpen, InHand
<1>6. ChargeInv'  BY <1>0, <1>u, <1>p, <1>a, <1>b DEF AbsentInv, LeaseInv, ChargeInv
<1> QED BY <1>1, <1>2, <1>3, <1>4, <1>5, <1>6 DEF HookInv

LEMMA ReconcileArmStep == ASSUME HookInv, ReconcileArm PROVE HookInv'
<1>0. HookTypeOK /\ AbsentInv /\ RoomInv /\ PlaceInv /\ LeaseInv /\ ChargeInv
  BY DEF HookInv
<1>1. HookTypeOK'
  BY <1>0, WebhooksAssumption DEF HookTypeOK, Rows, Sweeps, Reconciler, rowVars, passVars,
    Open, Waiting, ReconcileArm, ExhaustPicked, Arms, Goto, On
<1>u. UNCHANGED << attempts, work, seen, tester, posts, spared >>
  BY DEF ReconcileArm, rowVars, passVars, ExhaustPicked
<1>p. Reconciler \in Sweeps /\ Passes \subseteq Sweeps /\ Reconciler \notin Passes
  BY WebhooksAssumption DEF Sweeps
<1>a. \A b \in Sweeps : pc'[b] = IF b = Reconciler THEN "off" ELSE pc[b]
  BY <1>0, <1>p, GotoAt DEF ReconcileArm, HookTypeOK, ExhaustPicked
<1>b. \A x \in Rows : status'[x] = IF x \in picked[Reconciler] THEN "exhausted" ELSE status[x]
  BY <1>0, <1>p, OnAt DEF ReconcileArm, HookTypeOK, ExhaustPicked
<1>c. \A x \in Rows : clock'[x] = IF x \in picked[Reconciler] THEN "none" ELSE clock[x]
  BY <1>0, <1>p, OnAt DEF ReconcileArm, HookTypeOK, ExhaustPicked
<1>d. \A b \in Sweeps : picked'[b] = IF b = Reconciler THEN {} ELSE picked[b]
  BY <1>0, <1>p DEF ReconcileArm, HookTypeOK, ExhaustPicked, Goto, On
<1>2. AbsentInv'  BY <1>0, <1>u, <1>p, <1>a, <1>b, <1>c, <1>d DEF AbsentInv
<1>3. RoomInv'  BY <1>0, <1>u, <1>p, <1>a, <1>b, <1>c, <1>d DEF RoomInv, IsOpen, InHand
<1>4. PlaceInv'  BY <1>0, <1>u, <1>p, <1>a, <1>b, <1>c, <1>d DEF PlaceInv
<1>5. LeaseInv'
  BY <1>0, <1>u, <1>p, <1>a, <1>b, <1>c, <1>d DEF AbsentInv, LeaseInv, IsOpen, InHand
<1>6. ChargeInv'
  BY <1>0, <1>u, <1>p, <1>a, <1>b, <1>c, <1>d DEF AbsentInv, LeaseInv, ChargeInv
<1> QED BY <1>1, <1>2, <1>3, <1>4, <1>5, <1>6 DEF HookInv

LEMMA EmitStep == ASSUME HookInv, NEW r \in Rows, Emit(r) PROVE HookInv'
<1>0. HookTypeOK /\ AbsentInv /\ RoomInv /\ PlaceInv /\ LeaseInv /\ ChargeInv
  BY DEF HookInv
<1>1. HookTypeOK'
  BY <1>0, WebhooksAssumption DEF HookTypeOK, Rows, Sweeps, Reconciler, rowVars, passVars,
    Open, Waiting, Emit, Insert, On
<1>u. UNCHANGED << attempts, pc, work, seen, picked, tester, posts, spared >>
  BY DEF Emit, rowVars, passVars, Insert
<1>a. \A x \in Rows : status'[x] = IF x = r THEN "pending" ELSE status[x]
  BY <1>0, OnAt DEF Emit, HookTypeOK, Insert
<1>b. \A x \in Rows : clock'[x] = IF x = r THEN "due" ELSE clock[x]
  BY <1>0, OnAt DEF Emit, HookTypeOK, Insert
<1>c. status[r] = "absent"  BY <1>0 DEF Emit, HookTypeOK, Insert, On
<1>2. AbsentInv'  BY <1>0, <1>u, <1>a, <1>b, <1>c DEF AbsentInv
<1>3. RoomInv'
  BY <1>0, <1>u, <1>a, <1>b, <1>c, WebhooksAssumption DEF RoomInv, IsOpen, InHand,
    AbsentInv
<1>4. PlaceInv'  BY <1>0, <1>u, <1>a, <1>b, <1>c DEF PlaceInv
<1>5. LeaseInv'  BY <1>0, <1>u, <1>a, <1>b, <1>c DEF AbsentInv, LeaseInv, IsOpen, InHand
<1>6. ChargeInv'
  BY <1>0, <1>u, <1>a, <1>b, <1>c, CountsAreNat DEF AbsentInv, LeaseInv, ChargeInv
<1> QED BY <1>1, <1>2, <1>3, <1>4, <1>5, <1>6 DEF HookInv

LEMMA ArmStep == ASSUME HookInv, Arm PROVE HookInv'
<1>0. HookTypeOK /\ AbsentInv /\ RoomInv /\ PlaceInv /\ LeaseInv /\ ChargeInv
  BY DEF HookInv
<1>1. HookTypeOK'
  BY <1>0, WebhooksAssumption DEF HookTypeOK, Rows, Sweeps, Reconciler, rowVars, passVars,
    Open, Waiting, Arm
<1>u. UNCHANGED << status, attempts, clock, pc, work, seen, picked, tester, posts, spared >>
  BY DEF Arm, rowVars, passVars
<1>2. AbsentInv'  BY <1>0, <1>u DEF AbsentInv
<1>3. RoomInv'  BY <1>0, <1>u DEF RoomInv, IsOpen, InHand
<1>4. PlaceInv'  BY <1>0, <1>u DEF PlaceInv
<1>5. LeaseInv'  BY <1>0, <1>u DEF AbsentInv, LeaseInv, IsOpen, InHand
<1>6. ChargeInv'  BY <1>0, <1>u DEF AbsentInv, LeaseInv, ChargeInv
<1> QED BY <1>1, <1>2, <1>3, <1>4, <1>5, <1>6 DEF HookInv

LEMMA SwitchEndpointStep ==
  ASSUME HookInv, NEW to \in {"enabled", "disabled"}, SwitchEndpoint(to)
  PROVE  HookInv'
<1>0. HookTypeOK /\ AbsentInv /\ RoomInv /\ PlaceInv /\ LeaseInv /\ ChargeInv
  BY DEF HookInv
<1>1. HookTypeOK'  BY <1>0, SwitchEndpointType
<1>u. UNCHANGED << status, attempts, clock, pc, work, seen, picked, tester, posts, spared >>
  BY DEF SwitchEndpoint, rowVars, passVars
<1>2. AbsentInv'  BY <1>0, <1>u DEF AbsentInv
<1>3. RoomInv'  BY <1>0, <1>u DEF RoomInv, IsOpen, InHand
<1>4. PlaceInv'  BY <1>0, <1>u DEF PlaceInv
<1>5. LeaseInv'  BY <1>0, <1>u DEF AbsentInv, LeaseInv, IsOpen, InHand
<1>6. ChargeInv'  BY <1>0, <1>u DEF AbsentInv, LeaseInv, ChargeInv
<1> QED BY <1>1, <1>2, <1>3, <1>4, <1>5, <1>6 DEF HookInv

LEMMA StartTestStep == ASSUME HookInv, NEW r \in Tests, StartTest(r) PROVE HookInv'
<1>0. HookTypeOK /\ AbsentInv /\ RoomInv /\ PlaceInv /\ LeaseInv /\ ChargeInv
  BY DEF HookInv
<1>1. HookTypeOK'
  BY <1>0, WebhooksAssumption DEF HookTypeOK, Rows, Sweeps, Reconciler, rowVars, passVars,
    Open, Waiting, StartTest, Insert, On
<1>u. UNCHANGED << attempts, pc, work, seen, picked, posts, spared >>
  BY DEF StartTest, rowVars, passVars, Insert
<1>r. r \in Rows  BY DEF Rows
<1>a. \A x \in Rows : status'[x] = IF x = r THEN "pending" ELSE status[x]
  BY <1>0, <1>r, OnAt DEF StartTest, HookTypeOK, Insert
<1>b. \A x \in Rows : clock'[x] = IF x = r THEN "due" ELSE clock[x]
  BY <1>0, <1>r, OnAt DEF StartTest, HookTypeOK, Insert
<1>c. \A x \in Rows : tester'[x] = IF x = r THEN "written" ELSE tester[x]
  BY <1>0, <1>r DEF StartTest, HookTypeOK, Insert, On
<1>d. status[r] = "absent"  BY <1>0, <1>r DEF StartTest, HookTypeOK, Insert, On
<1>2. AbsentInv'  BY <1>0, <1>u, <1>r, <1>a, <1>b, <1>c, <1>d DEF AbsentInv
<1>3. RoomInv'
  BY <1>0, <1>u, <1>r, <1>a, <1>b, <1>c, <1>d, WebhooksAssumption DEF RoomInv, IsOpen,
    InHand, AbsentInv
<1>4. PlaceInv'  BY <1>0, <1>u, <1>r, <1>a, <1>b, <1>c, <1>d DEF PlaceInv
<1>5. LeaseInv'
  BY <1>0, <1>u, <1>r, <1>a, <1>b, <1>c, <1>d DEF AbsentInv, LeaseInv, IsOpen, InHand
<1>6. ChargeInv'
  BY <1>0, <1>u, <1>r, <1>a, <1>b, <1>c, <1>d, CountsAreNat DEF AbsentInv, LeaseInv,
    ChargeInv
<1> QED BY <1>1, <1>2, <1>3, <1>4, <1>5, <1>6 DEF HookInv

LEMMA EndTestStep ==
  ASSUME HookInv, NEW r \in Tests, NEW ok \in BOOLEAN, EndTest(r, ok)
  PROVE  HookInv'
<1>0. HookTypeOK /\ AbsentInv /\ RoomInv /\ PlaceInv /\ LeaseInv /\ ChargeInv
  BY DEF HookInv
<1>1. HookTypeOK'  BY <1>0, EndTestType
<1>u. UNCHANGED << pc, work, seen, picked, posts, spared >>
  BY DEF EndTest, rowVars, passVars
<1>r. r \in Rows  BY DEF Rows
<1>a. \A x \in Rows : status'[x] = IF x = r THEN status'[r] ELSE status[x]
  BY <1>0, <1>r DEF EndTest, HookTypeOK
<1>b. \A x \in Rows : attempts'[x] = IF x = r THEN 1 ELSE attempts[x]
  BY <1>0, <1>r DEF EndTest, HookTypeOK
<1>c. \A x \in Rows : clock'[x] = IF x = r THEN "none" ELSE clock[x]
  BY <1>0, <1>r DEF EndTest, HookTypeOK
<1>d. \A x \in Rows : tester'[x] = IF x = r THEN "done" ELSE tester[x]
  BY <1>0, <1>r DEF EndTest, HookTypeOK
<1>e. status'[r] \in {"success", "failed"} /\ tester[r] = "written"
  BY <1>0, <1>r DEF EndTest, HookTypeOK
<1>2. AbsentInv'  BY <1>0, <1>u, <1>r, <1>a, <1>b, <1>c, <1>d, <1>e DEF AbsentInv
<1>m. 1 < MaxAttempts  BY WebhooksAssumption
<1>3. RoomInv'
  BY <1>0, <1>u, <1>r, <1>a, <1>b, <1>c, <1>d, <1>e, <1>m DEF RoomInv, IsOpen, InHand
<1>4. PlaceInv'  BY <1>0, <1>u, <1>r, <1>a, <1>b, <1>c, <1>d, <1>e DEF PlaceInv
<1>5. LeaseInv'
  BY <1>0, <1>u, <1>r, <1>a, <1>b, <1>c, <1>d, <1>e DEF AbsentInv, LeaseInv, IsOpen,
    InHand
<1>6. ChargeInv'
  BY <1>0, <1>u, <1>r, <1>a, <1>b, <1>c, <1>d, <1>e DEF AbsentInv, LeaseInv, ChargeInv
<1> QED BY <1>1, <1>2, <1>3, <1>4, <1>5, <1>6 DEF HookInv

LEMMA HookInitInv == ASSUME HookInit PROVE HookInv
<1>1. HookTypeOK
  <2>1. /\ 0 \in 0..MaxAttempts /\ 0 \in 0..Mishaps /\ 0 \in 0..Switches
        /\ {} \in SUBSET Rows
    BY WebhooksAssumption
  <2>2. PcOK /\ WorkOK /\ SeenOK /\ ClockOK /\ StatusOK /\ PickedOK /\ StopOK
    BY <2>1 DEF HookInit, PcOK, WorkOK, SeenOK, ClockOK, StatusOK, PickedOK, StopOK,
      Places, Marks
  <2> QED
    BY <2>1, <2>2 DEF HookInit, HookTypeOK, PcOK, WorkOK, SeenOK, ClockOK, StatusOK,
      PickedOK, StopOK, Places, Marks
<1>2. AbsentInv /\ RoomInv /\ PlaceInv /\ LeaseInv /\ ChargeInv
  BY WebhooksAssumption
  DEF HookInit, AbsentInv, RoomInv, PlaceInv, LeaseInv, ChargeInv, IsOpen, InHand, Sweeps
<1> QED BY <1>1, <1>2 DEF HookInv

LEMMA HookStutter == ASSUME HookInv, UNCHANGED hookVars PROVE HookInv'
<1>1. HookTypeOK'
  BY DEF HookInv, HookTypeOK, hookVars
<1>2. AbsentInv' /\ RoomInv' /\ PlaceInv' /\ LeaseInv' /\ ChargeInv'
  BY DEF HookInv, AbsentInv, RoomInv, PlaceInv, LeaseInv, ChargeInv, IsOpen, hookVars
<1> QED BY <1>1, <1>2 DEF HookInv

LEMMA HookNextInv == ASSUME HookInv, [HookNext]_hookVars PROVE HookInv'
<1>1. ASSUME NEW p \in Passes, Fetch(p) PROVE HookInv'  BY <1>1, FetchStep
<1>2. ASSUME NEW p \in Passes, PassStep(p) PROVE HookInv'
  <2>1. CASE Retry(p)  BY <2>1, RetryStep
  <2>2. CASE Settle(p)  BY <2>2, SettleStep
  <2>3. CASE ClaimDue(p)  BY <2>3, ClaimDueStep
  <2>4. CASE CheckEndpoint(p)  BY <2>4, CheckEndpointStep
  <2>5. CASE EndPage(p)  BY <2>5, EndPageStep
  <2>6. CASE Finish(p)  BY <2>6, FinishStep
  <2>7. ASSUME NEW r \in Rows, TakeRow(p, r) PROVE HookInv'  BY <2>7, TakeRowStep
  <2>8. ASSUME NEW r \in Rows, PostRow(p, r) PROVE HookInv'  BY <2>8, PostRowStep
  <2>9. ASSUME NEW r \in Rows, JudgeEndpoint(p, r) PROVE HookInv'
    BY <2>9, JudgeEndpointStep
  <2>10. ASSUME NEW r \in Rows, TripBreaker(p, r) PROVE HookInv'  BY <2>10, TripBreakerStep
  <2>11. ASSUME NEW r \in Rows, NEW ok \in BOOLEAN, Answered(p, r, ok) PROVE HookInv'
    BY <2>11, AnsweredStep
  <2> QED
    BY <1>2, <2>1, <2>2, <2>3, <2>4, <2>5, <2>6, <2>7, <2>8, <2>9, <2>10, <2>11
    DEF PassStep
<1>3. CASE Reconcile  BY <1>3, ReconcilePickStep, ReconcileArmStep DEF Reconcile
<1>4. ASSUME NEW r \in Rows, Passing(r) PROVE HookInv'
  BY <1>4, LeaseLapsesStep, ComesDueStep DEF Passing
<1>5. ASSUME NEW r \in Rows, Emit(r) PROVE HookInv'  BY <1>5, EmitStep
<1>6. CASE Arm  BY <1>6, ArmStep
<1>7. CASE Surroundings
  <2>1. ASSUME NEW p \in Passes, Crash(p) PROVE HookInv'  BY <2>1, CrashStep
  <2>2. ASSUME NEW p \in Passes, RunOut(p) PROVE HookInv'  BY <2>2, RunOutStep
  <2>3. ASSUME NEW p \in Passes, NEW r \in Rows, Throttled(p, r) PROVE HookInv'
    BY <2>3, ThrottledStep
  <2>4. ASSUME NEW r \in Rows, Ages(r) PROVE HookInv'  BY <2>4, AgesStep
  <2>5. ASSUME NEW to \in {"enabled", "disabled"}, SwitchEndpoint(to) PROVE HookInv'
    BY <2>5, SwitchEndpointStep
  <2>6. ASSUME NEW t \in Tests, StartTest(t) PROVE HookInv'  BY <2>6, StartTestStep
  <2>7. ASSUME NEW t \in Tests, NEW ok \in BOOLEAN, EndTest(t, ok) PROVE HookInv'
    BY <2>7, EndTestStep
  <2> QED BY <1>7, <2>1, <2>2, <2>3, <2>4, <2>5, <2>6, <2>7 DEF Surroundings
<1>8. CASE UNCHANGED hookVars  BY <1>8, HookStutter
<1> QED BY <1>1, <1>2, <1>3, <1>4, <1>5, <1>6, <1>7, <1>8 DEF HookNext, FetchDrain

LEMMA ChargedRowByRow == ASSUME HookInv PROVE PostsAreCharged
<1> SUFFICES ASSUME NEW r \in Rows \ Tested
             PROVE  posts[r] = attempts[r] + spared[r] + (IF InFlight(r) = {} THEN 0 ELSE 1)
  BY DEF PostsAreCharged
<1>1. tester[r] = "idle" /\ ChargeInv /\ HookTypeOK  BY DEF HookInv, Tested
<1>2. CASE InFlight(r) = {}
  <2>1. \A p \in Passes : work[p][r] # "posted"  BY <1>2 DEF InFlight
  <2> QED BY <1>1, <1>2, <2>1, CountsAreNat DEF ChargeInv
<1>3. CASE InFlight(r) # {}
  <2>1. \E p \in Passes : work[p][r] = "posted"  BY <1>3 DEF InFlight
  <2> QED BY <1>1, <1>3, <2>1, CountsAreNat DEF ChargeInv
<1> QED BY <1>2, <1>3

\* Every step but PostRow leaves the posts as they are.
LEMMA OnlyPostRowPosts ==
  ASSUME HookNext, ~(\E p \in Passes, r \in Rows : PostRow(p, r))
  PROVE  UNCHANGED posts
<1>1. ASSUME NEW p \in Passes, PassStep(p) PROVE UNCHANGED posts
  BY <1>1 DEF PassStep, Retry, Settle, ClaimDue, CheckEndpoint, EndPage, Finish, TakeRow,
    JudgeEndpoint, TripBreaker, Answered
<1>2. CASE Surroundings
  BY <1>2 DEF Surroundings, Crash, RunOut, Throttled, Ages, SwitchEndpoint, StartTest, EndTest
<1> QED
  BY <1>1, <1>2 DEF HookNext, FetchDrain, Fetch, Reconcile, ReconcilePick, ReconcileArm,
    Passing, LeaseLapses, ComesDue, Emit, Arm

LEMMA PostsOnlyOpen ==
  ASSUME HookInv, [HookNext]_hookVars, NEW r \in Rows \ Tested, posts'[r] > posts[r]
  PROVE  status[r] # "success"
<1>0. HookTypeOK /\ LeaseInv  BY DEF HookInv
<1>1. posts' # posts  BY <1>0, CountsAreNat
<1>2. HookNext  BY <1>1 DEF hookVars
<1>3. PICK p \in Passes, x \in Rows : PostRow(p, x)  BY <1>1, <1>2, OnlyPostRowPosts
<1>4. x = r
  <2>1. x # r => posts'[r] = posts[r]  BY <1>0, <1>3 DEF PostRow, HookTypeOK
  <2> QED BY <2>1, <1>0, CountsAreNat
<1>5. work[p][r] = "taken" /\ tester[r] = "idle"  BY <1>3, <1>4 DEF PostRow, Tested
<1> QED BY <1>0, <1>5 DEF LeaseInv, IsOpen

\* HookTypeOK is an invariant of the component: the attempts of a row never
\* pass WEBHOOK_MAX_ATTEMPTS, whatever the passes, the sweep, the console and
\* the crashes do.
THEOREM HookTypeCorrect == HookSpec => []HookTypeOK
<1>1. HookInv => HookTypeOK  BY DEF HookInv
<1> QED BY <1>1, HookInitInv, HookNextInv, PTL DEF HookSpec

\* PostsAreCharged is an invariant: every post of an event's delivery charged
\* one attempt, met a 429, died with its pass, or is the one in flight.
THEOREM EveryPostCharged == HookSpec => []PostsAreCharged
<1> QED BY ChargedRowByRow, HookInitInv, HookNextInv, PTL DEF HookSpec

\* NoPostAfterSuccess holds of every step: the lease keeps a pass from posting
\* what another pass has seen delivered.
THEOREM NeverPostedTwice == HookSpec => NoPostAfterSuccess
<1>1. HookInv /\ [HookNext]_hookVars =>
        [\A r \in Rows \ Tested : posts'[r] > posts[r] => status[r] # "success"]_hookVars
  BY PostsOnlyOpen
<1> QED BY <1>1, HookInitInv, HookNextInv, PTL DEF HookSpec, NoPostAfterSuccess
-----------------------------------------------------------------------------
(* TripsOnFailures: what the breaker counts was posted.                     *)

\* Rows the receiver failed, test rows with their request's own post.
Failing == { r \in Rows : PostsOf(r) >= MaxAttempts \/ spared[r] > 0 }

\* No count runs ahead of the posts behind it, a row's or a pass's copy of it,
\* and a pass about to trip the breaker has seen enough failures.
BlameInv ==
  /\ \A r \in Rows : attempts[r] <= PostsOf(r)
  /\ \A r \in Rows : asked[r] => spared[r] > 0
  /\ \A p \in Passes, r \in Rows :
       /\ seen[p][r] <= PostsOf(r)
       /\ work[p][r] = "posted" => seen[p][r] < PostsOf(r)
       /\ work[p][r] = "trip" => Cardinality(Failing) >= DisableAfter

\* A step that posts nothing, charges nothing and puts no row to the breaker.
Meek ==
  /\ UNCHANGED << attempts, asked, tester, posts, spared >>
  /\ \A p \in Passes, r \in Rows :
       /\ seen'[p][r] \in {seen[p][r], attempts[r], 0}
       /\ work'[p][r] = "posted" => work[p][r] = "posted" /\ seen'[p][r] = seen[p][r]
       /\ work'[p][r] = "trip" => work[p][r] = "trip"

LEMMA PostsOfNat == ASSUME HookTypeOK PROVE \A r \in Rows : PostsOf(r) \in Nat
BY CountsAreNat DEF PostsOf

LEMMA FailingIsFinite == IsFiniteSet(Failing) /\ IsFiniteSet(Failing')
<1>1. IsFiniteSet(Rows)  BY FS_Union, WebhooksAssumption DEF Rows
<1> QED BY <1>1, FS_Subset DEF Failing

\* What failed stays failed, for posts, spared and Tested only grow.
LEMMA FailingGrows ==
  ASSUME HookTypeOK, HookTypeOK',
         \A r \in Rows : PostsOf(r) <= PostsOf(r)' /\ spared[r] <= spared'[r]
  PROVE  Cardinality(Failing) <= Cardinality(Failing')
<1>1. Failing \subseteq Failing'
  <2> SUFFICES ASSUME NEW r \in Failing PROVE r \in Failing'
    OBVIOUS
  <2>1. r \in Rows /\ (PostsOf(r) >= MaxAttempts \/ spared[r] > 0)  BY DEF Failing
  <2>2. /\ PostsOf(r) \in Nat /\ PostsOf(r)' \in Nat /\ MaxAttempts \in Nat
        /\ spared[r] \in Nat /\ spared'[r] \in Nat
    BY <2>1, PostsOfNat, WebhooksAssumption DEF PostsOf, HookTypeOK
  <2>3. PostsOf(r)' >= MaxAttempts \/ spared'[r] > 0  BY <2>1, <2>2
  <2> QED BY <2>1, <2>3 DEF Failing
<1> QED BY <1>1, FailingIsFinite, FS_Subset

\* BlameInv stands if the posts grow, and what a step changes it accounts for.
LEMMA BlameKept ==
  ASSUME HookTypeOK, HookTypeOK', BlameInv,
         \A r \in Rows :
           /\ PostsOf(r) <= PostsOf(r)' /\ spared[r] <= spared'[r]
           /\ attempts'[r] = attempts[r] \/ attempts'[r] <= PostsOf(r)'
           /\ asked'[r] => asked[r] \/ spared'[r] > 0,
         \A p \in Passes, r \in Rows :
           /\ seen'[p][r] \in {seen[p][r], attempts[r], 0}
           /\ work'[p][r] = "posted" =>
                \/ work[p][r] = "posted" /\ seen'[p][r] = seen[p][r]
                \/ seen'[p][r] < PostsOf(r)'
           /\ work'[p][r] = "trip" =>
                work[p][r] = "trip" \/ Cardinality(Failing) >= DisableAfter
  PROVE  BlameInv'
<1>1. \A r \in Rows :
        /\ PostsOf(r) \in Nat /\ PostsOf(r)' \in Nat
        /\ attempts[r] \in Nat /\ attempts'[r] \in Nat
        /\ spared[r] \in Nat /\ spared'[r] \in Nat
        /\ \A p \in Passes : seen[p][r] \in Nat /\ seen'[p][r] \in Nat
  BY PostsOfNat, WebhooksAssumption DEF HookTypeOK, PostsOf
<1>2. \A r \in Rows : attempts'[r] <= PostsOf(r)'  BY <1>1 DEF BlameInv
<1>3. \A r \in Rows : asked'[r] => spared'[r] > 0  BY <1>1 DEF BlameInv
<1>4. \A p \in Passes, r \in Rows :
        /\ seen'[p][r] <= PostsOf(r)'
        /\ work'[p][r] = "posted" => seen'[p][r] < PostsOf(r)'
  BY <1>1 DEF BlameInv
<1>5. \A p \in Passes, r \in Rows :
        work'[p][r] = "trip" => Cardinality(Failing') >= DisableAfter
  <2>1. Cardinality(Failing) \in Nat /\ Cardinality(Failing') \in Nat
    BY FailingIsFinite, FS_CardinalityType
  <2>2. Cardinality(Failing) <= Cardinality(Failing')  BY FailingGrows
  <2>3. DisableAfter \in Nat  BY WebhooksAssumption
  <2> QED BY <2>1, <2>2, <2>3 DEF BlameInv
<1> QED BY <1>2, <1>3, <1>4, <1>5 DEF BlameInv

LEMMA MeekKeepsBlame ==
  ASSUME HookTypeOK, HookTypeOK', BlameInv, Meek PROVE BlameInv'
<1>1. \A r \in Rows : PostsOf(r)' = PostsOf(r)  BY DEF Meek, PostsOf, Tested
<1>2. \A r \in Rows : PostsOf(r) \in Nat /\ spared[r] \in Nat
  BY PostsOfNat, CountsAreNat
<1> QED BY <1>1, <1>2, BlameKept DEF Meek

LEMMA PassStepMeek ==
  ASSUME HookInv, NEW p \in Passes, PassStep(p),
         ~ \E r \in Rows : \/ PostRow(p, r) \/ JudgeEndpoint(p, r)
                           \/ \E ok \in BOOLEAN : Answered(p, r, ok)
  PROVE  Meek
<1>0. HookTypeOK /\ PlaceInv  BY DEF HookInv
<1>1. CASE Retry(p) \/ Settle(p)
  BY <1>0, <1>1 DEF Retry, Settle, ExhaustPicked, rowVars, Meek, HookTypeOK
<1>2. CASE ClaimDue(p)
  <2>1. \A q \in Passes, x \in Rows :
          /\ work'[q][x] \in {work[q][x], "held"}
          /\ seen'[q][x] = IF q = p THEN attempts[x] ELSE seen[q][x]
    BY <1>0, <1>2, OnAt DEF ClaimDue, HookTypeOK
  <2>2. \A x \in Rows : work[p][x] = "none"  BY <1>0, <1>2 DEF PlaceInv, ClaimDue
  <2>3. \A x \in Rows : work'[p][x] \in {"none", "held"}  BY <2>1, <2>2
  <2> QED BY <1>2, <2>1, <2>3 DEF ClaimDue, Meek
<1>3. CASE CheckEndpoint(p) \/ EndPage(p)
  <2>1. UNCHANGED << work, seen >> \/ Forget(p)
    BY <1>3 DEF CheckEndpoint, EndPage, Release
  <2>2. CASE UNCHANGED << work, seen >>
    BY <1>3, <2>2 DEF CheckEndpoint, EndPage, Meek
  <2>3. CASE Forget(p)
    BY <1>0, <1>3, <2>3, ForgetAfter DEF CheckEndpoint, EndPage, Meek
  <2> QED BY <2>1, <2>2, <2>3
<1>4. CASE Finish(p)
  BY <1>0, <1>4 DEF Finish, rowVars, Meek
<1>5. ASSUME NEW r \in Rows, TakeRow(p, r) \/ TripBreaker(p, r) PROVE Meek
  <2>1. PICK what \in {"none", "taken"} : Doing(p, r, what)
    BY <1>5 DEF TakeRow, TripBreaker
  <2>2. UNCHANGED << attempts, asked, tester, posts, spared, seen >>
    BY <1>5 DEF TakeRow, TripBreaker, rowVars
  <2> QED BY <1>0, <2>1, <2>2, DoingAfter DEF Meek
<1> QED BY <1>1, <1>2, <1>3, <1>4, <1>5 DEF PassStep

LEMMA OthersMeek ==
  ASSUME HookInv,
         \/ FetchDrain \/ Reconcile \/ Arm
         \/ \E r \in Rows : Passing(r) \/ Emit(r) \/ Ages(r)
         \/ \E p \in Passes : RunOut(p)
         \/ \E to \in {"enabled", "disabled"} : SwitchEndpoint(to)
  PROVE  Meek
<1>1. UNCHANGED << attempts, asked, tester, posts, spared, work, seen >>
  <2>1. CASE FetchDrain \/ Reconcile \/ Arm
    BY <2>1 DEF FetchDrain, Fetch, Reconcile, ReconcilePick, ReconcileArm, Arm, rowVars,
      passVars
  <2>2. ASSUME NEW r \in Rows, Passing(r) \/ Emit(r) \/ Ages(r)
        PROVE  UNCHANGED << attempts, asked, tester, posts, spared, work, seen >>
    BY <2>2 DEF Passing, LeaseLapses, ComesDue, Emit, Ages, rowVars, passVars
  <2>3. ASSUME NEW p \in Passes, RunOut(p)
        PROVE  UNCHANGED << attempts, asked, tester, posts, spared, work, seen >>
    BY <2>3 DEF RunOut, rowVars
  <2>4. ASSUME NEW to, SwitchEndpoint(to)
        PROVE  UNCHANGED << attempts, asked, tester, posts, spared, work, seen >>
    BY <2>4 DEF SwitchEndpoint, rowVars, passVars
  <2> QED BY <2>1, <2>2, <2>3, <2>4
<1> QED BY <1>1 DEF Meek

LEMMA PostRowBlame ==
  ASSUME HookTypeOK, HookTypeOK', BlameInv, NEW p \in Passes, NEW r \in Rows, PostRow(p, r)
  PROVE  BlameInv'
<1>1. UNCHANGED << attempts, asked, tester, spared, seen >>  BY DEF PostRow, rowVars
<1>2. CASE stop[p] = "none"
  <2>1. Doing(p, r, "posted") /\ posts' = [posts EXCEPT ![r] = @ + 1]
    BY <1>2 DEF PostRow
  <2>2. \A x \in Rows : posts'[x] = IF x = r THEN posts[x] + 1 ELSE posts[x]
    BY <2>1 DEF HookTypeOK
  <2>3. \A x \in Rows : PostsOf(x)' = IF x = r THEN PostsOf(x) + 1 ELSE PostsOf(x)
    BY <1>1, <2>2, CountsAreNat DEF PostsOf, Tested
  <2>4. seen'[p][r] < PostsOf(r)'
    BY <1>1, <2>3, PostsOfNat, CountsAreNat DEF BlameInv
  <2>5. \A q \in Passes, x \in Rows :
          work'[q][x] = IF q = p /\ x = r THEN "posted" ELSE work[q][x]
    BY <2>1, DoingAfter
  <2>6. \A x \in Rows : PostsOf(x) <= PostsOf(x)' /\ spared[x] <= spared'[x]
    BY <1>1, <2>3, PostsOfNat, CountsAreNat
  <2> QED BY <1>1, <2>4, <2>5, <2>6, BlameKept
<1>3. CASE stop[p] # "none"
  <2>1. Doing(p, r, "back") /\ posts' = posts  BY <1>3 DEF PostRow
  <2>2. Meek  BY <1>1, <2>1, DoingAfter DEF Meek
  <2> QED BY <2>2, MeekKeepsBlame
<1> QED BY <1>2, <1>3

LEMMA ThrottledBlame ==
  ASSUME HookTypeOK, HookTypeOK', BlameInv, NEW p \in Passes, NEW r \in Rows, Throttled(p, r)
  PROVE  BlameInv'
<1>1. UNCHANGED << attempts, tester, posts, seen >>  BY DEF Throttled
<1>2. \A x \in Rows : PostsOf(x)' = PostsOf(x)  BY <1>1 DEF PostsOf, Tested
<1>3. \A x \in Rows : spared'[x] = IF x = r THEN spared[x] + 1 ELSE spared[x]
  BY DEF Throttled, HookTypeOK
<1>4. \A x \in Rows : asked'[x] => asked[x] \/ x = r
  BY DEF Throttled, HookTypeOK
<1>5. \A q \in Passes, x \in Rows :
        work'[q][x] = IF q = p /\ x = r THEN "none" ELSE work[q][x]
  BY DoingAfter DEF Throttled
<1>6. \A x \in Rows : PostsOf(x) <= PostsOf(x)' /\ spared[x] <= spared'[x]
  BY <1>2, <1>3, PostsOfNat, CountsAreNat
<1>7. \A x \in Rows : asked'[x] => asked[x] \/ spared'[x] > 0
  <2>1. spared'[r] > 0  BY <1>3, CountsAreNat
  <2> QED BY <1>4, <2>1
<1> QED BY <1>1, <1>5, <1>6, <1>7, BlameKept

LEMMA AnsweredBlame ==
  ASSUME HookTypeOK, HookTypeOK', BlameInv, NEW p \in Passes, NEW r \in Rows,
         NEW ok \in BOOLEAN, Answered(p, r, ok)
  PROVE  BlameInv'
<1>1. UNCHANGED << tester, posts, spared, seen >>  BY DEF Answered
<1>2. \A x \in Rows : PostsOf(x)' = PostsOf(x)  BY <1>1 DEF PostsOf, Tested
<1>3. /\ \A x \in Rows : x # r => attempts'[x] = attempts[x]
      /\ attempts'[r] = seen[p][r] + 1
  BY DEF Answered, HookTypeOK
<1>4. seen[p][r] < PostsOf(r)  BY DEF Answered, BlameInv
<1>5. attempts'[r] <= PostsOf(r)'  BY <1>2, <1>3, <1>4, PostsOfNat, CountsAreNat
<1>6. \A x \in Rows : asked'[x] => asked[x]  BY DEF Answered, HookTypeOK
<1>7. \E what \in {"judge", "none"} : Doing(p, r, what)  BY DEF Answered
<1>8. \A q \in Passes, x \in Rows :
        work'[q][x] = work[q][x] \/ work'[q][x] \in {"judge", "none"}
  BY <1>7, DoingAfter
<1>9. \A x \in Rows : PostsOf(x) <= PostsOf(x)' /\ spared[x] <= spared'[x]
  BY <1>1, <1>2, PostsOfNat, CountsAreNat
<1>10. \A x \in Rows : attempts'[x] = attempts[x] \/ attempts'[x] <= PostsOf(x)'
  BY <1>3, <1>5
<1> QED BY <1>1, <1>6, <1>8, <1>9, <1>10, BlameKept

\* Counted rows that were exhausted are rows the receiver failed.
LEMMA JudgedOnFailures ==
  ASSUME HookTypeOK, BlameInv, Cardinality(Recent) = DisableAfter,
         \A q \in Recent : status[q] = "exhausted"
  PROVE  Cardinality(Failing) >= DisableAfter
<1>1. Recent \subseteq Failing
  <2> SUFFICES ASSUME NEW q \in Recent PROVE q \in Failing
    OBVIOUS
  <2>1. q \in Rows /\ (attempts[q] >= MaxAttempts \/ asked[q])
    BY DEF Recent, Counted, Settled, Spent
  <2>2. PostsOf(q) >= MaxAttempts \/ spared[q] > 0
    BY <2>1, PostsOfNat, CountsAreNat, WebhooksAssumption DEF BlameInv
  <2> QED BY <2>1, <2>2 DEF Failing
<1>2. Cardinality(Recent) <= Cardinality(Failing)  BY <1>1, FailingIsFinite, FS_Subset
<1>3. Cardinality(Failing) \in Nat /\ DisableAfter \in Nat
  BY FailingIsFinite, FS_CardinalityType, WebhooksAssumption
<1> QED BY <1>2, <1>3

LEMMA JudgeEndpointBlame ==
  ASSUME HookTypeOK, HookTypeOK', BlameInv, NEW p \in Passes, NEW r \in Rows,
         JudgeEndpoint(p, r)
  PROVE  BlameInv'
<1>1. UNCHANGED << attempts, asked, tester, posts, spared, seen >>
  BY DEF JudgeEndpoint, rowVars
<1>2. \/ Doing(p, r, "none")
      \/ Doing(p, r, "trip") /\ Cardinality(Failing) >= DisableAfter
  BY JudgedOnFailures DEF JudgeEndpoint
<1>3. \A q \in Passes, x \in Rows :
        \/ work'[q][x] = work[q][x] \/ work'[q][x] = "none"
        \/ work'[q][x] = "trip" /\ Cardinality(Failing) >= DisableAfter
  BY <1>2, DoingAfter
<1>4. \A x \in Rows : PostsOf(x) <= PostsOf(x)' /\ spared[x] <= spared'[x]
  BY <1>1, PostsOfNat, CountsAreNat DEF PostsOf, Tested
<1> QED BY <1>1, <1>3, <1>4, BlameKept

LEMMA CrashBlame ==
  ASSUME HookTypeOK, HookTypeOK', BlameInv, NEW p \in Passes, Crash(p) PROVE BlameInv'
<1>1. UNCHANGED << attempts, asked, tester, posts >>  BY DEF Crash, rowVars
<1>2. \A x \in Rows : PostsOf(x)' = PostsOf(x)  BY <1>1 DEF PostsOf, Tested
<1>3. \A x \in Rows : PostsOf(x) <= PostsOf(x)' /\ spared[x] <= spared'[x]
  BY <1>2, PostsOfNat, CountsAreNat DEF Crash
<1>4. \A q \in Passes, x \in Rows :
        /\ work'[q][x] = IF q = p THEN "none" ELSE work[q][x]
        /\ seen'[q][x] = IF q = p THEN 0 ELSE seen[q][x]
  BY ForgetAfter DEF Crash
<1> QED BY <1>1, <1>3, <1>4, BlameKept

LEMMA TesterBlame ==
  ASSUME HookTypeOK, HookTypeOK', BlameInv, NEW t \in Tests,
         StartTest(t) \/ \E ok \in BOOLEAN : EndTest(t, ok)
  PROVE  BlameInv'
<1>1. UNCHANGED << posts, spared, work, seen >>  BY DEF StartTest, EndTest, passVars
<1>2. t \in Rows  BY DEF Rows
<1>3. \A x \in Rows : tester[x] # "idle" => tester'[x] # "idle"
  BY <1>2 DEF StartTest, EndTest, HookTypeOK
<1>4. \A x \in Rows : PostsOf(x) <= PostsOf(x)' /\ spared[x] <= spared'[x]
  BY <1>1, <1>3, CountsAreNat DEF PostsOf, Tested
<1>5. \A x \in Rows : attempts'[x] = attempts[x] \/ attempts'[x] <= PostsOf(x)'
  <2>1. CASE StartTest(t)  BY <2>1 DEF StartTest
  <2>2. CASE \E ok \in BOOLEAN : EndTest(t, ok)
    <3>1. tester'[t] = "done" /\ attempts'[t] = 1 /\ \A x \in Rows : x # t => attempts'[x] = attempts[x]
      BY <1>2, <2>2 DEF EndTest, HookTypeOK
    <3>2. PostsOf(t)' = posts[t] + 1  BY <1>1, <1>2, <3>1 DEF PostsOf, Tested
    <3> QED BY <1>2, <3>1, <3>2, CountsAreNat
  <2> QED BY <2>1, <2>2
<1>6. \A x \in Rows : asked'[x] => asked[x]
  BY <1>2 DEF StartTest, EndTest, HookTypeOK
<1> QED BY <1>1, <1>4, <1>5, <1>6, BlameKept

LEMMA HookNextBlame == ASSUME HookInv, BlameInv, [HookNext]_hookVars PROVE BlameInv'
<1>0. HookTypeOK /\ HookTypeOK'  BY HookNextInv DEF HookInv
<1>1. CASE Meek  BY <1>0, <1>1, MeekKeepsBlame
<1>2. ASSUME NEW p \in Passes, PassStep(p) PROVE BlameInv'
  <2>1. ASSUME NEW r \in Rows, PostRow(p, r) \/ JudgeEndpoint(p, r) PROVE BlameInv'
    BY <1>0, <2>1, PostRowBlame, JudgeEndpointBlame
  <2>2. ASSUME NEW r \in Rows, NEW ok \in BOOLEAN, Answered(p, r, ok) PROVE BlameInv'
    BY <1>0, <2>2, AnsweredBlame
  <2> QED BY <1>1, <1>2, <2>1, <2>2, PassStepMeek
<1>3. CASE Surroundings
  <2>1. ASSUME NEW p \in Passes, Crash(p) PROVE BlameInv'  BY <1>0, <2>1, CrashBlame
  <2>2. ASSUME NEW p \in Passes, NEW r \in Rows, Throttled(p, r) PROVE BlameInv'
    BY <1>0, <2>2, ThrottledBlame
  <2>3. ASSUME NEW t \in Tests, StartTest(t) \/ \E ok \in BOOLEAN : EndTest(t, ok)
        PROVE  BlameInv'
    BY <1>0, <2>3, TesterBlame
  <2> QED BY <1>1, <1>3, <2>1, <2>2, <2>3, OthersMeek DEF Surroundings
<1>4. CASE UNCHANGED hookVars
  <2>1. Meek  BY <1>4 DEF Meek, hookVars
  <2> QED BY <1>1, <2>1
<1> QED BY <1>1, <1>2, <1>3, <1>4, OthersMeek DEF HookNext

LEMMA HookInitBlame == ASSUME HookInit PROVE BlameInv
<1>1. HookTypeOK  BY HookInitInv DEF HookInv
<1>2. \A r \in Rows : PostsOf(r) \in Nat  BY <1>1, PostsOfNat
<1> QED BY <1>2 DEF HookInit, BlameInv

\* Only TripBreaker disables an endpoint by itself.
LEMMA OnlyTripBreakerTrips ==
  ASSUME HookNext, endpoint = "enabled", endpoint' = "auto_disabled"
  PROVE  \E p \in Passes, r \in Rows : work[p][r] = "trip"
<1>1. ASSUME NEW p \in Passes, PassStep(p) PROVE \E r \in Rows : work[p][r] = "trip"
  BY <1>1 DEF PassStep, Retry, Settle, ClaimDue, CheckEndpoint, EndPage, Finish, TakeRow,
    PostRow, JudgeEndpoint, TripBreaker, Answered
<1>2. ~ Surroundings
  BY DEF Surroundings, Crash, RunOut, Throttled, Ages, SwitchEndpoint, StartTest, EndTest
<1> QED
  BY <1>1, <1>2 DEF HookNext, FetchDrain, Fetch, Reconcile, ReconcilePick, ReconcileArm,
    Passing, LeaseLapses, ComesDue, Emit, Arm

\* TripsOnFailures holds of every step: the breaker disables an endpoint only
\* when its receiver failed DisableAfter deliveries, each posted to the end or
\* met with a 429, whatever aged out or was settled unposted meanwhile.
THEOREM BreakerTripsOnFailures == HookSpec => TripsOnFailures
<1>1. HookInv /\ BlameInv /\ [HookNext]_hookVars => HookInv' /\ BlameInv'
  BY HookNextInv, HookNextBlame
<1>2. HookInv /\ BlameInv /\ [HookNext]_hookVars =>
        [endpoint = "enabled" /\ endpoint' = "auto_disabled"
           => Cardinality({ r \in Rows : PostsOf(r) >= MaxAttempts \/ spared[r] > 0 })
              >= DisableAfter]_hookVars
  BY OnlyTripBreakerTrips DEF BlameInv, Failing
<1> QED
  BY <1>1, <1>2, HookInitInv, HookInitBlame, PTL DEF HookSpec, TripsOnFailures
=============================================================================
