-------------------------- MODULE IdempotencyProofs --------------------------
(***************************************************************************)
(* Proofs about Idempotency, for any requests and bodies.                  *)
(*                                                                         *)
(* A request commits only into a row with no response; a row that has lost *)
(* its response, by expiring or by being purged, has forgotten the window  *)
(* it belonged to.  KeyInv says both and is inductive.                     *)
(***************************************************************************)
EXTENDS Idempotency, TLAPS

Rows == [hash : Bodies \cup {"none"}, response : Requests \cup {NoRequest},
         age : {"fresh", "stale", "expired"}]

(* The inductive invariant: the window is what the row's response names.    *)
KeyInv ==
  /\ TypeOK
  /\ OneAcceptPerWindow
  /\ AcceptStaysRecorded

(* The key begins unused.                                                   *)
LEMMA InitKeyInv == Init => KeyInv
BY KeyAssumption DEF Init, KeyInv, TypeOK, OneAcceptPerWindow, AcceptStaysRecorded, NoRow, Points

(* An upsert claims the key for a known body and no request, and forgets    *)
(* the window of the row it replaces: a row that is not expired had none.   *)
LEMMA UpsertKeyInv ==
  ASSUME KeyInv, NEW r \in Requests, Claimable(r), Upsert(r)
  PROVE  row' \in Rows /\ window' = {}
<1>1. row' \in Rows
  BY DEF KeyInv, TypeOK, Upsert, Rows
<1>2. CASE row.age = "expired"
  <2>1. CASE Exists
    BY <1>1, <1>2, <2>1 DEF Upsert
  <2>2. CASE ~ Exists
    BY <1>1, <2>2, KeyAssumption DEF Upsert, Exists, NoRow, KeyInv, TypeOK, AcceptStaysRecorded
  <2> QED BY <2>1, <2>2
<1>3. CASE row.age # "expired"
  <2>1. row.response = NoRequest
    BY <1>3 DEF Claimable, Claimed
  <2>2. window = {}
    BY <2>1, KeyAssumption DEF KeyInv, TypeOK, AcceptStaysRecorded
  <2> QED BY <1>1, <1>3, <2>2 DEF Upsert
<1> QED BY <1>2, <1>3

(* Every step keeps the invariant.                                          *)
LEMMA NextKeyInv == KeyInv /\ [Next]_vars => KeyInv'
<1> SUFFICES ASSUME KeyInv, [Next]_vars PROVE KeyInv'
  OBVIOUS
<1> USE KeyAssumption DEF Goto
<1>1. ASSUME NEW r \in Requests, Begin(r) PROVE KeyInv'
  <2>1. CASE Claimable(r)
    <3>1. Upsert(r) /\ pc' = [pc EXCEPT ![r] = "accept"] /\ UNCHANGED << body, answer >>
      BY <1>1, <2>1 DEF Begin
    <3>2. row' \in Rows /\ window' = {}
      BY <2>1, <3>1, UpsertKeyInv
    <3> QED BY <1>1, <3>1, <3>2 DEF KeyInv, TypeOK, OneAcceptPerWindow, AcceptStaysRecorded, Rows, Points, Begin
  <2>2. CASE ~ Claimable(r)
    BY <1>1, <2>2 DEF Begin, KeyInv, TypeOK, OneAcceptPerWindow, AcceptStaysRecorded, Points
  <2> QED BY <2>1, <2>2
<1>2. ASSUME NEW r \in Requests, Lookup(r) PROVE KeyInv'
  BY <1>2 DEF Lookup, Replay, KeyInv, TypeOK, OneAcceptPerWindow, AcceptStaysRecorded, Points
<1>3. ASSUME NEW r \in Requests, Accept(r) PROVE KeyInv'
  <2>1. CASE Claimed
    <3>1. window = {}
      BY <2>1 DEF Claimed, KeyInv, TypeOK, AcceptStaysRecorded
    <3>2. row' = [row EXCEPT !.response = r] /\ window' = {r}
      BY <1>3, <2>1, <3>1 DEF Accept
    <3>3. /\ answer' = [answer EXCEPT ![r] = r]
          /\ pc' = [pc EXCEPT ![r] = "ok"]
          /\ UNCHANGED body
      BY <1>3, <2>1 DEF Accept
    <3>4. OneAcceptPerWindow' /\ AcceptStaysRecorded'
      BY <3>2 DEF OneAcceptPerWindow, AcceptStaysRecorded, KeyInv, TypeOK
    <3>5. TypeOK'
      BY <3>2, <3>3 DEF KeyInv, TypeOK, Points
    <3> QED BY <3>4, <3>5 DEF KeyInv
  <2>2. CASE ~ Claimed
    BY <1>3, <2>2 DEF Accept, KeyInv, TypeOK, OneAcceptPerWindow, AcceptStaysRecorded, Points
  <2> QED BY <2>1, <2>2
<1>4. ASSUME NEW r \in Requests, BeginAgain(r) PROVE KeyInv'
  <2>1. CASE Claimable(r)
    <3>1. Upsert(r) /\ pc' = [pc EXCEPT ![r] = "refused"] /\ UNCHANGED << body, answer >>
      BY <1>4, <2>1 DEF BeginAgain
    <3>2. row' \in Rows /\ window' = {}
      BY <2>1, <3>1, UpsertKeyInv
    <3> QED BY <1>4, <3>1, <3>2 DEF KeyInv, TypeOK, OneAcceptPerWindow, AcceptStaysRecorded, Rows, Points, BeginAgain
  <2>2. CASE ~ Claimable(r)
    BY <1>4, <2>2 DEF BeginAgain, KeyInv, TypeOK, OneAcceptPerWindow, AcceptStaysRecorded, Points
  <2> QED BY <2>1, <2>2
<1>5. ASSUME NEW r \in Requests, Fail(r) \/ Crash(r) PROVE KeyInv'
  BY <1>5 DEF Fail, Crash, Ended, KeyInv, TypeOK, OneAcceptPerWindow, AcceptStaysRecorded, Points
<1>6. ASSUME NEW r \in Requests, Release(r) PROVE KeyInv'
  <2>1. CASE Claimed
    <3>1. window' = {}
      BY <1>6, <2>1 DEF Release, Claimed, KeyInv, TypeOK, AcceptStaysRecorded
    <3> QED BY <1>6, <2>1, <3>1 DEF Release, NoRow, KeyInv, TypeOK, OneAcceptPerWindow, AcceptStaysRecorded, Points
  <2>2. CASE ~ Claimed
    BY <1>6, <2>2 DEF Release, KeyInv, TypeOK, OneAcceptPerWindow, AcceptStaysRecorded, Points
  <2> QED BY <2>1, <2>2
<1>7. CASE Age
  BY <1>7 DEF Age, KeyInv, TypeOK, OneAcceptPerWindow, AcceptStaysRecorded
<1>8. CASE Purge
  BY <1>8 DEF Purge, NoRow, KeyInv, TypeOK, OneAcceptPerWindow, AcceptStaysRecorded
<1>9. CASE UNCHANGED vars
  BY <1>9 DEF vars, KeyInv, TypeOK, OneAcceptPerWindow, AcceptStaysRecorded
<1> QED BY <1>1, <1>2, <1>3, <1>4, <1>5, <1>6, <1>7, <1>8, <1>9 DEF Next, Request

(* The invariant holds in every reachable state.                            *)
LEMMA KeyInvAlways == Spec => []KeyInv
BY InitKeyInv, NextKeyInv, PTL DEF Spec

(* The row of a key is unclaimed, claimed for one body, or answered with a  *)
(* request that was accepted (idempotency.ts:34-50, 58-65), and a handler   *)
(* is always at one of its awaits.                                          *)
THEOREM KeyTypeCorrect == Spec => []TypeOK
<1>1. KeyInv => TypeOK
  BY DEF KeyInv
<1> QED BY <1>1, KeyInvAlways, PTL

(* One key accepts mail once until its row expires (idempotency.ts:68-73),  *)
(* for any number of requests that take over, release and outlive claims.   *)
THEOREM OneAccept == Spec => []OneAcceptPerWindow
<1>1. KeyInv => OneAcceptPerWindow
  BY DEF KeyInv
<1> QED BY <1>1, KeyInvAlways, PTL

(* What a request committed stays the stored response (idempotency.ts:89).  *)
THEOREM StaysRecorded == Spec => []AcceptStaysRecorded
<1>1. KeyInv => AcceptStaysRecorded
  BY DEF KeyInv
<1> QED BY <1>1, KeyInvAlways, PTL
=============================================================================
