--------------------------- MODULE BroadcastProofs ---------------------------
(***************************************************************************)
(* What holds of a broadcast of any size, with any page size and any       *)
(* number of overlapping walks: nobody is skipped, and nothing written     *)
(* after the stop is claimed.                                              *)
(***************************************************************************)
EXTENDS Broadcast, TLAPS

(* Every contact up to n has its row. *)
Reached(n) == \A c \in Audience : c <= n => row[c] # "absent"

(* The cursors, the persisted one and each walk's own, are never ahead of   *)
(* the rows; a page's end is inside the audience.                           *)
CursorInv ==
  /\ Reached(cursor)
  /\ \A w \in Walks : /\ Reached(at[w]) /\ Reached(pos[w])
                      /\ pc[w] = "write" => pos[w] < Contacts
  /\ counted => Reached(Contacts)

(* No row is passed or claimed before it is written, nor one written after  *)
(* the stop, which is for good.                                             *)
LateInv ==
  /\ \A c \in late : status = "canceled" /\ ~ passed[c] /\ ~ claimed[c]
  /\ \A c \in Audience : row[c] = "absent" => ~ passed[c] /\ ~ claimed[c]

BroadcastInv == TypeOK /\ CursorInv /\ LateInv

(* A row once written stays a row, so what was reached stays reached.       *)
LEMMA ReachedStays ==
  ASSUME \A c \in Audience : row[c] # "absent" => row'[c] # "absent", NEW n \in 0..Contacts,
         Reached(n)
  PROVE  Reached(n)'
BY DEF Reached

(* No step unwrites a row. *)
LEMMA RowsStay ==
  ASSUME TypeOK, [Next]_vars, NEW c \in Audience, row[c] # "absent"
  PROVE  row'[c] # "absent"
<1>1. ASSUME NEW w \in Walks, Write(w) PROVE row'[c] # "absent"
  BY <1>1 DEF TypeOK, Write, WriteRow
<1>2. ASSUME NEW w \in Walks, Walk(w) \/ Leave(w), ~ Write(w) PROVE row'[c] # "absent"
  BY <1>2 DEF Walk, Load, ClaimWalk, Page, Count, Stopped, Leave
<1>3. ASSUME NEW a \in Actors, Sweep(a) \/ Finalize(a) PROVE row'[c] # "absent"
  BY <1>3 DEF Sweep, Pick, Flip, Finalize, Probe, Finish
<1>4. ASSUME NEW d \in Audience, Lane(d) \/ Park(d) PROVE row'[c] # "absent"
  BY <1>4 DEF TypeOK, Lane, Check, Claim, Deliver, Park
<1>5. CASE Cancel \/ Drain
  BY <1>5 DEF TypeOK, Cancel, Drain, DrainList, DrainRelease, DrainFinalize, ReconcileFinalize
<1>6. CASE UNCHANGED vars
  BY <1>6 DEF vars
<1> QED BY <1>1, <1>2, <1>3, <1>4, <1>5, <1>6 DEF Next

(* Where an actor may go. *)
LEMMA GotoTyped ==
  ASSUME TypeOK, NEW a \in Actors, NEW p \in Points, Goto(a, p)
  PROVE  pc' \in [Actors -> Points]
BY DEF TypeOK, Goto

(* A walk that halts forgets its place, which is no claim about any row.    *)
LEMMA HaltPlaces ==
  ASSUME TypeOK, NEW w \in Walks, NEW p \in Points, Halt(w, p)
  PROVE  /\ pc' = [pc EXCEPT ![w] = p] /\ pc' \in [Actors -> Points]
         /\ at' = [at EXCEPT ![w] = 0] /\ at' \in [Walks -> 0..Contacts]
         /\ pos' = [pos EXCEPT ![w] = 0] /\ pos' \in [Walks -> 0..Contacts]
<1>1. w \in Actors /\ 0 \in 0..Contacts
  BY BroadcastAssumption DEF Actors
<1> QED BY <1>1, GotoTyped DEF TypeOK, Halt, Goto

(* The steps of a walk keep the types. *)
LEMMA WalkTyped ==
  ASSUME BroadcastInv, NEW w \in Walks, Walk(w) \/ Leave(w)
  PROVE  TypeOK'
<1>1. /\ {"off", "claim", "page", "write", "stopped", "probe", "pick parked"} \subseteq Points
      /\ w \in Actors
  BY DEF Points, Actors
<1>2. TypeOK /\ 0 \in 0..Contacts
  BY BroadcastAssumption DEF BroadcastInv
<1>3. CASE Load(w)
  <2>1. pc' \in [Actors -> Points] /\ at' \in [Walks -> 0..Contacts]
    BY <1>1, <1>2, <1>3, GotoTyped DEF TypeOK, Load
  <2>2. mishaps' \in 0..Mishaps
    BY <1>2, <1>3, BroadcastAssumption DEF TypeOK, Load
  <2> QED BY <1>2, <1>3, <2>1, <2>2 DEF TypeOK, Load, castVars, laneVars, sweepVars
<1>4. CASE ClaimWalk(w)
  <2>1. CASE status \in Live
    <3>1. status' = "sending" /\ pc' \in [Actors -> Points] /\ UNCHANGED walkVars
      BY <1>1, <1>2, <1>4, <2>1, GotoTyped DEF ClaimWalk
    <3> QED BY <1>2, <1>4, <3>1 DEF TypeOK, ClaimWalk, laneVars, walkVars, sweepVars
  <2>2. CASE status \notin Live
    <3>1. UNCHANGED status /\ Halt(w, "off")
      BY <1>4, <2>2 DEF ClaimWalk
    <3> QED BY <1>1, <1>2, <1>4, <3>1, HaltPlaces DEF TypeOK, ClaimWalk, laneVars, sweepVars
  <2> QED BY <2>1, <2>2
<1>5. CASE Page(w)
  <2>1. CASE status = "sending"
    <3>1. pc' \in [Actors -> Points] /\ cursor' = at[w] /\ pos' = [pos EXCEPT ![w] = at[w]] /\ UNCHANGED at
      BY <1>1, <1>2, <1>5, <2>1, GotoTyped DEF Page, Heartbeat
    <3>2. at[w] \in 0..Contacts /\ pos' \in [Walks -> 0..Contacts]
      BY <1>2, <3>1 DEF TypeOK
    <3> QED BY <1>2, <1>5, <3>1, <3>2 DEF TypeOK, Page, laneVars, sweepVars
  <2>2. CASE status # "sending"
    <3>1. UNCHANGED cursor /\ Halt(w, "stopped")
      BY <1>5, <2>2 DEF Page
    <3> QED BY <1>1, <1>2, <1>5, <3>1, HaltPlaces DEF TypeOK, Page, laneVars, sweepVars
  <2> QED BY <2>1, <2>2
<1>6. CASE Write(w)
  <2>1. at \in [Walks -> 0..Contacts] /\ pos \in [Walks -> 0..Contacts] /\ pos[w] + 1 \in 1..Contacts
    BY <1>2, <1>6, BroadcastAssumption DEF TypeOK, BroadcastInv, CursorInv, Write
  <2> DEFINE next == pos[w] + 1
  <2>2. next \in 0..Contacts
    BY <2>1
  <2>3. \/ at' = [at EXCEPT ![w] = next] /\ pos' = [pos EXCEPT ![w] = 0] /\ Goto(w, "page")
        \/ at' = at /\ pos' = [pos EXCEPT ![w] = next] /\ Goto(w, "write")
    BY <1>6 DEF Write
  <2> HIDE DEF next
  <2>4. at' \in [Walks -> 0..Contacts] /\ pos' \in [Walks -> 0..Contacts] /\ pc' \in [Actors -> Points]
    <3>1. pc' \in [Actors -> Points]
      BY <1>1, <1>2, <2>3, GotoTyped
    <3> QED BY <1>2, <2>1, <2>2, <2>3, <3>1
  <2>5. row' \in [Audience -> {"absent", "queued_quota", "queued", "sent", "canceled"}]
    BY <1>2, <1>6 DEF TypeOK, Write, WriteRow
  <2>6. late' \subseteq Audience
    BY <1>2, <1>6, <2>1 DEF TypeOK, Write, WriteRow, Audience
  <2> QED BY <1>2, <1>6, <2>4, <2>5, <2>6 DEF TypeOK, Write, castVars, laneVars, sweepVars
<1>7. CASE Count(w)
  <2>1. CASE status = "sending"
    <3>1. counted' = TRUE /\ cursor' = 0 /\ Halt(w, "probe")
      BY <1>7, <2>1 DEF Count
    <3> QED BY <1>1, <1>2, <1>7, <3>1, HaltPlaces DEF TypeOK, Count, laneVars, sweepVars
  <2>2. CASE status # "sending"
    <3>1. UNCHANGED << counted, cursor >> /\ Halt(w, "stopped")
      BY <1>7, <2>2 DEF Count
    <3> QED BY <1>1, <1>2, <1>7, <3>1, HaltPlaces DEF TypeOK, Count, laneVars, sweepVars
  <2> QED BY <2>1, <2>2
<1>8. CASE Stopped(w)
  <2>1. pc' \in [Actors -> Points]
    BY <1>1, <1>2, <1>8, GotoTyped DEF Stopped
  <2> QED BY <1>2, <1>8, <2>1 DEF TypeOK, Stopped, castVars, laneVars, walkVars, sweepVars
<1>9. CASE Leave(w)
  <2>1. Halt(w, "off") /\ picked' \in [Actors -> SUBSET Audience] /\ moving' \in [Actors -> BOOLEAN]
    BY <1>1, <1>2, <1>9 DEF TypeOK, Leave
  <2>2. mishaps' \in 0..Mishaps
    BY <1>2, <1>9, BroadcastAssumption DEF TypeOK, Leave
  <2> QED BY <1>1, <1>2, <1>9, <2>1, <2>2, HaltPlaces DEF TypeOK, Leave, castVars, laneVars
<1> QED BY <1>3, <1>4, <1>5, <1>6, <1>7, <1>8, <1>9 DEF Walk

(* The steps of everybody else keep the types. *)
LEMMA OthersTyped ==
  ASSUME TypeOK,
         \/ \E a \in Actors : Sweep(a) \/ Finalize(a)
         \/ \E c \in Audience : Lane(c) \/ Park(c)
         \/ Cancel \/ Drain \/ UNCHANGED vars
  PROVE  TypeOK'
<1>1. /\ {"off", "probe", "finish", "drain", "answered",
          "pick parked", "flip parked", "pick queued", "flip queued"} \subseteq Points
      /\ {Canceler, Drainer, Reconciler} \subseteq Actors
  BY DEF Points, Actors
<1>2. ASSUME NEW a \in Actors, Sweep(a) PROVE TypeOK'
  <2>1. CASE Pick(a)
    <3>1. pc' \in [Actors -> Points]
      BY <1>1, <2>1, GotoTyped DEF Pick
    <3>2. picked' \in [Actors -> SUBSET Audience] /\ moving' \in [Actors -> BOOLEAN]
      BY <2>1 DEF TypeOK, Pick
    <3> QED BY <2>1, <3>1, <3>2 DEF TypeOK, Pick, castVars, laneVars, walkVars
  <2>2. CASE Flip(a)
    <3>1. pc' \in [Actors -> Points]
      BY <1>1, <2>2, GotoTyped DEF Flip
    <3>2. picked' \in [Actors -> SUBSET Audience]
      BY <2>2 DEF TypeOK, Flip
    <3>3. moving' \in [Actors -> BOOLEAN]
      <4>1. (moving[a] \/ picked[a] # {}) \in BOOLEAN
        OBVIOUS
      <4> QED BY <2>2, <4>1 DEF TypeOK, Flip
    <3>4. row' \in [Audience -> {"absent", "queued_quota", "queued", "sent", "canceled"}]
      BY <2>2 DEF TypeOK, Flip
    <3> QED BY <2>2, <3>1, <3>2, <3>3, <3>4 DEF TypeOK, Flip, castVars, laneVars, walkVars
  <2> QED BY <1>2, <2>1, <2>2 DEF Sweep
<1>3. ASSUME NEW a \in Actors, Finalize(a) PROVE TypeOK'
  <2>1. pc' \in [Actors -> Points]
    BY <1>1, <1>3, GotoTyped DEF Finalize, Probe, Finish
  <2> QED BY <1>3, <2>1 DEF TypeOK, Finalize, Probe, Finish, castVars, laneVars, walkVars, sweepVars
<1>4. ASSUME NEW c \in Audience, Lane(c) \/ Park(c) PROVE TypeOK'
  <2>1. CASE Check(c)
    BY <2>1 DEF TypeOK, Check, castVars, walkVars, sweepVars
  <2>2. CASE Claim(c)
    <3>1. (claimed[c] \/ Open(c)) \in BOOLEAN
      OBVIOUS
    <3>2. claimed' \in [Audience -> BOOLEAN]
      BY <2>2, <3>1 DEF TypeOK, Claim
    <3> QED BY <2>2, <3>2 DEF TypeOK, Claim, castVars, walkVars, sweepVars
  <2>3. CASE Deliver(c)
    BY <2>3 DEF TypeOK, Deliver, castVars, laneVars, walkVars, sweepVars
  <2>4. CASE Park(c)
    BY <2>4, BroadcastAssumption DEF TypeOK, Park, castVars, laneVars, walkVars, sweepVars
  <2> QED BY <1>4, <2>1, <2>2, <2>3, <2>4 DEF Lane
<1>5. CASE Cancel
  <2>1. pc' \in [Actors -> Points]
    BY <1>1, <1>5, GotoTyped DEF Cancel
  <2> QED BY <1>5, <2>1 DEF TypeOK, Cancel, Live, laneVars, walkVars, sweepVars
<1>6. CASE Drain
  <2>1. pc' \in [Actors -> Points]
    BY <1>1, <1>6, GotoTyped DEF Drain, DrainList, DrainRelease, DrainFinalize, ReconcileFinalize, TypeOK
  <2> QED BY <1>6, <2>1 DEF TypeOK, Drain, DrainList, DrainRelease, DrainFinalize,
                           ReconcileFinalize, castVars, laneVars, walkVars, sweepVars
<1>7. CASE UNCHANGED vars
  BY <1>7 DEF TypeOK, vars
<1> QED BY <1>2, <1>3, <1>4, <1>5, <1>6, <1>7

(* The cursors stay behind the rows: only Load, the heartbeat and the       *)
(* writing of a row move one, each to a place already reached.              *)
LEMMA WalkCursor ==
  ASSUME BroadcastInv, NEW w \in Walks, Walk(w) \/ Leave(w)
  PROVE  CursorInv'
<1> DEFINE Now(n) == \A c \in Audience : c <= n => row'[c] # "absent"
<1>1. TypeOK /\ CursorInv /\ 0 \in 0..Contacts /\ Contacts \in 0..Contacts
  BY BroadcastAssumption DEF BroadcastInv
<1>2. \A c \in Audience : row[c] # "absent" => row'[c] # "absent"
  <2>1. [Next]_vars
    BY DEF Next
  <2> QED BY <1>1, <2>1, RowsStay
<1>3. Now(0) /\ Now(cursor) /\ (counted => Now(Contacts))
      /\ \A v \in Walks : Now(at[v]) /\ Now(pos[v])
  BY <1>1, <1>2 DEF CursorInv, Reached, Audience
<1>4. w \in Actors /\ pc \in [Actors -> Points] /\ at \in [Walks -> 0..Contacts]
      /\ pos \in [Walks -> 0..Contacts] /\ Walks \subseteq Actors
  BY <1>1 DEF TypeOK, Actors
<1> HIDE DEF Now
<1> DEFINE Kept == /\ Now(cursor') /\ (counted' => Now(Contacts))
                   /\ \A v \in Walks : /\ Now(at'[v]) /\ Now(pos'[v])
                                       /\ pc'[v] = "write" => pos'[v] < Contacts
<1>5. Kept => CursorInv'
  BY DEF Now, CursorInv, Reached
<1>6. ASSUME NEW p \in Points \ {"write"}, Halt(w, p)
      PROVE  \A v \in Walks : /\ Now(at'[v]) /\ Now(pos'[v])
                              /\ pc'[v] = "write" => pos'[v] < Contacts
  BY <1>1, <1>3, <1>4, <1>6 DEF Halt, Goto, CursorInv
<1>7. {"off", "stopped", "probe"} \subseteq Points \ {"write"}
  BY DEF Points
<1>8. CASE Load(w)
  <2>1. \A v \in Walks : /\ Now(at'[v]) /\ Now(pos'[v])
                         /\ pc'[v] = "write" => pos'[v] < Contacts
    BY <1>1, <1>3, <1>4, <1>8 DEF Load, Goto, CursorInv
  <2> QED BY <1>3, <1>5, <1>8, <2>1 DEF Load, castVars
<1>9. CASE ClaimWalk(w)
  <2>1. CASE status \in Live
    <3>1. UNCHANGED walkVars /\ Goto(w, "page")
      BY <1>9, <2>1 DEF ClaimWalk
    <3>2. \A v \in Walks : /\ Now(at'[v]) /\ Now(pos'[v])
                           /\ pc'[v] = "write" => pos'[v] < Contacts
      BY <1>1, <1>3, <1>4, <3>1 DEF Goto, CursorInv, walkVars
    <3> QED BY <1>3, <1>5, <1>9, <3>2 DEF ClaimWalk
  <2>2. CASE status \notin Live
    BY <1>3, <1>5, <1>6, <1>7, <1>9, <2>2 DEF ClaimWalk
  <2> QED BY <2>1, <2>2
<1>10. CASE Page(w)
  <2>1. CASE status = "sending"
    <3>1. cursor' = at[w] /\ pos' = [pos EXCEPT ![w] = at[w]] /\ UNCHANGED at /\ at[w] < Contacts
      BY <1>10, <2>1 DEF Page, Heartbeat
    <3>2. Goto(w, "write") /\ UNCHANGED counted
      BY <1>10, <2>1 DEF Page
    <3>3. \A v \in Walks : /\ Now(at'[v]) /\ Now(pos'[v])
                           /\ pc'[v] = "write" => pos'[v] < Contacts
      BY <1>1, <1>3, <1>4, <3>1, <3>2 DEF Goto, CursorInv
    <3> QED BY <1>3, <1>5, <3>1, <3>2, <3>3
  <2>2. CASE status # "sending"
    BY <1>3, <1>5, <1>6, <1>7, <1>10, <2>2 DEF Page
  <2> QED BY <2>1, <2>2
<1>11. CASE Write(w)
  <2> DEFINE next == pos[w] + 1
  <2>1. next \in Audience /\ pos[w] \in 0..Contacts
    BY <1>1, <1>4, <1>11, BroadcastAssumption DEF CursorInv, Write, Audience
  <2>2. row'[next] # "absent"
    BY <1>1, <1>11, <2>1 DEF Write, WriteRow, TypeOK
  <2>3. Now(next)
    BY <1>3, <2>1, <2>2 DEF Now, Audience
  <2>4. \/ at' = [at EXCEPT ![w] = next] /\ pos' = [pos EXCEPT ![w] = 0] /\ Goto(w, "page")
        \/ at' = at /\ pos' = [pos EXCEPT ![w] = next] /\ Goto(w, "write") /\ next # Contacts
    BY <1>11 DEF Write
  <2>5. next # Contacts => next < Contacts
    BY <2>1, BroadcastAssumption DEF Audience
  <2>6. UNCHANGED << cursor, counted >>
    BY <1>11 DEF Write, castVars
  <2> HIDE DEF next
  <2>7. \A v \in Walks : /\ Now(at'[v]) /\ Now(pos'[v])
                         /\ pc'[v] = "write" => pos'[v] < Contacts
    <3>1. CASE at' = [at EXCEPT ![w] = next] /\ pos' = [pos EXCEPT ![w] = 0] /\ Goto(w, "page")
      BY <1>1, <1>3, <1>4, <2>3, <3>1 DEF Goto, CursorInv
    <3>2. CASE at' = at /\ pos' = [pos EXCEPT ![w] = next] /\ Goto(w, "write") /\ next # Contacts
      BY <1>1, <1>3, <1>4, <2>3, <2>5, <3>2 DEF Goto, CursorInv
    <3> QED BY <2>4, <3>1, <3>2
  <2> QED BY <1>3, <1>5, <2>6, <2>7
<1>12. CASE Count(w)
  BY <1>1, <1>3, <1>4, <1>5, <1>6, <1>7, <1>12 DEF Count
<1>13. CASE Stopped(w)
  <2>1. \A v \in Walks : /\ Now(at'[v]) /\ Now(pos'[v])
                         /\ pc'[v] = "write" => pos'[v] < Contacts
    BY <1>1, <1>3, <1>4, <1>13 DEF Stopped, Goto, CursorInv, walkVars
  <2> QED BY <1>3, <1>5, <1>13, <2>1 DEF Stopped, castVars
<1>14. CASE Leave(w)
  BY <1>3, <1>5, <1>6, <1>7, <1>14 DEF Leave, castVars
<1> QED BY <1>8, <1>9, <1>10, <1>11, <1>12, <1>13, <1>14 DEF Walk

(* Nobody but a walk moves a cursor or enters a page.                       *)
LEMMA OthersCursor ==
  ASSUME BroadcastInv,
         \/ \E a \in Actors : Sweep(a) \/ Finalize(a)
         \/ \E c \in Audience : Lane(c) \/ Park(c)
         \/ Cancel \/ Drain \/ UNCHANGED vars
  PROVE  CursorInv'
<1>1. TypeOK /\ CursorInv /\ Walks \subseteq Actors
  BY DEF BroadcastInv, Actors
<1>2. \A c \in Audience : row[c] # "absent" => row'[c] # "absent"
  <2>1. [Next]_vars
    BY DEF Next
  <2> QED BY <1>1, <2>1, RowsStay
<1>3. SUFFICES /\ UNCHANGED << cursor, counted, at, pos >>
               /\ \A w \in Walks : pc'[w] = "write" => pc[w] = "write"
  BY <1>1, <1>2 DEF CursorInv, Reached
<1>4. ASSUME NEW a \in Actors, NEW p \in Points \ {"write"}, Goto(a, p)
      PROVE  \A w \in Walks : pc'[w] = "write" => pc[w] = "write"
  BY <1>1, <1>4 DEF Goto, TypeOK
<1>5. /\ {"off", "probe", "finish", "drain", "answered",
          "pick parked", "flip parked", "pick queued", "flip queued"} \subseteq Points \ {"write"}
      /\ {Canceler, Drainer, Reconciler} \subseteq Actors
  BY DEF Points, Actors
<1>6. ASSUME NEW a \in Actors, Sweep(a) \/ Finalize(a)
      PROVE  /\ UNCHANGED << cursor, counted, at, pos >>
             /\ \A w \in Walks : pc'[w] = "write" => pc[w] = "write"
  BY <1>4, <1>5, <1>6 DEF Sweep, Pick, Flip, Finalize, Probe, Finish, castVars, walkVars
<1>7. ASSUME NEW c \in Audience, Lane(c) \/ Park(c)
      PROVE  UNCHANGED << cursor, counted, at, pos, pc >>
  BY <1>7 DEF Lane, Check, Claim, Deliver, Park, castVars, walkVars
<1>8. CASE Cancel
  BY <1>4, <1>5, <1>8 DEF Cancel, walkVars
<1>9. CASE Drain
  BY <1>4, <1>5, <1>9 DEF Drain, DrainList, DrainRelease, DrainFinalize, ReconcileFinalize,
                          castVars, walkVars
<1>10. CASE UNCHANGED vars
  BY <1>10 DEF vars
<1> QED BY <1>6, <1>7, <1>8, <1>9, <1>10

(* A stop is for good: nothing takes a broadcast out of canceled.           *)
LEMMA StopStays ==
  ASSUME [Next]_vars, status = "canceled"
  PROVE  status' = "canceled"
<1>1. ASSUME NEW w \in Walks, Walk(w) \/ Leave(w) PROVE status' = "canceled"
  BY <1>1 DEF Walk, Load, ClaimWalk, Page, Write, Count, Stopped, Leave, castVars, Live
<1>2. ASSUME NEW a \in Actors, Sweep(a) \/ Finalize(a) PROVE status' = "canceled"
  BY <1>2 DEF Sweep, Pick, Flip, Finalize, Probe, Finish, castVars
<1>3. ASSUME NEW c \in Audience, Lane(c) \/ Park(c) PROVE status' = "canceled"
  BY <1>3 DEF Lane, Check, Claim, Deliver, Park, castVars
<1>4. CASE Cancel \/ Drain
  BY <1>4 DEF Cancel, Drain, DrainList, DrainRelease, DrainFinalize, ReconcileFinalize, castVars
<1>5. CASE UNCHANGED vars
  BY <1>5 DEF vars
<1> QED BY <1>1, <1>2, <1>3, <1>4, <1>5 DEF Next

(* Only a page adds to the late rows, and only the lane passes or claims.   *)
LEMMA LateKept ==
  ASSUME BroadcastInv, [Next]_vars
  PROVE  LateInv'
<1>1. TypeOK /\ LateInv
  BY DEF BroadcastInv
<1>2. (status = "canceled" => status' = "canceled")
      /\ \A c \in Audience : row[c] # "absent" => row'[c] # "absent"
  BY <1>1, RowsStay, StopStays
<1>3. ASSUME late' = late, UNCHANGED laneVars PROVE LateInv'
  BY <1>1, <1>2, <1>3 DEF LateInv, laneVars
<1>4. ASSUME NEW w \in Walks, Write(w) PROVE LateInv'
  <2>1. UNCHANGED << passed, claimed, status >>
    BY <1>4 DEF Write, laneVars, castVars
  <2>2. late' = late \/ (status = "canceled" /\ row[pos[w] + 1] = "absent"
                         /\ late' = late \cup {pos[w] + 1})
    BY <1>4 DEF Write, WriteRow
  <2>3. pos[w] + 1 \in Audience
    BY <1>4, BroadcastAssumption DEF BroadcastInv, TypeOK, CursorInv, Write, Audience
  <2> QED BY <1>1, <1>2, <2>1, <2>2, <2>3 DEF LateInv
<1>5. ASSUME NEW w \in Walks, Walk(w) \/ Leave(w), ~ Write(w) PROVE LateInv'
  BY <1>3, <1>5 DEF Walk, Load, ClaimWalk, Page, Count, Stopped, Leave
<1>6. ASSUME NEW a \in Actors, Sweep(a) \/ Finalize(a) PROVE LateInv'
  BY <1>3, <1>6 DEF Sweep, Pick, Flip, Finalize, Probe, Finish
<1>7. ASSUME NEW c \in Audience, Lane(c) \/ Park(c) PROVE LateInv'
  <2>1. CASE Check(c)
    <3>1. CASE status = "canceled"
      BY <1>3, <2>1, <3>1 DEF Check, laneVars
    <3>2. CASE status # "canceled"
      <4>1. late = {} /\ late' = {} /\ claimed' = claimed /\ passed' = [passed EXCEPT ![c] = TRUE]
        BY <1>1, <2>1, <3>2 DEF LateInv, Check
      <4>2. row[c] # "absent"
        BY <2>1 DEF Check, Open
      <4> QED BY <1>1, <1>2, <4>1, <4>2 DEF LateInv, TypeOK
    <3> QED BY <3>1, <3>2
  <2>2. CASE Claim(c)
    <3>1. passed[c] /\ late' = late /\ row' = row /\ passed' = [passed EXCEPT ![c] = FALSE]
      BY <2>2 DEF Claim
    <3>2. \A d \in Audience \ {c} : claimed'[d] = claimed[d]
      BY <1>1, <2>2 DEF Claim, TypeOK
    <3>3. c \notin late /\ row[c] # "absent" /\ late \subseteq Audience
      BY <1>1, <3>1 DEF LateInv, TypeOK
    <3> QED BY <1>1, <1>2, <3>1, <3>2, <3>3 DEF LateInv, TypeOK
  <2>3. CASE Deliver(c) \/ Park(c)
    BY <1>3, <2>3 DEF Deliver, Park
  <2> QED BY <1>7, <2>1, <2>2, <2>3 DEF Lane
<1>8. CASE Cancel \/ Drain
  BY <1>3, <1>8 DEF Cancel, Drain, DrainList, DrainRelease, DrainFinalize, ReconcileFinalize
<1>9. CASE UNCHANGED vars
  BY <1>3, <1>9 DEF vars, laneVars
<1> QED BY <1>4, <1>5, <1>6, <1>7, <1>8, <1>9 DEF Next

(* The invariant holds at first. *)
LEMMA InitBroadcast == Init => BroadcastInv
<1> SUFFICES ASSUME Init PROVE BroadcastInv
  OBVIOUS
<1>1. 0 \in 0 .. Contacts /\ 0 \in 0 .. Mishaps /\ "off" \in Points
  BY BroadcastAssumption DEF Points
<1>2. TypeOK
  <2>1. pc \in [Actors -> Points] /\ picked \in [Actors -> SUBSET Audience]
        /\ moving \in [Actors -> BOOLEAN]
    BY <1>1 DEF Init
  <2>2. at \in [Walks -> 0 .. Contacts] /\ pos \in [Walks -> 0 .. Contacts]
    BY <1>1 DEF Init
  <2> QED BY <1>1, <2>1, <2>2 DEF Init, TypeOK
<1>3. Reached(0)
  BY BroadcastAssumption DEF Reached, Audience
<1>4. CursorInv
  <2>1. \A w \in Walks : at[w] = 0 /\ pos[w] = 0 /\ pc[w] = "off"
    BY DEF Init, Actors
  <2>2. cursor = 0 /\ ~ counted
    BY DEF Init
  <2>3. \A w \in Walks : Reached(at[w]) /\ Reached(pos[w])
    BY <1>3, <2>1
  <2> HIDE DEF Reached
  <2> QED BY <1>3, <2>1, <2>2, <2>3 DEF CursorInv
<1>5. LateInv
  BY DEF Init, LateInv
<1> QED BY <1>2, <1>4, <1>5 DEF BroadcastInv

(* The invariant of the broadcast, the types with it, holds always.         *)
THEOREM BroadcastInvAlways == Spec => []BroadcastInv
<1>1. BroadcastInv /\ [Next]_vars => BroadcastInv'
  <2> SUFFICES ASSUME BroadcastInv, [Next]_vars PROVE BroadcastInv'
    OBVIOUS
  <2>1. LateInv'
    BY LateKept
  <2>2. CASE \E w \in Walks : Walk(w) \/ Leave(w)
    BY <2>1, <2>2, WalkTyped, WalkCursor DEF BroadcastInv
  <2>3. CASE ~ \E w \in Walks : Walk(w) \/ Leave(w)
    <3>1. \/ \E a \in Actors : Sweep(a) \/ Finalize(a)
          \/ \E c \in Audience : Lane(c) \/ Park(c)
          \/ Cancel \/ Drain \/ UNCHANGED vars
      BY <2>3 DEF Next
    <3> HIDE DEF BroadcastInv
    <3>2. TypeOK
      BY DEF BroadcastInv
    <3>3. TypeOK'
      BY <3>1, <3>2, OthersTyped
    <3>4. CursorInv'
      BY <3>1, OthersCursor
    <3> QED BY <2>1, <3>3, <3>4 DEF BroadcastInv
  <2> QED BY <2>2, <2>3
<1> QED BY <1>1, InitBroadcast, PTL DEF Spec

(* Cursors stay within the audience and statuses within their enums         *)
(* (broadcasts.ts:46-57), whatever walks overlap.                           *)
THEOREM BroadcastTypeCorrect == Spec => []TypeOK
<1>1. BroadcastInv => TypeOK
  BY DEF BroadcastInv
<1> QED BY <1>1, BroadcastInvAlways, PTL

(* "A walk cut off mid-page resumes from the last committed page"           *)
(* (send-broadcast.ts:428-430): once a walk is counted, or the broadcast is *)
(* sent, every contact has its row.                                         *)
THEOREM EverybodyReached == Spec => []NobodySkipped
<1>1. BroadcastInv => NobodySkipped
  BY DEF BroadcastInv, TypeOK, CursorInv, Reached, NobodySkipped, Audience
<1> QED BY <1>1, BroadcastInvAlways, PTL

(* "A row a racing page commits afterwards is refused at send time"         *)
(* (app.ts:3327-3328): nothing written after the stop is ever claimed.      *)
THEOREM NothingLate == Spec => []LateRowsRefused
<1>1. BroadcastInv => LateRowsRefused
  BY DEF BroadcastInv, LateInv, LateRowsRefused
<1> QED BY <1>1, BroadcastInvAlways, PTL
=============================================================================
