---------------------------- MODULE MailboxProofs ----------------------------
(***************************************************************************)
(* The mailbox outbox and the drafts over it, for any number of drafts,    *)
(* revisions, handlers, claims and mishaps.  First MailboxOutbox: its type *)
(* invariant, HandedOnce, LedgersAgree and AllowanceKept.  Then            *)
(* MailboxDrafts: it is an outbox, so what holds of the rows holds of it;  *)
(* its type invariant; and ScheduleSendsOnce.                              *)
(***************************************************************************)
EXTENDS MailboxDrafts, FiniteSetTheorems, TLAPS

Idle == {"absent", "queued", "failed"}
Unhanded == {"preflight", "reserve", "reauthorize", "smtp", "refund deferred",
             "refund rejected", "deferred", "rejected"}
Uncharged == {"preflight", "deferred", "rejected"}
Charged == {"reserve", "reauthorize", "smtp", "refund deferred",
            "refund rejected", "lost", "accepted"}
\* Where an attempt may still end in the queue, its row has no receipt.
Unfenced == {"preflight", "refund deferred", "deferred"}

\* A handler between its claim and the end of its attempt.
InAttempt(s) == at[s] \in Uncharged \cup Charged

\* HandedOnce and LedgersAgree, of one row.
RowInv(r) ==
  /\ \A m, n \in taken[r] : m = n
  /\ taken[r] # {} => charge[r] = 1
  /\ status[r] \in Idle => taken[r] = {} /\ charge[r] = 0
  /\ status[r] \in {"absent", "queued"} => r \notin fenced

\* What a handler knows of its row: the row is its claim's, whatever the
\* reconcile and the provider's events did, and the ledgers are as it left them.
SenderInv(s) ==
  /\ at[s] # "off" => job[s] \in Rows
  /\ InAttempt(s) =>
       /\ mine[s] \in 1..MaxTries
       /\ attempt[job[s]] = mine[s]
       /\ status[job[s]] \in {"sending", "unknown", "accepted"}
  /\ at[s] \in Unhanded => taken[job[s]] = {}
  /\ at[s] \in Uncharged => charge[job[s]] = 0
  /\ at[s] \in Charged => charge[job[s]] = 1
  /\ at[s] \in Unfenced => job[s] \notin fenced

\* One handler at most attempts a row.
Alone ==
  \A s, t \in Senders : InAttempt(s) /\ InAttempt(t) /\ job[s] = job[t] => s = t

RowsInv == \A r \in Rows : RowInv(r)
SendersInv == \A s \in Senders : SenderInv(s)
OutboxInv == OutboxTypeOK /\ RowsInv /\ SendersInv /\ Alone

\* The state of a row and of a handler that the invariant reads.
RowKept(r) ==
  /\ status'[r] = status[r] /\ attempt'[r] = attempt[r]
  /\ charge'[r] = charge[r] /\ taken'[r] = taken[r]
  /\ (r \in fenced') <=> (r \in fenced)
SenderKept(s) == at'[s] = at[s] /\ job'[s] = job[s] /\ mine'[s] = mine[s]

Claimed == {"sending", "unknown", "accepted"}
Statuses == Idle \cup Claimed

\* The kinds of what a handler's step changes.
SendersTyped ==
  /\ at \in [Senders -> Places]
  /\ job \in [Senders -> Rows \cup {None}]
  /\ mine \in [Senders -> 0..MaxTries]

-----------------------------------------------------------------------------
\* A step of one handler on one row keeps the invariant when it keeps it there
\* and nobody else attempts the row.
LEMMA OneHandler ==
  ASSUME OutboxInv, OutboxTypeOK', NEW s \in Senders, NEW r \in Rows,
         \A t \in Senders \ {s} : SenderKept(t),
         \A q \in Rows \ {r} : RowKept(q),
         \A t \in Senders \ {s} : InAttempt(t) => job[t] # r,
         RowInv(r)', SenderInv(s)', InAttempt(s)' => job'[s] = r
  PROVE  OutboxInv'
<1>1. RowsInv'
  BY DEF OutboxInv, RowsInv, RowInv, RowKept
<1>2. ASSUME NEW t \in Senders \ {s} PROVE SenderInv(t)'
  <2>1. SenderInv(t) /\ SenderKept(t)
    BY DEF OutboxInv, SendersInv
  <2>2. InAttempt(t) => job[t] \in Rows \ {r}
    BY <2>1 DEF SenderInv, InAttempt, Uncharged, Charged
  <2>3. InAttempt(t) => RowKept(job[t])
    BY <2>2
  <2> QED
    BY <2>1, <2>3 DEF SenderInv, SenderKept, RowKept, InAttempt, Uncharged,
                      Charged, Unhanded, Unfenced
<1>3. SendersInv'
  BY <1>2 DEF SendersInv
<1>4. Alone'
  BY DEF OutboxInv, Alone, SenderKept, InAttempt
<1> QED
  BY <1>1, <1>3, <1>4 DEF OutboxInv

\* A handler that is not, or no longer, in an attempt and touches no row.
LEMMA QuietHandler ==
  ASSUME OutboxInv, OutboxTypeOK', NEW s \in Senders,
         \A t \in Senders \ {s} : SenderKept(t),
         \A q \in Rows : RowKept(q),
         SenderInv(s)', ~InAttempt(s)'
  PROVE  OutboxInv'
<1>1. RowsInv'
  BY DEF OutboxInv, RowsInv, RowInv, RowKept
<1>2. ASSUME NEW t \in Senders \ {s} PROVE SenderInv(t)'
  <2>1. SenderInv(t) /\ SenderKept(t)
    BY DEF OutboxInv, SendersInv
  <2>2. InAttempt(t) => job[t] \in Rows
    BY <2>1 DEF SenderInv, InAttempt, Uncharged, Charged
  <2>3. InAttempt(t) => RowKept(job[t])
    BY <2>2
  <2> QED
    BY <2>1, <2>3 DEF SenderInv, SenderKept, RowKept, InAttempt, Uncharged,
                      Charged, Unhanded, Unfenced
<1>3. SendersInv'
  BY <1>2 DEF SendersInv
<1>4. Alone'
  BY DEF OutboxInv, Alone, SenderKept, InAttempt
<1> QED
  BY <1>1, <1>3, <1>4 DEF OutboxInv

\* A step that moves no handler keeps the invariant when every row keeps its
\* claim and ledgers, or its status moves among those of a claimed row.
LEMMA NoHandler ==
  ASSUME OutboxInv, OutboxTypeOK', UNCHANGED << at, job, mine, ledgers, taken >>,
         \A r \in Rows : RowInv(r)',
         \A r \in Rows : status[r] \in Claimed =>
           status'[r] \in Claimed /\ attempt'[r] = attempt[r]
  PROVE  OutboxInv'
<1>1. ASSUME NEW s \in Senders PROVE SenderInv(s)'
  BY DEF OutboxInv, SendersInv, SenderInv, InAttempt, ledgers, Claimed,
         Uncharged, Charged, Unhanded, Unfenced
<1> QED
  BY <1>1 DEF OutboxInv, RowsInv, SendersInv, Alone, InAttempt

\* Nobody attempts a row that is not claimed; nobody else one that is.
LEMMA Others ==
  ASSUME OutboxInv, NEW s \in Senders, NEW r \in Rows,
         status[r] \in Idle \/ (InAttempt(s) /\ job[s] = r)
  PROVE  \A t \in Senders \ {s} : InAttempt(t) => job[t] # r
BY DEF OutboxInv, SendersInv, SenderInv, Alone, Idle

-----------------------------------------------------------------------------
LEMMA InitInv == ASSUME OutboxInit PROVE OutboxInv
<1>1. OutboxTypeOK
  BY OutboxAssumption DEF OutboxInit, OutboxTypeOK, Places
<1>2. RowsInv
  BY DEF OutboxInit, RowsInv, RowInv
<1>3. SendersInv /\ Alone
  BY DEF OutboxInit, SendersInv, SenderInv, Alone, InAttempt, Uncharged,
         Charged, Unhanded, Unfenced
<1> QED
  BY <1>1, <1>2, <1>3 DEF OutboxInv
-----------------------------------------------------------------------------
\* What the helpers of the actions do to a handler and to a row.
LEMMA MoveEffect ==
  ASSUME OutboxTypeOK, NEW s \in Senders, NEW place \in Places, MoveTo(s, place)
  PROVE  /\ SendersTyped'
         /\ at'[s] = place /\ job'[s] = job[s] /\ mine'[s] = mine[s]
         /\ \A t \in Senders \ {s} : SenderKept(t)
BY DEF OutboxTypeOK, SendersTyped, MoveTo, Goto, SenderKept

LEMMA LeaveEffect ==
  ASSUME OutboxTypeOK, NEW s \in Senders, Leave(s)
  PROVE  /\ SendersTyped'
         /\ at'[s] = "off"
         /\ \A t \in Senders \ {s} : SenderKept(t)
<1>1. "off" \in Places /\ 0 \in 0..MaxTries
  BY OutboxAssumption DEF Places
<1> QED
  BY <1>1 DEF OutboxTypeOK, SendersTyped, Leave, Goto, SenderKept

LEMMA StatusEffect ==
  ASSUME OutboxTypeOK, NEW r \in Rows, NEW to \in Statuses, SetStatus(r, to)
  PROVE  /\ status' \in [Rows -> Statuses] /\ aged' \subseteq Rows
         /\ status'[r] = to
         /\ \A q \in Rows \ {r} : status'[q] = status[q]
BY DEF OutboxTypeOK, SetStatus, Statuses, Idle, Claimed

LEMMA ChargeEffect ==
  ASSUME charge \in [Rows -> 0..1], NEW r \in Rows, NEW n \in 0..1,
         charge' = [charge EXCEPT ![r] = n]
  PROVE  /\ charge' \in [Rows -> 0..1] /\ charge'[r] = n
         /\ \A q \in Rows \ {r} : charge'[q] = charge[q]
OBVIOUS

LEMMA SettleEffect ==
  ASSUME OutboxTypeOK, NEW r \in Rows, NEW n, NEW to \in Statuses, Settle(r, n, to)
  PROVE  /\ status' \in [Rows -> Statuses] /\ aged' \subseteq Rows
         /\ \/ status'[r] = status[r]
            \/ status'[r] = to /\ attempt[r] = n /\ status[r] \in {"sending", "unknown"}
         /\ \A q \in Rows \ {r} : status'[q] = status[q]
<1>1. CASE Open(r, n)
  BY <1>1, StatusEffect DEF Settle, Open
<1>2. CASE ~Open(r, n)
  BY <1>2 DEF OutboxTypeOK, Settle, Keep, Statuses, Idle, Claimed
<1> QED
  BY <1>1, <1>2

-----------------------------------------------------------------------------
\* Every step of a handler on its row.
LEMMA ClaimInv ==
  ASSUME OutboxInv, NEW s \in Senders, NEW r \in Rows, job[s] = r, Claim(s)
  PROVE  OutboxInv'
<1>1. OutboxTypeOK /\ RowInv(r) /\ status[r] = "queued" /\ tries[r] + 1 \in 1..MaxTries
  BY OutboxAssumption DEF OutboxInv, OutboxTypeOK, RowsInv, Claim
<1>2. /\ status' \in [Rows -> Statuses] /\ aged' \subseteq Rows
      /\ status'[r] = "sending"
      /\ \A q \in Rows \ {r} : status'[q] = status[q]
  BY <1>1, StatusEffect DEF Claim, Statuses, Claimed
<1>3. /\ tries' \in [Rows -> 0..MaxTries] /\ attempt' \in [Rows -> 0..MaxTries]
      /\ attempt'[r] = tries[r] + 1
      /\ \A q \in Rows \ {r} : attempt'[q] = attempt[q]
  BY <1>1, OutboxAssumption DEF OutboxTypeOK, Claim
<1>4. /\ SendersTyped'
      /\ at'[s] = "preflight" /\ job'[s] = r /\ mine'[s] = tries[r] + 1
      /\ \A t \in Senders \ {s} : SenderKept(t)
  <2>1. "preflight" \in Places
    BY DEF Places
  <2> QED
    BY <1>1, <2>1, OutboxAssumption DEF OutboxTypeOK, SendersTyped, SenderKept, Claim, Goto
<1>5. UNCHANGED << ledgers, taken, jobs, mishaps >>
  BY DEF Claim
<1>6. OutboxTypeOK'
  BY <1>1, <1>2, <1>3, <1>4, <1>5
     DEF OutboxTypeOK, SendersTyped, Statuses, Idle, Claimed, ledgers, jobs
<1>7. RowInv(r)' /\ SenderInv(s)'
  BY <1>1, <1>2, <1>3, <1>4, <1>5
     DEF RowInv, SenderInv, InAttempt, Idle, Charged, Uncharged, Unhanded, Unfenced,
         ledgers, jobs
<1>8. \A q \in Rows \ {r} : RowKept(q)
  BY <1>2, <1>3, <1>5 DEF RowKept, ledgers
<1>9. \A t \in Senders \ {s} : InAttempt(t) => job[t] # r
  BY <1>1, Others DEF Idle
<1> QED
  BY <1>4, <1>6, <1>7, <1>8, <1>9, OneHandler

LEMMA TooLateInv ==
  ASSUME OutboxInv, NEW s \in Senders, NEW r \in Rows, job[s] = r, TooLate(s)
  PROVE  OutboxInv'
<1>1. OutboxTypeOK
  BY DEF OutboxInv
<1>2. SendersTyped' /\ at'[s] = "off" /\ \A t \in Senders \ {s} : SenderKept(t)
  BY <1>1, LeaveEffect DEF TooLate
<1>3. UNCHANGED << rowVars, ledgers, taken, jobs, mishaps >>
  BY <1>1 DEF TooLate, OutboxTypeOK
<1>4. OutboxTypeOK'
  BY <1>1, <1>2, <1>3 DEF OutboxTypeOK, SendersTyped, rowVars, ledgers, jobs
<1>5. SenderInv(s)' /\ ~InAttempt(s)'
  BY <1>2 DEF SenderInv, InAttempt, Charged, Uncharged, Unhanded, Unfenced
<1>6. \A q \in Rows : RowKept(q)
  BY <1>3 DEF RowKept, rowVars, ledgers
<1> QED
  BY <1>2, <1>4, <1>5, <1>6, QuietHandler

LEMMA RefuseInv ==
  ASSUME OutboxInv, NEW s \in Senders, NEW r \in Rows, job[s] = r, Refuse(s)
  PROVE  OutboxInv'
<1>1. OutboxTypeOK
  BY DEF OutboxInv
<1>2. /\ SendersTyped'
      /\ at'[s] = "refused" /\ job'[s] = r
      /\ \A t \in Senders \ {s} : SenderKept(t)
  BY <1>1, MoveEffect DEF Refuse, Places
<1>3. UNCHANGED << rowVars, ledgers, taken, jobs, mishaps >>
  BY <1>1 DEF Refuse, OutboxTypeOK
<1>4. OutboxTypeOK'
  BY <1>1, <1>2, <1>3 DEF OutboxTypeOK, SendersTyped, rowVars, ledgers, jobs
<1>5. SenderInv(s)' /\ ~InAttempt(s)'
  BY <1>2 DEF SenderInv, InAttempt, Charged, Uncharged, Unhanded, Unfenced
<1>6. \A q \in Rows : RowKept(q)
  BY <1>3 DEF RowKept, rowVars, ledgers
<1> QED
  BY <1>2, <1>4, <1>5, <1>6, QuietHandler

LEMMA ResendInv ==
  ASSUME OutboxInv, NEW s \in Senders, NEW r \in Rows, job[s] = r, Resend(s)
  PROVE  OutboxInv'
<1>1. OutboxTypeOK
  BY DEF OutboxInv
<1>2. SendersTyped' /\ at'[s] = "off" /\ \A t \in Senders \ {s} : SenderKept(t)
  BY <1>1, LeaveEffect DEF Resend
<1>3. waiting' \in SUBSET Rows /\ UNCHANGED << rowVars, ledgers, taken, dead, mishaps >>
  BY <1>1 DEF Resend, OutboxTypeOK
<1>4. OutboxTypeOK'
  BY <1>1, <1>2, <1>3 DEF OutboxTypeOK, SendersTyped, rowVars, ledgers, jobs
<1>5. SenderInv(s)' /\ ~InAttempt(s)'
  BY <1>2 DEF SenderInv, InAttempt, Charged, Uncharged, Unhanded, Unfenced
<1>6. \A q \in Rows : RowKept(q)
  BY <1>3 DEF RowKept, rowVars, ledgers
<1> QED
  BY <1>2, <1>4, <1>5, <1>6, QuietHandler

LEMMA RecordRefusalInv ==
  ASSUME OutboxInv, NEW s \in Senders, NEW r \in Rows, job[s] = r, RecordRefusal(s)
  PROVE  OutboxInv'
<1>1. OutboxTypeOK /\ RowInv(r)
  BY DEF OutboxInv, RowsInv
<1>2. SendersTyped' /\ at'[s] = "off" /\ \A t \in Senders \ {s} : SenderKept(t)
  BY <1>1, LeaveEffect DEF RecordRefusal
<1>3. UNCHANGED << attempt, tries, ledgers, taken, jobs, mishaps >>
  BY DEF RecordRefusal
<1>4. SenderInv(s)' /\ ~InAttempt(s)'
  BY <1>2 DEF SenderInv, InAttempt, Charged, Uncharged, Unhanded, Unfenced
<1>5. CASE status[r] = "queued"
  <2>1. /\ status' \in [Rows -> Statuses] /\ aged' \subseteq Rows
        /\ status'[r] = "failed"
        /\ \A q \in Rows \ {r} : status'[q] = status[q]
    BY <1>1, <1>5, StatusEffect DEF RecordRefusal, FailIfQueued, Statuses, Idle
  <2>2. OutboxTypeOK'
    BY <1>1, <1>2, <1>3, <2>1
       DEF OutboxTypeOK, SendersTyped, Statuses, Idle, Claimed, ledgers, jobs
  <2>3. RowInv(r)'
    BY <1>1, <1>3, <1>5, <2>1 DEF RowInv, Idle, ledgers
  <2>4. \A q \in Rows \ {r} : RowKept(q)
    BY <1>3, <2>1 DEF RowKept, ledgers
  <2>5. \A t \in Senders \ {s} : InAttempt(t) => job[t] # r
    BY <1>5, Others DEF Idle
  <2> QED
    BY <1>2, <1>4, <2>2, <2>3, <2>4, <2>5, OneHandler
<1>6. CASE status[r] # "queued"
  <2>1. UNCHANGED << status, aged >>
    BY <1>6 DEF RecordRefusal, FailIfQueued, Keep
  <2>2. OutboxTypeOK'
    BY <1>1, <1>2, <1>3, <2>1 DEF OutboxTypeOK, SendersTyped, ledgers, jobs
  <2>3. \A q \in Rows : RowKept(q)
    BY <1>3, <2>1 DEF RowKept, ledgers
  <2> QED
    BY <1>2, <1>4, <2>2, <2>3, QuietHandler
<1> QED
  BY <1>5, <1>6

LEMMA PreflightInv ==
  ASSUME OutboxInv, NEW s \in Senders, NEW r \in Rows, job[s] = r, Preflight(s)
  PROVE  OutboxInv'
<1>1. OutboxTypeOK /\ RowInv(r) /\ SenderInv(s) /\ InAttempt(s)
  BY DEF OutboxInv, RowsInv, SendersInv, Preflight, InAttempt, Uncharged, Charged
<1>2. /\ attempt[r] = mine[s] /\ mine[s] \in 1..MaxTries /\ status[r] \in Claimed
      /\ taken[r] = {} /\ charge[r] = 0 /\ r \notin fenced
  BY <1>1 DEF SenderInv, Claimed, Preflight, Uncharged, Charged, Unhanded, Unfenced
<1>3. charge \in [Rows -> 0..1] /\ charge[r] + 1 = 1 /\ 1 \in 0..1
  <2>1. charge[r] = 0
    BY <1>2
  <2> QED
    BY <1>1, <2>1 DEF OutboxTypeOK
<1>4. PICK place \in {"deferred", "smtp", "reserve", "refund deferred"} :
        MoveTo(s, place)
        /\ charge' = IF place = "deferred" THEN charge ELSE [charge EXCEPT ![r] = @ + 1]
  BY <1>1, <1>2 DEF Preflight
<1>5. /\ SendersTyped'
      /\ at'[s] = place /\ job'[s] = r /\ mine'[s] = mine[s]
      /\ \A t \in Senders \ {s} : SenderKept(t)
  <2>1. place \in Places
    BY DEF Places
  <2> QED
    BY <1>1, <1>4, <2>1, MoveEffect
<1>6. UNCHANGED << rowVars, fenced, taken, jobs, mishaps >>
  BY DEF Preflight
<1>7. /\ charge' \in [Rows -> 0..1] /\ charge'[r] = (IF place = "deferred" THEN 0 ELSE 1)
      /\ \A q \in Rows \ {r} : charge'[q] = charge[q]
  <2>1. CASE place = "deferred"
    BY <1>2, <1>4, <1>3, <2>1
  <2>2. CASE place # "deferred"
    <3>1. charge' = [charge EXCEPT ![r] = 1]
      BY <1>4, <1>3, <2>2
    <3>2. /\ charge' \in [Rows -> 0..1] /\ charge'[r] = 1
          /\ \A q \in Rows \ {r} : charge'[q] = charge[q]
      BY <1>3, <3>1, ChargeEffect
    <3> QED
      BY <2>2, <3>2
  <2> QED
    BY <2>1, <2>2
<1>8. OutboxTypeOK'
  BY <1>1, <1>5, <1>6, <1>7 DEF OutboxTypeOK, SendersTyped, rowVars, ledgers, jobs
<1>9. RowInv(r)'
  BY <1>1, <1>2, <1>6, <1>7 DEF RowInv, Idle, Claimed, rowVars, ledgers
<1>10. SenderInv(s)'
  BY <1>2, <1>4, <1>5, <1>6, <1>7
     DEF SenderInv, InAttempt, Claimed, Charged, Uncharged, Unhanded, Unfenced,
         rowVars, ledgers
<1>11. \A q \in Rows \ {r} : RowKept(q)
  BY <1>6, <1>7 DEF RowKept, rowVars, ledgers
<1>12. \A t \in Senders \ {s} : InAttempt(t) => job[t] # r
  BY <1>1, Others
<1> QED
  BY <1>5, <1>8, <1>9, <1>10, <1>11, <1>12, OneHandler

LEMMA ReserveInv ==
  ASSUME OutboxInv, NEW s \in Senders, NEW r \in Rows, job[s] = r, Reserve(s)
  PROVE  OutboxInv'
<1>1. OutboxTypeOK /\ RowInv(r) /\ SenderInv(s) /\ InAttempt(s)
  BY DEF OutboxInv, RowsInv, SendersInv, Reserve, InAttempt, Uncharged, Charged
<1>2. /\ attempt[r] = mine[s] /\ mine[s] \in 1..MaxTries /\ status[r] \in Claimed
      /\ taken[r] = {} /\ charge[r] = 1
  BY <1>1 DEF SenderInv, Claimed, Reserve, Uncharged, Charged, Unhanded, Unfenced
<1>3. PICK place \in {"lost", "refund deferred", "reauthorize"} :
        MoveTo(s, place)
        /\ fenced' = (IF place = "reauthorize" THEN fenced \cup {r} ELSE fenced)
        /\ (place = "refund deferred" => r \notin fenced)
  BY <1>1, <1>2 DEF Reserve
<1>4. /\ SendersTyped'
      /\ at'[s] = place /\ job'[s] = r /\ mine'[s] = mine[s]
      /\ \A t \in Senders \ {s} : SenderKept(t)
  <2>1. place \in Places
    BY DEF Places
  <2> QED
    BY <1>1, <1>3, <2>1, MoveEffect
<1>5. UNCHANGED << rowVars, charge, taken, jobs, mishaps >>
  BY DEF Reserve
<1>6. /\ fenced' \subseteq Rows
      /\ \A q \in Rows \ {r} : (q \in fenced') <=> (q \in fenced)
      /\ (place = "refund deferred" => r \notin fenced')
  BY <1>1, <1>2, <1>3, <1>5 DEF OutboxTypeOK
<1>7. OutboxTypeOK'
  BY <1>1, <1>4, <1>5, <1>6 DEF OutboxTypeOK, SendersTyped, rowVars, ledgers, jobs
<1>8. RowInv(r)'
  BY <1>1, <1>2, <1>5, <1>6 DEF RowInv, Idle, Claimed, rowVars, ledgers
<1>9. SenderInv(s)'
  BY <1>2, <1>3, <1>4, <1>5, <1>6
     DEF SenderInv, InAttempt, Claimed, Charged, Uncharged, Unhanded, Unfenced,
         rowVars, ledgers
<1>10. \A q \in Rows \ {r} : RowKept(q)
  BY <1>5, <1>6 DEF RowKept, rowVars, ledgers
<1>11. \A t \in Senders \ {s} : InAttempt(t) => job[t] # r
  BY <1>1, Others
<1> QED
  BY <1>4, <1>7, <1>8, <1>9, <1>10, <1>11, OneHandler

LEMMA ReauthorizeInv ==
  ASSUME OutboxInv, NEW s \in Senders, NEW r \in Rows, job[s] = r, Reauthorize(s)
  PROVE  OutboxInv'
<1>1. OutboxTypeOK /\ RowInv(r) /\ SenderInv(s) /\ InAttempt(s)
  BY DEF OutboxInv, RowsInv, SendersInv, Reauthorize, InAttempt, Uncharged, Charged
<1>2. /\ attempt[r] = mine[s] /\ mine[s] \in 1..MaxTries /\ status[r] \in Claimed
      /\ taken[r] = {} /\ charge[r] = 1
  BY <1>1 DEF SenderInv, Claimed, Reauthorize, Uncharged, Charged, Unhanded, Unfenced
<1>3. PICK place \in {"smtp", "lost"} :
        MoveTo(s, place)
  BY <1>1, <1>2 DEF Reauthorize
<1>4. /\ SendersTyped'
      /\ at'[s] = place /\ job'[s] = r /\ mine'[s] = mine[s]
      /\ \A t \in Senders \ {s} : SenderKept(t)
  <2>1. place \in Places
    BY DEF Places
  <2> QED
    BY <1>1, <1>3, <2>1, MoveEffect
<1>5. UNCHANGED << rowVars, ledgers, taken, jobs, mishaps >>
  BY DEF Reauthorize
<1>6. TRUE
  BY <1>1, <1>2, <1>3, <1>5
<1>7. OutboxTypeOK'
  BY <1>1, <1>4, <1>5, <1>6 DEF OutboxTypeOK, SendersTyped, rowVars, ledgers, jobs
<1>8. RowInv(r)'
  BY <1>1, <1>2, <1>5, <1>6 DEF RowInv, Idle, Claimed, rowVars, ledgers
<1>9. SenderInv(s)'
  BY <1>2, <1>3, <1>4, <1>5, <1>6
     DEF SenderInv, InAttempt, Claimed, Charged, Uncharged, Unhanded, Unfenced,
         rowVars, ledgers
<1>10. \A q \in Rows \ {r} : RowKept(q)
  BY <1>5, <1>6 DEF RowKept, rowVars, ledgers
<1>11. \A t \in Senders \ {s} : InAttempt(t) => job[t] # r
  BY <1>1, Others
<1> QED
  BY <1>4, <1>7, <1>8, <1>9, <1>10, <1>11, OneHandler

LEMMA HandOverInv ==
  ASSUME OutboxInv, NEW s \in Senders, NEW r \in Rows, job[s] = r, HandOver(s)
  PROVE  OutboxInv'
<1>1. OutboxTypeOK /\ RowInv(r) /\ SenderInv(s) /\ InAttempt(s)
  BY DEF OutboxInv, RowsInv, SendersInv, HandOver, InAttempt, Uncharged, Charged
<1>2. /\ attempt[r] = mine[s] /\ mine[s] \in 1..MaxTries /\ status[r] \in Claimed
      /\ taken[r] = {} /\ charge[r] = 1
  BY <1>1 DEF SenderInv, Claimed, HandOver, Uncharged, Charged, Unhanded, Unfenced
<1>3. PICK place \in {"accepted", "lost"} :
        MoveTo(s, place)
        /\ taken' = [taken EXCEPT ![r] = @ \cup {mine[s]}]
  BY <1>1, <1>2 DEF HandOver
<1>4. /\ SendersTyped'
      /\ at'[s] = place /\ job'[s] = r /\ mine'[s] = mine[s]
      /\ \A t \in Senders \ {s} : SenderKept(t)
  <2>1. place \in Places
    BY DEF Places
  <2> QED
    BY <1>1, <1>3, <2>1, MoveEffect
<1>5. UNCHANGED << rowVars, ledgers, jobs, mishaps >>
  BY DEF HandOver
<1>6. /\ taken' \in [Rows -> SUBSET (1..MaxTries)] /\ taken'[r] = {mine[s]}
      /\ \A q \in Rows \ {r} : taken'[q] = taken[q]
  BY <1>1, <1>2, <1>3, <1>5 DEF OutboxTypeOK
<1>7. OutboxTypeOK'
  BY <1>1, <1>4, <1>5, <1>6 DEF OutboxTypeOK, SendersTyped, rowVars, ledgers, jobs
<1>8. RowInv(r)'
  BY <1>1, <1>2, <1>5, <1>6 DEF RowInv, Idle, Claimed, rowVars, ledgers
<1>9. SenderInv(s)'
  BY <1>2, <1>3, <1>4, <1>5, <1>6
     DEF SenderInv, InAttempt, Claimed, Charged, Uncharged, Unhanded, Unfenced,
         rowVars, ledgers
<1>10. \A q \in Rows \ {r} : RowKept(q)
  BY <1>5, <1>6 DEF RowKept, rowVars, ledgers
<1>11. \A t \in Senders \ {s} : InAttempt(t) => job[t] # r
  BY <1>1, Others
<1> QED
  BY <1>4, <1>7, <1>8, <1>9, <1>10, <1>11, OneHandler

LEMMA NotTakenInv ==
  ASSUME OutboxInv, NEW s \in Senders, NEW r \in Rows, job[s] = r, NotTaken(s)
  PROVE  OutboxInv'
<1>1. OutboxTypeOK /\ RowInv(r) /\ SenderInv(s) /\ InAttempt(s)
  BY DEF OutboxInv, RowsInv, SendersInv, NotTaken, InAttempt, Uncharged, Charged
<1>2. /\ attempt[r] = mine[s] /\ mine[s] \in 1..MaxTries /\ status[r] \in Claimed
      /\ taken[r] = {} /\ charge[r] = 1
  BY <1>1 DEF SenderInv, Claimed, NotTaken, Uncharged, Charged, Unhanded, Unfenced
<1>3. PICK place \in {"refund rejected", "refund deferred", "lost"} :
        MoveTo(s, place)
        /\ (place = "refund deferred" => r \notin fenced)
  BY <1>1, <1>2 DEF NotTaken
<1>4. /\ SendersTyped'
      /\ at'[s] = place /\ job'[s] = r /\ mine'[s] = mine[s]
      /\ \A t \in Senders \ {s} : SenderKept(t)
  <2>1. place \in Places
    BY DEF Places
  <2> QED
    BY <1>1, <1>3, <2>1, MoveEffect
<1>5. UNCHANGED << rowVars, ledgers, taken, jobs, mishaps >>
  BY DEF NotTaken
<1>6. TRUE
  BY <1>1, <1>2, <1>3, <1>5
<1>7. OutboxTypeOK'
  BY <1>1, <1>4, <1>5, <1>6 DEF OutboxTypeOK, SendersTyped, rowVars, ledgers, jobs
<1>8. RowInv(r)'
  BY <1>1, <1>2, <1>5, <1>6 DEF RowInv, Idle, Claimed, rowVars, ledgers
<1>9. SenderInv(s)'
  BY <1>2, <1>3, <1>4, <1>5, <1>6
     DEF SenderInv, InAttempt, Claimed, Charged, Uncharged, Unhanded, Unfenced,
         rowVars, ledgers
<1>10. \A q \in Rows \ {r} : RowKept(q)
  BY <1>5, <1>6 DEF RowKept, rowVars, ledgers
<1>11. \A t \in Senders \ {s} : InAttempt(t) => job[t] # r
  BY <1>1, Others
<1> QED
  BY <1>4, <1>7, <1>8, <1>9, <1>10, <1>11, OneHandler

LEMMA RefundInv ==
  ASSUME OutboxInv, NEW s \in Senders, NEW r \in Rows, job[s] = r, Refund(s)
  PROVE  OutboxInv'
<1>1. OutboxTypeOK /\ RowInv(r) /\ SenderInv(s) /\ InAttempt(s)
  BY DEF OutboxInv, RowsInv, SendersInv, Refund, InAttempt, Uncharged, Charged
<1>2. /\ attempt[r] = mine[s] /\ mine[s] \in 1..MaxTries /\ status[r] \in Claimed
      /\ taken[r] = {} /\ charge[r] = 1
      /\ (at[s] = "refund deferred" => r \notin fenced)
  BY <1>1 DEF SenderInv, Claimed, Refund, Uncharged, Charged, Unhanded, Unfenced
<1>3. PICK place \in {"deferred", "rejected"} :
        MoveTo(s, place)
        /\ charge' = [charge EXCEPT ![r] = @ - 1]
        /\ (place = "deferred" => at[s] = "refund deferred")
  BY <1>1, <1>2 DEF Refund
<1>4. /\ SendersTyped'
      /\ at'[s] = place /\ job'[s] = r /\ mine'[s] = mine[s]
      /\ \A t \in Senders \ {s} : SenderKept(t)
  <2>1. place \in Places
    BY DEF Places
  <2> QED
    BY <1>1, <1>3, <2>1, MoveEffect
<1>5. UNCHANGED << rowVars, fenced, taken, jobs, mishaps >>
  BY DEF Refund
<1>6. /\ charge' \in [Rows -> 0..1] /\ charge'[r] = 0
      /\ \A q \in Rows \ {r} : charge'[q] = charge[q]
  <2>1. charge \in [Rows -> 0..1] /\ charge[r] = 1
    BY <1>1, <1>2 DEF OutboxTypeOK
  <2>4. charge[r] - 1 = 0
    BY <2>1
  <2>2. charge' = [charge EXCEPT ![r] = 0]
    BY <1>3, <2>4
  <2> QED
    BY <2>1, <2>2
<1>7. OutboxTypeOK'
  BY <1>1, <1>4, <1>5, <1>6 DEF OutboxTypeOK, SendersTyped, rowVars, ledgers, jobs
<1>8. RowInv(r)'
  BY <1>1, <1>2, <1>5, <1>6 DEF RowInv, Idle, Claimed, rowVars, ledgers
<1>9. SenderInv(s)'
  BY <1>2, <1>3, <1>4, <1>5, <1>6
     DEF SenderInv, InAttempt, Claimed, Charged, Uncharged, Unhanded, Unfenced,
         rowVars, ledgers
<1>10. \A q \in Rows \ {r} : RowKept(q)
  BY <1>5, <1>6 DEF RowKept, rowVars, ledgers
<1>11. \A t \in Senders \ {s} : InAttempt(t) => job[t] # r
  BY <1>1, Others
<1> QED
  BY <1>4, <1>7, <1>8, <1>9, <1>10, <1>11, OneHandler

LEMMA DeferInv ==
  ASSUME OutboxInv, NEW s \in Senders, NEW r \in Rows, job[s] = r, Defer(s)
  PROVE  OutboxInv'
<1>1. OutboxTypeOK /\ RowInv(r) /\ SenderInv(s) /\ InAttempt(s)
  BY DEF OutboxInv, RowsInv, SendersInv, Defer, InAttempt, Uncharged, Charged
<1>2. /\ attempt[r] = mine[s] /\ mine[s] \in 1..MaxTries /\ status[r] \in Claimed
      /\ taken[r] = {} /\ charge[r] = 0 /\ r \notin fenced
  BY <1>1 DEF SenderInv, Claimed, Defer, Uncharged, Charged, Unhanded, Unfenced
<1>3. UNCHANGED << tries, ledgers, taken, jobs, mishaps >>
  BY DEF Defer
<1>4. /\ SendersTyped'
      /\ ~InAttempt(s)' /\ SenderInv(s)'
      /\ \A t \in Senders \ {s} : SenderKept(t)
  <2>1. CASE MoveTo(s, "resend")
    BY <1>1, <2>1, MoveEffect
       DEF Places, SenderInv, InAttempt, Charged, Uncharged, Unhanded, Unfenced
  <2>2. CASE Leave(s)
    BY <1>1, <2>2, LeaveEffect
       DEF SenderInv, InAttempt, Charged, Uncharged, Unhanded, Unfenced
  <2> QED
    BY <2>1, <2>2 DEF Defer
<1>5. /\ status' \in [Rows -> Statuses] /\ aged' \subseteq Rows
      /\ \A q \in Rows \ {r} : status'[q] = status[q]
  <2>1. CASE SetStatus(r, "queued")
    BY <1>1, <2>1, StatusEffect DEF Statuses, Idle
  <2>2. CASE Keep
    BY <1>1, <2>2 DEF Keep, OutboxTypeOK, Statuses, Idle, Claimed
  <2> QED
    BY <2>1, <2>2 DEF Defer
<1>6. /\ attempt' \in [Rows -> 0..MaxTries]
      /\ \A q \in Rows \ {r} : attempt'[q] = attempt[q]
  BY <1>1, OutboxAssumption DEF Defer, OutboxTypeOK
<1>7. OutboxTypeOK'
  BY <1>1, <1>3, <1>4, <1>5, <1>6
     DEF OutboxTypeOK, SendersTyped, Statuses, Idle, Claimed, ledgers, jobs
<1>8. RowInv(r)'
  BY <1>2, <1>3 DEF RowInv, ledgers
<1>9. \A q \in Rows \ {r} : RowKept(q)
  BY <1>3, <1>5, <1>6 DEF RowKept, ledgers
<1>10. \A t \in Senders \ {s} : InAttempt(t) => job[t] # r
  BY <1>1, Others
<1> QED
  BY <1>4, <1>7, <1>8, <1>9, <1>10, OneHandler

LEMMA ConcludeInv ==
  ASSUME OutboxInv, NEW s \in Senders, NEW r \in Rows, job[s] = r, Conclude(s)
  PROVE  OutboxInv'
<1>1. OutboxTypeOK /\ RowInv(r) /\ SenderInv(s) /\ InAttempt(s)
  BY DEF OutboxInv, RowsInv, SendersInv, Conclude, InAttempt, Uncharged, Charged
<1>2. /\ attempt[r] = mine[s] /\ mine[s] \in 1..MaxTries /\ status[r] \in Claimed
      /\ (at[s] = "rejected" => taken[r] = {} /\ charge[r] = 0)
  BY <1>1 DEF SenderInv, Claimed, Conclude, Uncharged, Charged, Unhanded, Unfenced
<1>3. UNCHANGED << attempt, tries, ledgers, taken, jobs, mishaps >>
  BY DEF Conclude
<1>4. /\ SendersTyped'
      /\ SenderInv(s)' /\ (InAttempt(s)' => job'[s] = r)
      /\ \A t \in Senders \ {s} : SenderKept(t)
  BY <1>1, LeaveEffect
     DEF Conclude, SenderInv, InAttempt, Charged, Uncharged, Unhanded, Unfenced
<1>5. /\ status' \in [Rows -> Statuses] /\ aged' \subseteq Rows
      /\ \/ status'[r] \in Claimed
         \/ status'[r] = "failed" /\ taken[r] = {} /\ charge[r] = 0
      /\ \A q \in Rows \ {r} : status'[q] = status[q]
  <2>1. PICK to \in {"failed", "unknown"} :
          Settle(r, mine[s], to) /\ (to = "failed" => at[s] = "rejected")
    BY DEF Conclude
  <2>2. to \in Statuses
    BY DEF Statuses, Idle, Claimed
  <2> QED
    BY <1>1, <1>2, <2>1, <2>2, SettleEffect DEF Claimed
<1>7. OutboxTypeOK'
  BY <1>1, <1>3, <1>4, <1>5
     DEF OutboxTypeOK, SendersTyped, Statuses, Idle, Claimed, ledgers, jobs
<1>8. RowInv(r)'
  BY <1>1, <1>2, <1>3, <1>5 DEF RowInv, Idle, Claimed, ledgers
<1>9. \A q \in Rows \ {r} : RowKept(q)
  BY <1>3, <1>5 DEF RowKept, ledgers
<1>10. \A t \in Senders \ {s} : InAttempt(t) => job[t] # r
  BY <1>1, Others
<1> QED
  BY <1>4, <1>7, <1>8, <1>9, <1>10, OneHandler

LEMMA AcceptInv ==
  ASSUME OutboxInv, NEW s \in Senders, NEW r \in Rows, job[s] = r, Accept(s)
  PROVE  OutboxInv'
<1>1. OutboxTypeOK /\ RowInv(r) /\ SenderInv(s) /\ InAttempt(s)
  BY DEF OutboxInv, RowsInv, SendersInv, Accept, InAttempt, Uncharged, Charged
<1>2. /\ attempt[r] = mine[s] /\ mine[s] \in 1..MaxTries /\ status[r] \in Claimed
      /\ (at[s] = "rejected" => taken[r] = {} /\ charge[r] = 0)
  BY <1>1 DEF SenderInv, Claimed, Accept, Uncharged, Charged, Unhanded, Unfenced
<1>3. UNCHANGED << attempt, tries, ledgers, taken, jobs, mishaps >>
  BY DEF Accept
<1>5. /\ status' \in [Rows -> Statuses] /\ aged' \subseteq Rows
      /\ status'[r] \in Claimed
      /\ \A q \in Rows \ {r} : status'[q] = status[q]
  <2>1. CASE Settle(r, mine[s], "accepted")
    BY <1>1, <1>2, <2>1, SettleEffect DEF Statuses, Claimed
  <2>2. CASE Keep
    BY <1>1, <1>2, <2>2 DEF Keep, OutboxTypeOK, Statuses, Idle, Claimed
  <2> QED
    BY <2>1, <2>2 DEF Accept
<1>4. /\ SendersTyped'
      /\ SenderInv(s)' /\ (InAttempt(s)' => job'[s] = r)
      /\ \A t \in Senders \ {s} : SenderKept(t)
  <2>1. CASE Leave(s)
    BY <1>1, <2>1, LeaveEffect
       DEF SenderInv, InAttempt, Charged, Uncharged, Unhanded, Unfenced
  <2>2. CASE MoveTo(s, "lost")
    <3>1. /\ SendersTyped'
          /\ at'[s] = "lost" /\ job'[s] = r /\ mine'[s] = mine[s]
          /\ \A t \in Senders \ {s} : SenderKept(t)
      BY <1>1, <2>2, MoveEffect DEF Places
    <3>2. charge[r] = 1
      BY <1>1 DEF Accept, SenderInv, Charged
    <3> QED
      BY <1>2, <1>3, <1>5, <3>1, <3>2
         DEF SenderInv, InAttempt, Claimed, Charged, Uncharged, Unhanded, Unfenced, ledgers
  <2> QED
    BY <2>1, <2>2 DEF Accept
<1>7. OutboxTypeOK'
  BY <1>1, <1>3, <1>4, <1>5
     DEF OutboxTypeOK, SendersTyped, Statuses, Idle, Claimed, ledgers, jobs
<1>8. RowInv(r)'
  BY <1>1, <1>2, <1>3, <1>5 DEF RowInv, Idle, Claimed, ledgers
<1>9. \A q \in Rows \ {r} : RowKept(q)
  BY <1>3, <1>5 DEF RowKept, ledgers
<1>10. \A t \in Senders \ {s} : InAttempt(t) => job[t] # r
  BY <1>1, Others
<1> QED
  BY <1>4, <1>7, <1>8, <1>9, <1>10, OneHandler

\* A handler's step is one of these, on its row.
LEMMA SenderStepInv ==
  ASSUME OutboxInv, NEW s \in Senders, SenderStep(s) PROVE OutboxInv'
<1>1. PICK r \in Rows : job[s] = r
  <2>1. at[s] # "off"
    BY DEF SenderStep, Claim, TooLate, Refuse, RecordRefusal, Preflight, Reserve,
           Reauthorize, HandOver, NotTaken, Refund, Defer, Resend, Conclude, Accept
  <2> QED
    BY <2>1 DEF OutboxInv, SendersInv, SenderInv
<1> QED
  BY <1>1, ClaimInv, TooLateInv, RefuseInv, RecordRefusalInv, PreflightInv,
     ReserveInv, ReauthorizeInv, HandOverInv, NotTakenInv, RefundInv, DeferInv,
     ResendInv, ConcludeInv, AcceptInv DEF SenderStep

LEMMA FetchInv ==
  ASSUME OutboxInv, NEW s \in Senders, NEW r \in Rows, Fetch(s, r) PROVE OutboxInv'
<1>1. OutboxTypeOK /\ waiting' \subseteq Rows
  BY DEF OutboxInv, OutboxTypeOK, Fetch
<1>2. UNCHANGED << rowVars, ledgers, taken, dead, mishaps >>
  BY DEF Fetch
<1>3. /\ SendersTyped'
      /\ \A t \in Senders \ {s} : SenderKept(t)
      /\ SenderInv(s)' /\ ~InAttempt(s)'
  <2>1. CASE status[r] = "queued"
    <3>1. "prepare" \in Places
      BY DEF Places
    <3>2. /\ SendersTyped' /\ at'[s] = "prepare" /\ job'[s] = r
          /\ \A t \in Senders \ {s} : SenderKept(t)
      BY <1>1, <2>1, <3>1 DEF Fetch, Goto, OutboxTypeOK, SendersTyped, SenderKept
    <3> QED
      BY <3>2 DEF SenderInv, InAttempt, Charged, Uncharged, Unhanded, Unfenced
  <2>2. CASE status[r] # "queued"
    <3>1. UNCHANGED senderVars /\ at[s] = "off"
      BY <2>2 DEF Fetch
    <3> QED
      BY <1>1, <3>1 DEF senderVars, OutboxTypeOK, SendersTyped, SenderKept, SenderInv,
                        InAttempt, Charged, Uncharged, Unhanded, Unfenced
  <2> QED
    BY <2>1, <2>2
<1>4. OutboxTypeOK'
  BY <1>1, <1>2, <1>3 DEF OutboxTypeOK, SendersTyped, rowVars, ledgers
<1>5. \A q \in Rows : RowKept(q)
  BY <1>2 DEF RowKept, rowVars, ledgers
<1> QED
  BY <1>3, <1>4, <1>5, QuietHandler

LEMMA GiveUpInv ==
  ASSUME OutboxInv, NEW s \in Senders, GiveUp(s) PROVE OutboxInv'
<1>1. OutboxTypeOK /\ job[s] \in Rows
  BY DEF OutboxInv, SendersInv, SenderInv, GiveUp
<1>2. SendersTyped' /\ at'[s] = "off" /\ \A t \in Senders \ {s} : SenderKept(t)
  BY <1>1, LeaveEffect DEF GiveUp
<1>3. /\ waiting' \subseteq Rows /\ dead' \subseteq Rows /\ mishaps' \in 0..Mishaps
      /\ UNCHANGED << rowVars, ledgers, taken >>
  BY <1>1, OutboxAssumption DEF GiveUp, Mishap, OutboxTypeOK
<1>4. OutboxTypeOK'
  BY <1>1, <1>2, <1>3 DEF OutboxTypeOK, SendersTyped, rowVars, ledgers
<1>5. SenderInv(s)' /\ ~InAttempt(s)'
  BY <1>2 DEF SenderInv, InAttempt, Charged, Uncharged, Unhanded, Unfenced
<1>6. \A q \in Rows : RowKept(q)
  BY <1>3 DEF RowKept, rowVars, ledgers
<1> QED
  BY <1>2, <1>4, <1>5, <1>6, QuietHandler

-----------------------------------------------------------------------------
\* The reconcile, the dead-letter handler, the provider and the admissions.
LEMMA AdmitInv ==
  ASSUME OutboxInv, NEW r \in Rows, Admit(r), waiting' \in {waiting, waiting \cup {r}} PROVE OutboxInv'
<1>1. OutboxTypeOK'
  BY DEF OutboxInv, OutboxTypeOK, Admit, rowVars, jobs, senderVars, ledgers, SetStatus
<1>2. \A q \in Rows : RowInv(q)'
  BY DEF OutboxInv, OutboxTypeOK, RowsInv, RowInv, Admit, rowVars, ledgers, Idle, SetStatus
<1>3. \A q \in Rows : status[q] \in Claimed => status'[q] \in Claimed /\ attempt'[q] = attempt[q]
  BY DEF OutboxInv, OutboxTypeOK, Admit, Claimed, rowVars, SetStatus
<1>4. UNCHANGED << at, job, mine, ledgers, taken >>
  BY DEF Admit, senderVars, ledgers
<1> QED
  BY <1>1, <1>2, <1>3, <1>4, NoHandler

LEMMA DeadLetterInv ==
  ASSUME OutboxInv, NEW r \in Rows, DeadLetter(r) PROVE OutboxInv'
<1>1. OutboxTypeOK'
  BY DEF OutboxInv, OutboxTypeOK, DeadLetter, rowVars, jobs, senderVars, ledgers, FailIfQueued, SetStatus, Keep
<1>2. \A q \in Rows : RowInv(q)'
  BY DEF OutboxInv, OutboxTypeOK, RowsInv, RowInv, DeadLetter, rowVars, ledgers, Idle, FailIfQueued, SetStatus, Keep
<1>3. \A q \in Rows : status[q] \in Claimed => status'[q] \in Claimed /\ attempt'[q] = attempt[q]
  BY DEF OutboxInv, OutboxTypeOK, DeadLetter, Claimed, rowVars, FailIfQueued, SetStatus, Keep
<1>4. UNCHANGED << at, job, mine, ledgers, taken >>
  BY DEF DeadLetter, senderVars, ledgers
<1> QED
  BY <1>1, <1>2, <1>3, <1>4, NoHandler

LEMMA InterruptInv ==
  ASSUME OutboxInv, NEW r \in Rows, Interrupt(r) PROVE OutboxInv'
<1>1. OutboxTypeOK'
  BY DEF OutboxInv, OutboxTypeOK, Interrupt, rowVars, jobs, senderVars, ledgers, SetStatus
<1>2. \A q \in Rows : RowInv(q)'
  BY DEF OutboxInv, OutboxTypeOK, RowsInv, RowInv, Interrupt, rowVars, ledgers, Idle, SetStatus
<1>3. \A q \in Rows : status[q] \in Claimed => status'[q] \in Claimed /\ attempt'[q] = attempt[q]
  BY DEF OutboxInv, OutboxTypeOK, Interrupt, Claimed, rowVars, SetStatus
<1>4. UNCHANGED << at, job, mine, ledgers, taken >>
  BY DEF Interrupt, senderVars, ledgers
<1> QED
  BY <1>1, <1>2, <1>3, <1>4, NoHandler

LEMMA AgesInv ==
  ASSUME OutboxInv, NEW r \in Rows, Ages(r) PROVE OutboxInv'
<1>1. OutboxTypeOK'
  BY DEF OutboxInv, OutboxTypeOK, Ages, rowVars, jobs, senderVars, ledgers, ledgers
<1>2. \A q \in Rows : RowInv(q)'
  BY DEF OutboxInv, OutboxTypeOK, RowsInv, RowInv, Ages, rowVars, ledgers, Idle, ledgers
<1>3. \A q \in Rows : status[q] \in Claimed => status'[q] \in Claimed /\ attempt'[q] = attempt[q]
  BY DEF OutboxInv, OutboxTypeOK, Ages, Claimed, rowVars, ledgers
<1>4. UNCHANGED << at, job, mine, ledgers, taken >>
  BY DEF Ages, senderVars, ledgers
<1> QED
  BY <1>1, <1>2, <1>3, <1>4, NoHandler

LEMMA EvidenceInv ==
  ASSUME OutboxInv, NEW r \in Rows, NEW n \in 1..MaxTries, Evidence(r, n) PROVE OutboxInv'
<1>1. OutboxTypeOK'
  BY DEF OutboxInv, OutboxTypeOK, Evidence, rowVars, jobs, senderVars, ledgers, Open, SetStatus
<1>2. \A q \in Rows : RowInv(q)'
  BY DEF OutboxInv, OutboxTypeOK, RowsInv, RowInv, Evidence, rowVars, ledgers, Idle, Open, SetStatus
<1>3. \A q \in Rows : status[q] \in Claimed => status'[q] \in Claimed /\ attempt'[q] = attempt[q]
  BY DEF OutboxInv, OutboxTypeOK, Evidence, Claimed, rowVars, Open, SetStatus
<1>4. UNCHANGED << at, job, mine, ledgers, taken >>
  BY DEF Evidence, senderVars, ledgers
<1> QED
  BY <1>1, <1>2, <1>3, <1>4, NoHandler

LEMMA EnqueueInv ==
  ASSUME OutboxInv, NEW r \in Rows, Enqueue(r) PROVE OutboxInv'
<1>1. OutboxTypeOK'
  BY DEF OutboxInv, OutboxTypeOK, Enqueue, rowVars, jobs, senderVars, ledgers, ledgers
<1>2. \A q \in Rows : RowInv(q)'
  BY DEF OutboxInv, OutboxTypeOK, RowsInv, RowInv, Enqueue, rowVars, ledgers, Idle, ledgers
<1>3. \A q \in Rows : status[q] \in Claimed => status'[q] \in Claimed /\ attempt'[q] = attempt[q]
  BY DEF OutboxInv, OutboxTypeOK, Enqueue, Claimed, rowVars, ledgers
<1>4. UNCHANGED << at, job, mine, ledgers, taken >>
  BY DEF Enqueue, senderVars, ledgers
<1> QED
  BY <1>1, <1>2, <1>3, <1>4, NoHandler


LEMMA StutterInv ==
  ASSUME OutboxInv, UNCHANGED laneVars, mishaps' \in 0..Mishaps PROVE OutboxInv'
<1>1. OutboxTypeOK'
  BY DEF OutboxInv, OutboxTypeOK, laneVars, rowVars, ledgers, jobs, senderVars
<1>2. (RowsInv /\ SendersInv /\ Alone)'
  BY DEF OutboxInv, RowsInv, RowInv, SendersInv, SenderInv, Alone, InAttempt,
         laneVars, rowVars, ledgers, jobs, senderVars
<1> QED
  BY <1>1, <1>2 DEF OutboxInv

LEMMA StepInv == ASSUME OutboxInv, [OutboxNext]_outboxVars PROVE OutboxInv'
<1>1. ASSUME NEW s \in Senders, SenderStep(s) \/ GiveUp(s) PROVE OutboxInv'
  BY <1>1, SenderStepInv, GiveUpInv
<1>2. ASSUME NEW r \in Rows, RowStep(r) PROVE OutboxInv'
  <2>1. Requeue(r) => Enqueue(r)
    BY DEF Requeue
  <2> QED
    BY <1>2, <2>1, FetchInv, DeadLetterInv, InterruptInv, AgesInv, EnqueueInv
       DEF RowStep, FetchJob, Cron
<1>3. ASSUME NEW r \in Rows, NEW n \in 1..MaxTries, Evidence(r, n) PROVE OutboxInv'
  BY <1>3, EvidenceInv
<1>4. ASSUME NEW r \in Rows, Admit(r), waiting' \in {waiting, waiting \cup {r}}
      PROVE  OutboxInv'
  BY <1>4, AdmitInv
<1>5. ASSUME NEW r \in Rows, Enqueue(r) PROVE OutboxInv'
  BY <1>5, EnqueueInv
<1>6. CASE Mishap /\ UNCHANGED laneVars
  <2>1. mishaps' \in 0..Mishaps
    BY <1>6, OutboxAssumption DEF OutboxInv, OutboxTypeOK, Mishap
  <2> QED
    BY <1>6, <2>1, StutterInv
<1>7. CASE UNCHANGED outboxVars
  <2>1. UNCHANGED laneVars /\ mishaps' \in 0..Mishaps
    BY <1>7 DEF outboxVars, OutboxInv, OutboxTypeOK
  <2> QED
    BY <2>1, StutterInv
<1> QED
  BY <1>1, <1>2, <1>3, <1>4, <1>5, <1>6, <1>7 DEF OutboxNext, Delivery

-----------------------------------------------------------------------------
(* The allowance: what is counted grows by admissions only. *)

Out(r) == status[r] \in {"absent", "failed"}
Allowed == Cardinality(Counted) <= Allowance

LEMMA RowsFinite == IsFiniteSet(Rows)
<1>1. IsFiniteSet(1..MaxRevision)
  BY OutboxAssumption, FS_Interval
<1> QED
  BY <1>1, OutboxAssumption, FS_Product DEF Rows

\* What is not counted is left alone by everything but its admission.
LEMMA OutStaysOut ==
  ASSUME OutboxInv, Delivery, NEW q \in Rows, Out(q) PROVE status'[q] = status[q]
<1>1. status \in [Rows -> Statuses]
  BY DEF OutboxInv, OutboxTypeOK, Statuses, Idle, Claimed
<1>2. ASSUME NEW r, NEW to, SetStatus(r, to), r # q PROVE status'[q] = status[q]
  BY <1>1, <1>2 DEF SetStatus
<1>3. ASSUME NEW r, NEW n, NEW to, Settle(r, n, to) PROVE status'[q] = status[q]
  BY <1>2, <1>3 DEF Settle, Open, Keep, Out
<1>4. ASSUME NEW s \in Senders, SenderStep(s) \/ GiveUp(s) PROVE status'[q] = status[q]
  <2>1. CASE Claim(s)
    BY <1>2, <2>1 DEF Claim, Out
  <2>2. CASE RecordRefusal(s)
    BY <1>2, <2>2 DEF RecordRefusal, FailIfQueued, Keep, Out
  <2>3. CASE Defer(s)
    BY <1>2, <2>3 DEF Defer, Attempting, Keep, Out
  <2>4. CASE Conclude(s) \/ Accept(s)
    BY <1>3, <2>4 DEF Conclude, Accept, Keep
  <2>5. CASE \/ TooLate(s) \/ Refuse(s) \/ Preflight(s) \/ Reserve(s) \/ Reauthorize(s)
             \/ HandOver(s) \/ NotTaken(s) \/ Refund(s) \/ Resend(s) \/ GiveUp(s)
    BY <2>5 DEF TooLate, Refuse, Preflight, Reserve, Reauthorize, HandOver,
                NotTaken, Refund, Resend, GiveUp, rowVars
  <2> QED
    BY <1>4, <2>1, <2>2, <2>3, <2>4, <2>5 DEF SenderStep
<1>5. ASSUME NEW r \in Rows, RowStep(r) PROVE status'[q] = status[q]
  BY <1>2, <1>5 DEF RowStep, FetchJob, Fetch, Cron, DeadLetter, FailIfQueued, Keep,
                    Interrupt, Requeue, Enqueue, Ages, rowVars, Out
<1>6. ASSUME NEW r \in Rows, NEW n, Evidence(r, n) PROVE status'[q] = status[q]
  BY <1>2, <1>6 DEF Evidence, Open, Out
<1> QED
  BY <1>4, <1>5, <1>6 DEF Delivery

LEMMA AllowedStep ==
  ASSUME OutboxInv, Allowed, [OutboxNext]_outboxVars PROVE Allowed'
<1>1. Counted \subseteq Rows /\ IsFiniteSet(Counted) /\ IsFiniteSet(Counted')
  BY RowsFinite, FS_Subset DEF Counted
<1>2. Cardinality(Counted) \in Nat /\ Cardinality(Counted') \in Nat
  BY <1>1, FS_CardinalityType
<1>3. ASSUME \A q \in Rows : Out(q) => status'[q] = status[q] PROVE Allowed'
  <2>1. Counted' \subseteq Counted
    BY <1>3 DEF Counted, Out
  <2>2. Cardinality(Counted') <= Cardinality(Counted)
    BY <1>1, <2>1, FS_Subset
  <2> QED
    BY <1>2, <2>2, OutboxAssumption DEF Allowed
<1>4. CASE Delivery
  BY <1>3, <1>4, OutStaysOut
<1>5. ASSUME NEW r \in Rows, Admit(r) PROVE Allowed'
  <2>1. Cardinality(Counted) < Allowance
    BY <1>5 DEF Admit, RoomFor
  <2>2. \A q \in Rows \ {r} : status'[q] = status[q]
    BY <1>5 DEF Admit, SetStatus, OutboxInv, OutboxTypeOK
  <2>3. Counted' \subseteq Counted \cup {r}
    BY <2>2 DEF Counted
  <2>4. /\ IsFiniteSet(Counted \cup {r})
        /\ Cardinality(Counted \cup {r}) <= Cardinality(Counted) + 1
        /\ Cardinality(Counted \cup {r}) \in Nat
    BY <1>1, <1>2, FS_AddElement, FS_CardinalityType
  <2>5. Cardinality(Counted') <= Cardinality(Counted \cup {r})
    BY <2>3, <2>4, FS_Subset
  <2> QED
    BY <1>2, <2>1, <2>4, <2>5, OutboxAssumption DEF Allowed
<1>6. ASSUME NEW r \in Rows, Enqueue(r) PROVE Allowed'
  BY <1>3, <1>6 DEF Enqueue, rowVars
<1>7. CASE (Mishap /\ UNCHANGED laneVars) \/ UNCHANGED outboxVars
  BY <1>3, <1>7 DEF outboxVars, laneVars, rowVars
<1> QED
  BY <1>4, <1>5, <1>6, <1>7 DEF OutboxNext

-----------------------------------------------------------------------------
\* The lane's variables keep their kinds.
THEOREM OutboxTypeCorrect == OutboxSpec => []OutboxTypeOK
<1>1. OutboxInv => OutboxTypeOK
  BY DEF OutboxInv
<1> QED
  BY <1>1, InitInv, StepInv, PTL DEF OutboxSpec

\* No row is handed over twice, and none that is queued or failed was.
THEOREM RowsHandedOnce == OutboxSpec => []HandedOnce
<1>1. OutboxInv => HandedOnce
  BY DEF OutboxInv, RowsInv, RowInv, HandedOnce, Idle
<1> QED
  BY <1>1, InitInv, StepInv, PTL DEF OutboxSpec

\* Mail taken is mail charged, and what waits or failed owes nothing.
THEOREM RowLedgersAgree == OutboxSpec => []LedgersAgree
<1>1. OutboxInv => LedgersAgree
  BY DEF OutboxInv, RowsInv, RowInv, LedgersAgree, Idle
<1> QED
  BY <1>1, InitInv, StepInv, PTL DEF OutboxSpec

\* Mail taken by providers never exceeds the period's allowance.
THEOREM AllowanceIsKept == OutboxSpec => []AllowanceKept
<1>1. OutboxInit => Allowed
  <2> SUFFICES ASSUME OutboxInit PROVE Allowed
    OBVIOUS
  <2>1. Counted = {}
    BY DEF OutboxInit, Counted
  <2> QED
    BY <2>1, FS_EmptySet, OutboxAssumption DEF Allowed
<1>2. OutboxInv /\ Allowed => AllowanceKept
  <2> SUFFICES ASSUME OutboxInv, Allowed PROVE AllowanceKept
    OBVIOUS
  <2> DEFINE Took == { r \in Rows : taken[r] # {} }
  <2>1. Took \subseteq Counted /\ IsFiniteSet(Counted)
    BY RowsFinite, FS_Subset DEF Counted, OutboxInv, RowsInv, RowInv, Idle
  <2>2. /\ Cardinality(Took) <= Cardinality(Counted)
        /\ Cardinality(Took) \in Nat /\ Cardinality(Counted) \in Nat
    BY <2>1, FS_Subset, FS_CardinalityType
  <2> QED
    BY <2>2, OutboxAssumption DEF Allowed, AllowanceKept
<1> QED
  BY <1>1, <1>2, InitInv, StepInv, AllowedStep, PTL DEF OutboxSpec

-----------------------------------------------------------------------------
(* The drafts.                                                              *)

\* The kinds of the drafts' and clocks' variables; an active clock holds a row.
DraftsTyped ==
  /\ revision \in [Drafts -> 1..MaxRevision]
  /\ trashed \subseteq Drafts
  /\ schedule \in [Drafts -> {"none", "ahead", "due"}]
  /\ holder \in [Drafts -> Clocks \cup {NoOne}]
  /\ lapsed \subseteq { d \in Drafts : holder[d] # NoOne }
  /\ failure \subseteq Drafts
  /\ clock \in [Clocks -> {"off", "admit", "complete", "fail", "enqueue"}]
  /\ due \in [Clocks -> Rows \cup {None}]
  /\ \A c \in Clocks : clock[c] # "off" => due[c] \in Rows

\* Every row of d still counted is of the revision the draft has now.
Current(d) == \A r \in Rows : r[1] = d /\ ~Out(r) => r[2] = revision[d]

\* A scheduled draft has no row of an older revision at work, nor has one that
\* a clock is about to admit at the revision it still has.
ScheduledCurrent == \A d \in Drafts : schedule[d] # "none" => Current(d)
ClaimedCurrent ==
  \A c \in Clocks, d \in Drafts, n \in 1..MaxRevision :
    clock[c] = "admit" /\ due[c] = << d, n >> =>
      n <= revision[d] /\ (n = revision[d] => Current(d))

DraftsInv == OutboxInv /\ DraftsTyped /\ ScheduledCurrent /\ ClaimedCurrent

-----------------------------------------------------------------------------
LEMMA RowParts ==
  ASSUME NEW r \in Rows
  PROVE  r[1] \in Drafts /\ r[2] \in 1..MaxRevision /\ r = << r[1], r[2] >>
BY DEF Rows

\* A step of the composition is a step of the outbox, or none.
LEMMA OutboxStep ==
  ASSUME DraftsTyped, [Next]_vars PROVE [OutboxNext]_outboxVars
<1>1. CASE Delivery
  BY <1>1 DEF OutboxNext
<1>2. ASSUME NEW c \in Clocks, ClockStep(c) PROVE [OutboxNext]_outboxVars
  <2>1. due[c] \in Rows
    BY <1>2 DEF DraftsTyped, ClockStep, AdmitAgain, AdmitDue, RefuseDue, FinishDue, EnqueueDue
  <2>2. CASE AdmitDue(c)
    BY <2>1, <2>2 DEF AdmitDue, OutboxNext
  <2>3. CASE EnqueueDue(c)
    BY <2>1, <2>3 DEF EnqueueDue, OutboxNext
  <2>4. CASE AdmitAgain(c) \/ RefuseDue(c) \/ FinishDue(c)
    BY <2>4 DEF AdmitAgain, RefuseDue, FinishDue
  <2> QED
    BY <1>2, <2>2, <2>3, <2>4 DEF ClockStep
<1>3. ASSUME NEW c \in Clocks, LetLapse(c) PROVE [OutboxNext]_outboxVars
  BY <1>3 DEF LetLapse, OutboxNext
<1>4. ASSUME NEW d \in Drafts, Owner(d) PROVE [OutboxNext]_outboxVars
  <2>1. CASE SendNow(d)
    <3>1. << d, revision[d] >> \in Rows
      BY DEF DraftsTyped, Rows
    <3> QED
      BY <2>1, <3>1 DEF SendNow, OutboxNext
  <2>2. CASE EditDraft(d) \/ TrashDraft(d) \/ ScheduleSend(d) \/ CancelSchedule(d)
    BY <2>2 DEF EditDraft, TrashDraft, ScheduleSend, CancelSchedule
  <2> QED
    BY <1>4, <2>1, <2>2 DEF Owner
<1>5. ASSUME NEW d \in Drafts, ClockLooks(d) PROVE [OutboxNext]_outboxVars
  BY <1>5 DEF ClockLooks, DropTrashed, ComesDue, ClaimLapses, ClaimDue
<1>6. CASE UNCHANGED vars
  BY <1>6 DEF vars
<1> QED
  BY <1>1, <1>2, <1>3, <1>4, <1>5, <1>6 DEF Next

LEMMA DraftsInit == ASSUME Init PROVE DraftsInv
<1>1. OutboxInv
  BY InitInv DEF Init
<1>2. DraftsTyped
  BY OutboxAssumption DEF Init, DraftsTyped
<1>3. ScheduledCurrent /\ ClaimedCurrent
  BY DEF Init, OutboxInit, ScheduledCurrent, ClaimedCurrent, Current, Out
<1> QED
  BY <1>1, <1>2, <1>3 DEF DraftsInv

-----------------------------------------------------------------------------
\* No draft is edited: rows join those counted at the current revision only,
\* schedules end, and clocks keep what they claimed.
LEMMA NoEdit ==
  ASSUME DraftsInv, OutboxInv', DraftsTyped', UNCHANGED revision,
         \A r \in Rows : Out(r) => Out(r)' \/ r[2] = revision[r[1]],
         \A d \in Drafts : schedule'[d] # "none" => schedule[d] # "none",
         \A c \in Clocks : clock'[c] = "admit" => clock[c] = "admit" /\ due'[c] = due[c]
  PROVE  DraftsInv'
<1>1. ASSUME NEW d \in Drafts, Current(d) PROVE Current(d)'
  BY <1>1 DEF Current
<1>2. ScheduledCurrent'
  BY <1>1 DEF DraftsInv, ScheduledCurrent
<1>3. ASSUME NEW c \in Clocks, NEW d \in Drafts, NEW n \in 1..MaxRevision,
             clock'[c] = "admit", due'[c] = << d, n >>
      PROVE  n <= revision'[d] /\ (n = revision'[d] => Current(d)')
  <2>1. n <= revision[d] /\ (n = revision[d] => Current(d))
    BY <1>3 DEF DraftsInv, ClaimedCurrent
  <2> QED
    BY <1>1, <2>1
<1>4. ClaimedCurrent'
  BY <1>3 DEF ClaimedCurrent
<1> QED
  BY <1>2, <1>4 DEF DraftsInv

\* A draft without rows at work is edited, or its schedule is canceled.
LEMMA Edited ==
  ASSUME DraftsInv, DraftsTyped', UNCHANGED << outboxVars, clockVars >>,
         NEW d \in Drafts, Bump(d),
         \A e \in Drafts \ {d} : schedule'[e] = schedule[e],
         Live(d) = {} \/ schedule'[d] = "none"
  PROVE  DraftsInv'
<1>1. OutboxInv' /\ status' = status
  BY StepInv DEF DraftsInv, outboxVars, laneVars, rowVars
<1>2. /\ revision'[d] = revision[d] + 1
      /\ \A e \in Drafts \ {d} : revision'[e] = revision[e]
  BY DEF DraftsInv, DraftsTyped, Bump
<1>3. Live(d) = {} => Current(d)'
  BY <1>1 DEF Live, Current, Out
<1>4. ASSUME NEW e \in Drafts \ {d}, Current(e) PROVE Current(e)'
  BY <1>1, <1>2, <1>4 DEF Current, Out
<1>5. ScheduledCurrent'
  BY <1>3, <1>4 DEF DraftsInv, ScheduledCurrent
<1>6. ASSUME NEW c \in Clocks, NEW e \in Drafts, NEW n \in 1..MaxRevision,
             clock'[c] = "admit", due'[c] = << e, n >>
      PROVE  n <= revision'[e] /\ (n = revision'[e] => Current(e)')
  <2>1. n <= revision[e] /\ (n = revision[e] => Current(e)) /\ revision[e] \in Nat
    BY <1>6, OutboxAssumption DEF clockVars, DraftsInv, DraftsTyped, ClaimedCurrent
  <2>2. CASE e = d
    BY <1>2, <2>1, <2>2
  <2>3. CASE e # d
    BY <1>2, <1>4, <2>1, <2>3
  <2> QED
    BY <2>2, <2>3
<1>7. ClaimedCurrent'
  BY <1>6 DEF ClaimedCurrent
<1> QED
  BY <1>1, <1>5, <1>7 DEF DraftsInv

-----------------------------------------------------------------------------
LEMMA RescheduleEffect ==
  ASSUME DraftsTyped, NEW d \in Drafts, NEW to \in {"none", "ahead"}, Reschedule(d, to)
  PROVE  /\ schedule' \in [Drafts -> {"none", "ahead", "due"}]
         /\ holder' \in [Drafts -> Clocks \cup {NoOne}]
         /\ lapsed' \subseteq { e \in Drafts : holder'[e] # NoOne }
         /\ schedule'[d] = to
         /\ \A e \in Drafts \ {d} : schedule'[e] = schedule[e]
BY DEF DraftsTyped, Reschedule

LEMMA BumpEffect ==
  ASSUME DraftsTyped, NEW d \in Drafts, Bump(d)
  PROVE  revision' \in [Drafts -> 1..MaxRevision]
<1>1. revision[d] + 1 \in 1..MaxRevision
  BY OutboxAssumption DEF DraftsTyped, Bump
<1> QED
  BY <1>1 DEF DraftsTyped, Bump

\* The person at the editor.
LEMMA EditorStep ==
  ASSUME DraftsInv, NEW d \in Drafts,
         EditDraft(d) \/ TrashDraft(d) \/ ScheduleSend(d) \/ CancelSchedule(d)
  PROVE  DraftsInv'
<1>1. DraftsTyped /\ Bump(d) /\ revision' \in [Drafts -> 1..MaxRevision]
  BY BumpEffect DEF DraftsInv, EditDraft, TrashDraft, ScheduleSend, CancelSchedule
<1>2. UNCHANGED << outboxVars, clockVars >>
  BY DEF EditDraft, TrashDraft, ScheduleSend, CancelSchedule
<1>3. CASE EditDraft(d) \/ TrashDraft(d)
  <2>1. Live(d) = {} /\ UNCHANGED << schedule, holder, lapsed, failure >>
    BY <1>3 DEF EditDraft, Editable, TrashDraft
  <2>2. trashed' \subseteq Drafts
    BY <1>1, <1>3 DEF EditDraft, TrashDraft, DraftsTyped
  <2>3. DraftsTyped'
    BY <1>1, <1>2, <2>1, <2>2 DEF DraftsTyped, clockVars
  <2> QED
    BY <1>1, <1>2, <2>1, <2>3, Edited
<1>4. CASE ScheduleSend(d) \/ CancelSchedule(d)
  <2>1. PICK to \in {"none", "ahead"} :
          Reschedule(d, to) /\ (to = "ahead" => Live(d) = {})
    BY <1>4 DEF ScheduleSend, CancelSchedule
  <2>2. trashed' = trashed /\ failure' \subseteq Drafts
    BY <1>1, <1>4 DEF ScheduleSend, CancelSchedule, DraftsTyped
  <2>3. /\ schedule' \in [Drafts -> {"none", "ahead", "due"}]
        /\ holder' \in [Drafts -> Clocks \cup {NoOne}]
        /\ lapsed' \subseteq { e \in Drafts : holder'[e] # NoOne }
        /\ schedule'[d] = to
        /\ \A e \in Drafts \ {d} : schedule'[e] = schedule[e]
    BY <1>1, <2>1, RescheduleEffect
  <2>4. DraftsTyped'
    BY <1>1, <1>2, <2>2, <2>3 DEF DraftsTyped, clockVars
  <2>5. Live(d) = {} \/ schedule'[d] = "none"
    BY <2>1, <2>3
  <2> QED
    BY <1>1, <1>2, <2>3, <2>4, <2>5, Edited
<1> QED
  BY <1>3, <1>4

\* An admission counts one more row, of the revision its draft has.
LEMMA AdmitCurrent ==
  ASSUME DraftsInv, NEW r \in Rows, Admissible(r), Admit(r), NEW q \in Rows, Out(q)
  PROVE  Out(q)' \/ q[2] = revision[q[1]]
<1>1. q # r => status'[q] = status[q]
  BY DEF Admit, SetStatus, DraftsInv, OutboxInv, OutboxTypeOK
<1> QED
  BY <1>1 DEF Out, Admissible

LEMMA DeliveryStep ==
  ASSUME DraftsInv, OutboxInv', Delivery, UNCHANGED << draftVars, clockVars >>
  PROVE  DraftsInv'
<1>1. DraftsTyped'
  BY DEF DraftsInv, DraftsTyped, draftVars, clockVars
<1>2. \A r \in Rows : Out(r) => Out(r)'
  BY OutStaysOut DEF DraftsInv, Out
<1> QED
  BY <1>1, <1>2, NoEdit DEF draftVars, clockVars

LEMMA SendNowStep ==
  ASSUME DraftsInv, OutboxInv', NEW d \in Drafts, SendNow(d) PROVE DraftsInv'
<1>1. DraftsTyped'
  BY DEF DraftsInv, DraftsTyped, SendNow, draftVars, clockVars
<1>2. PICK r \in Rows : Admissible(r) /\ Admit(r)
  BY DEF SendNow, DraftsInv, DraftsTyped, Rows
<1>3. \A q \in Rows : Out(q) => Out(q)' \/ q[2] = revision[q[1]]
  BY <1>2, AdmitCurrent
<1> QED
  BY <1>1, <1>3, NoEdit DEF SendNow, draftVars, clockVars

-----------------------------------------------------------------------------
(* The clock. *)

LEMMA ClockMoves ==
  ASSUME DraftsTyped, NEW c \in Clocks,
         \/ ClockEnds(c)
         \/ /\ clock[c] # "off"
            /\ ClockTo(c, "complete") \/ ClockTo(c, "fail") \/ ClockTo(c, "enqueue")
  PROVE  /\ clock' \in [Clocks -> {"off", "admit", "complete", "fail", "enqueue"}]
         /\ due' \in [Clocks -> Rows \cup {None}]
         /\ \A b \in Clocks : clock'[b] # "off" => due'[b] \in Rows
         /\ \A b \in Clocks : clock'[b] = "admit" => clock[b] = "admit" /\ due'[b] = due[b]
BY DEF DraftsTyped, ClockEnds, ClockTo

LEMMA ClockStepInv ==
  ASSUME DraftsInv, OutboxInv', NEW c \in Clocks, ClockStep(c) \/ LetLapse(c)
  PROVE  DraftsInv'
<1>1. DraftsTyped /\ UNCHANGED << revision, trashed >>
  BY DEF DraftsInv, ClockStep, AdmitAgain, AdmitDue, RefuseDue, FinishDue, EnqueueDue,
         LetLapse, draftVars
<1>2. /\ clock' \in [Clocks -> {"off", "admit", "complete", "fail", "enqueue"}]
      /\ due' \in [Clocks -> Rows \cup {None}]
      /\ \A b \in Clocks : clock'[b] # "off" => due'[b] \in Rows
      /\ \A b \in Clocks : clock'[b] = "admit" => clock[b] = "admit" /\ due'[b] = due[b]
  BY <1>1, ClockMoves
     DEF ClockStep, AdmitAgain, AdmitDue, RefuseDue, FinishDue, EnqueueDue, LetLapse
<1>3. CASE FinishDue(c)
  <2>1. due[c] \in Rows /\ due[c][1] \in Drafts
    BY <1>1, <1>3, RowParts DEF FinishDue, DraftsTyped
  <2>2. CASE Owns(c)
    <3>1. Reschedule(due[c][1], "none") /\ failure' \subseteq Drafts
      BY <1>1, <1>3, <2>1, <2>2 DEF FinishDue, DraftsTyped
    <3>2. /\ schedule' \in [Drafts -> {"none", "ahead", "due"}]
          /\ holder' \in [Drafts -> Clocks \cup {NoOne}]
          /\ lapsed' \subseteq { e \in Drafts : holder'[e] # NoOne }
          /\ \A d \in Drafts : schedule'[d] # "none" => schedule[d] # "none"
      BY <1>1, <2>1, <3>1, RescheduleEffect
    <3>3. DraftsTyped'
      BY <1>1, <1>2, <3>1, <3>2 DEF DraftsTyped
    <3>4. \A r \in Rows : Out(r) => Out(r)'
      BY <1>3 DEF FinishDue, Out, outboxVars, laneVars, rowVars
    <3> QED
      BY <1>1, <1>2, <3>2, <3>3, <3>4, NoEdit
  <2>3. CASE ~Owns(c)
    <3>1. UNCHANGED << schedule, holder, lapsed, failure >>
      BY <1>3, <2>3 DEF FinishDue
    <3>2. DraftsTyped'
      BY <1>1, <1>2, <3>1 DEF DraftsTyped
    <3>3. \A r \in Rows : Out(r) => Out(r)'
      BY <1>3 DEF FinishDue, Out, outboxVars, laneVars, rowVars
    <3> QED
      BY <1>1, <1>2, <3>1, <3>2, <3>3, NoEdit
  <2> QED
    BY <2>2, <2>3
<1>4. CASE AdmitAgain(c) \/ AdmitDue(c) \/ RefuseDue(c) \/ EnqueueDue(c) \/ LetLapse(c)
  <2>1. UNCHANGED draftVars
    BY <1>4 DEF AdmitAgain, AdmitDue, RefuseDue, EnqueueDue, LetLapse
  <2>2. DraftsTyped'
    BY <1>1, <1>2, <2>1 DEF DraftsTyped, draftVars
  <2>3. \A r \in Rows : Out(r) => Out(r)' \/ r[2] = revision[r[1]]
    <3>1. CASE AdmitDue(c)
      <4>1. due[c] \in Rows /\ Admissible(due[c]) /\ Admit(due[c])
        BY <1>1, <3>1 DEF AdmitDue, DraftsTyped
      <4> QED
        BY <4>1, AdmitCurrent
    <3>2. CASE ~AdmitDue(c)
      BY <1>4, <3>2 DEF AdmitAgain, RefuseDue, EnqueueDue, Enqueue, LetLapse, Out,
                        outboxVars, laneVars, rowVars
    <3> QED
      BY <3>1, <3>2
  <2> QED
    BY <1>1, <1>2, <2>1, <2>2, <2>3, NoEdit DEF draftVars
<1> QED
  BY <1>3, <1>4 DEF ClockStep

LEMMA ClockLooksInv ==
  ASSUME DraftsInv, OutboxInv', NEW d \in Drafts, ClockLooks(d) PROVE DraftsInv'
<1>1. DraftsTyped /\ UNCHANGED << outboxVars, revision, trashed, failure >>
  BY DEF DraftsInv, ClockLooks, DropTrashed, ComesDue, ClaimLapses, ClaimDue
<1>2. \A r \in Rows : Out(r) => Out(r)'
  BY <1>1 DEF Out, outboxVars, laneVars, rowVars
<1>3. CASE DropTrashed(d)
  <2>1. Reschedule(d, "none") /\ UNCHANGED clockVars
    BY <1>3 DEF DropTrashed
  <2>2. /\ schedule' \in [Drafts -> {"none", "ahead", "due"}]
        /\ holder' \in [Drafts -> Clocks \cup {NoOne}]
        /\ lapsed' \subseteq { e \in Drafts : holder'[e] # NoOne }
        /\ \A e \in Drafts : schedule'[e] # "none" => schedule[e] # "none"
    BY <1>1, <2>1, RescheduleEffect
  <2>3. DraftsTyped'
    BY <1>1, <2>1, <2>2 DEF DraftsTyped, clockVars
  <2> QED
    BY <1>1, <1>2, <2>1, <2>2, <2>3, NoEdit DEF clockVars
<1>4. CASE ComesDue(d) \/ ClaimLapses(d)
  <2>1. /\ schedule' \in [Drafts -> {"none", "ahead", "due"}]
        /\ \A e \in Drafts : schedule'[e] # "none" => schedule[e] # "none"
        /\ UNCHANGED << holder, clockVars >>
    BY <1>1, <1>4 DEF ComesDue, ClaimLapses, DraftsTyped
  <2>2. lapsed' \subseteq { e \in Drafts : holder'[e] # NoOne }
    BY <1>1, <1>4 DEF ComesDue, ClaimLapses, DraftsTyped
  <2>3. DraftsTyped'
    BY <1>1, <2>1, <2>2 DEF DraftsTyped, clockVars
  <2> QED
    BY <1>1, <1>2, <2>1, <2>3, NoEdit DEF clockVars
<1>5. ASSUME NEW c \in Clocks, ClaimDue(c, d) PROVE DraftsInv'
  <2>1. << d, revision[d] >> \in Rows
    BY <1>1 DEF DraftsTyped, Rows
  <2>2. /\ holder' \in [Drafts -> Clocks \cup {NoOne}]
        /\ lapsed' \subseteq { e \in Drafts : holder'[e] # NoOne }
    BY <1>1, <1>5 DEF ClaimDue, DraftsTyped
  <2>3. /\ clock' \in [Clocks -> {"off", "admit", "complete", "fail", "enqueue"}]
        /\ due' \in [Clocks -> Rows \cup {None}]
        /\ due'[c] = << d, revision[d] >>
        /\ \A b \in Clocks \ {c} : clock'[b] = clock[b] /\ due'[b] = due[b]
    BY <1>1, <1>5, <2>1 DEF ClaimDue, DraftsTyped
  <2>4. DraftsTyped'
    BY <1>1, <1>5, <2>1, <2>2, <2>3 DEF ClaimDue, DraftsTyped
  <2>5. ASSUME NEW e \in Drafts, Current(e) PROVE Current(e)'
    BY <1>1, <2>5 DEF Current, Out, outboxVars, laneVars, rowVars
  <2>6. ScheduledCurrent'
    BY <1>5, <2>5 DEF ClaimDue, DraftsInv, ScheduledCurrent
  <2>7. ASSUME NEW b \in Clocks, NEW e \in Drafts, NEW n \in 1..MaxRevision,
               clock'[b] = "admit", due'[b] = << e, n >>
        PROVE  n <= revision'[e] /\ (n = revision'[e] => Current(e)')
    <3>1. CASE b = c
      <4>1. e = d /\ n = revision[d]
        BY <2>3, <2>7, <3>1
      <4>2. Current(d)
        BY <1>5 DEF ClaimDue, DraftsInv, ScheduledCurrent
      <4> QED
        BY <1>1, <2>5, <4>1, <4>2
    <3>2. CASE b # c
      <4>1. n <= revision[e] /\ (n = revision[e] => Current(e))
        BY <2>3, <2>7, <3>2 DEF DraftsInv, ClaimedCurrent
      <4> QED
        BY <1>1, <2>5, <4>1
    <3> QED
      BY <3>1, <3>2
  <2>8. ClaimedCurrent'
    BY <2>7 DEF ClaimedCurrent
  <2> QED
    BY <2>4, <2>6, <2>8 DEF DraftsInv
<1> QED
  BY <1>3, <1>4, <1>5 DEF ClockLooks

LEMMA DraftsStep == ASSUME DraftsInv, [Next]_vars PROVE DraftsInv'
<1>1. OutboxInv'
  BY OutboxStep, StepInv DEF DraftsInv
<1>2. CASE UNCHANGED vars
  <2>1. DraftsTyped'
    BY <1>2 DEF DraftsInv, DraftsTyped, vars, draftVars, clockVars
  <2>2. ScheduledCurrent' /\ ClaimedCurrent'
    BY <1>2 DEF DraftsInv, ScheduledCurrent, ClaimedCurrent, Current, Out, vars,
                draftVars, clockVars, outboxVars, laneVars, rowVars
  <2> QED
    BY <1>1, <2>1, <2>2 DEF DraftsInv
<1> QED
  BY <1>1, <1>2, DeliveryStep, SendNowStep, EditorStep, ClockStepInv, ClockLooksInv
     DEF Next, Owner

-----------------------------------------------------------------------------
\* The drafts and their clock drive the outbox only as OutboxNext allows.
THEOREM DraftsAreAnOutbox == Spec => OutboxSpec
<1>1. Init => OutboxInit
  BY DEF Init
<1>2. DraftsInv => DraftsTyped
  BY DEF DraftsInv
<1> QED
  BY <1>1, <1>2, DraftsInit, DraftsStep, OutboxStep, PTL DEF Spec, OutboxSpec

\* Every variable keeps its kind.
THEOREM DraftsTypeCorrect == Spec => []TypeOK
<1>1. DraftsInv => TypeOK
  BY DEF DraftsInv, OutboxInv, DraftsTyped, TypeOK
<1> QED
  BY <1>1, DraftsInit, DraftsStep, PTL DEF Spec

\* No schedule is about to send a draft again while a row of it is at work.
THEOREM SchedulesSendOnce == Spec => []ScheduleSendsOnce
<1>1. DraftsInv => ScheduleSendsOnce
  <2> SUFFICES ASSUME DraftsInv, NEW c \in Clocks, clock[c] = "admit",
                      status[due[c]] = "absent", Admissible(due[c]),
                      NEW r \in Live(due[c][1])
               PROVE  FALSE
    BY DEF ScheduleSendsOnce
  <2>1. PICK d \in Drafts, n \in 1..MaxRevision : due[c] = << d, n >>
    BY RowParts DEF DraftsInv, DraftsTyped
  <2>2. r \in Rows /\ r[1] = d /\ ~Out(r)
    BY <2>1 DEF Live, Out
  <2>3. n = revision[d]
    BY <2>1 DEF Admissible
  <2>4. r[2] = n
    BY <2>1, <2>2, <2>3 DEF DraftsInv, ClaimedCurrent, Current
  <2>5. r = due[c]
    BY <2>1, <2>2, <2>4, RowParts
  <2> QED
    BY <2>2, <2>5 DEF Out
<1> QED
  BY <1>1, DraftsInit, DraftsStep, PTL DEF Spec

\* What is shown above of the outbox, of the composition the run
\* checks.
THEOREM DraftsHandedOnce == Spec => [](HandedOnce /\ LedgersAgree /\ AllowanceKept)
BY DraftsAreAnOutbox, RowsHandedOnce, RowLedgersAgree, AllowanceIsKept, PTL
=============================================================================
