----------------------------- MODULE Idempotency -----------------------------
(***************************************************************************)
(* The Idempotency-Key protocol of POST /emails and POST /emails/batch:    *)
(* one row of idempotency_keys (packages/core/src/idempotency.ts) and the  *)
(* requests that carry its key (apps/api/src/app.ts).  A request claims    *)
(* the key, accepts its mail in a transaction that also records the        *)
(* response, and gives the claim back when it fails.  Claims carry no      *)
(* owner, so a request may act on a claim another one made.                *)
(*                                                                         *)
(* One key is modelled: keys share nothing.  A batch is one request, as    *)
(* its emails commit together.                                             *)
(***************************************************************************)
EXTENDS FiniteSets, Naturals

CONSTANTS
  Requests,  \* requests that arrive with the key
  Bodies,    \* canonical bodies they may have
  DayLong    \* whether a request may still run when its key expires

(* The awaits of a request, and how it ends. *)
Points == {"begin", "lookup", "accept", "releasing", "superseded", "relookup",
           "ok", "refused", "crashed"}

NoRequest == "no request"

NoRow == [hash |-> "none", response |-> NoRequest, age |-> "expired"]

ASSUME KeyAssumption ==
  /\ NoRequest \notin Requests
  /\ "none" \notin Bodies
  /\ DayLong \in BOOLEAN

VARIABLES
  row,      \* the key's row: body_hash, response_email_ids and how old it is
  pc,       \* where each request is
  body,     \* the canonical body of each request
  answer,   \* the request whose email answered each request with a 200
  window    \* history: requests whose mail committed and is not yet forgotten

vars == << row, pc, body, answer, window >>

Ended == {"ok", "refused", "crashed"}

Exists == row # NoRow

(* The claim of a request, in a row that a response has yet to complete. *)
Claimed == Exists /\ row.response = NoRequest

Init ==
  /\ row = NoRow
  /\ pc = [r \in Requests |-> "begin"]
  /\ body \in [Requests -> Bodies]
  /\ answer = [r \in Requests |-> NoRequest]
  /\ window = {}

Goto(r, p) == pc' = [pc EXCEPT ![r] = p]

-----------------------------------------------------------------------------
(* beginIdempotent: one upsert, and when it claims nothing a second         *)
(* statement that reads the row as it is by then.                           *)

(* A row may be claimed over once it expired, or once its claim is older    *)
(* than the lease and it is the same body that comes back.                  *)
Claimable(r) ==
  \/ row.age = "expired"
  \/ Claimed /\ row.age = "stale" /\ row.hash = body[r]

Upsert(r) ==
  /\ row' = [hash |-> body[r], response |-> NoRequest, age |-> "fresh"]
  /\ window' = IF Exists /\ row.age = "expired" THEN {} ELSE window

Begin(r) ==
  /\ pc[r] = "begin"
  /\ IF Claimable(r) THEN Upsert(r) /\ Goto(r, "accept")
     ELSE UNCHANGED << row, window >> /\ Goto(r, "lookup")
  /\ UNCHANGED << body, answer >>

ReplayUnfinished(r) == row.age # "expired" /\ row.hash = body[r]

Replay(r) ==
  row.age # "expired" /\ row.hash = body[r] /\ row.response # NoRequest

(* Replayed, or a 409: conflict or in flight.                               *)
Lookup(r) ==
  /\ pc[r] \in {"lookup", "relookup"}
  /\ IF Replay(r)
     THEN answer' = [answer EXCEPT ![r] = row.response] /\ Goto(r, "ok")
     ELSE UNCHANGED answer /\ Goto(r, "refused")
  /\ UNCHANGED << row, body, window >>

-----------------------------------------------------------------------------
(* The accept transaction, ending in completeIdempotent: whatever row has   *)
(* the key and no response takes this one, or all of it rolls back.         *)

AcceptUnguarded(r) ==
  /\ pc[r] = "accept"
  /\ IF Exists
     THEN /\ row' = [row EXCEPT !.response = r]
          /\ window' = window \cup {r}
          /\ answer' = [answer EXCEPT ![r] = r]
          /\ Goto(r, "ok")
     ELSE UNCHANGED << row, window, answer >> /\ Goto(r, "superseded")
  /\ UNCHANGED body

Accept(r) ==
  /\ pc[r] = "accept"
  /\ IF Claimed
     THEN /\ row' = [row EXCEPT !.response = r]
          /\ window' = window \cup {r}
          /\ answer' = [answer EXCEPT ![r] = r]
          /\ Goto(r, "ok")
     ELSE UNCHANGED << row, window, answer >> /\ Goto(r, "superseded")
  /\ UNCHANGED body

(* IdempotencyTakeoverError: begins again for the sake of the replay.  Told *)
(* "new", it answers 409 and keeps the claim it just made.                  *)
BeginAgain(r) ==
  /\ pc[r] = "superseded"
  /\ IF Claimable(r) THEN Upsert(r) /\ Goto(r, "refused")
     ELSE UNCHANGED << row, window >> /\ Goto(r, "relookup")
  /\ UNCHANGED << body, answer >>

(* A sending pause, a rejection or an error, before anything committed.     *)
Fail(r) ==
  /\ pc[r] = "accept"
  /\ Goto(r, "releasing")
  /\ UNCHANGED << row, body, answer, window >>

ReleaseAnyClaim(r) ==
  /\ pc[r] = "releasing"
  /\ row' = NoRow
  /\ Goto(r, "refused")
  /\ UNCHANGED << body, answer, window >>

(* releaseIdempotent: deletes the row unless it has a response.             *)
Release(r) ==
  /\ pc[r] = "releasing"
  /\ row' = IF Claimed THEN NoRow ELSE row
  /\ Goto(r, "refused")
  /\ UNCHANGED << body, answer, window >>

Crash(r) ==
  /\ pc[r] \notin Ended
  /\ Goto(r, "crashed")
  /\ UNCHANGED << row, body, answer, window >>

-----------------------------------------------------------------------------
(* Past the ten-minute lease a claim is stale; past a day the row expired.  *)
Age ==
  /\ Exists /\ row.age # "expired"
  /\ row.age = "stale" /\ ~ DayLong => \A r \in Requests : pc[r] \in Ended \cup {"begin"}
  /\ row' = [row EXCEPT !.age = IF @ = "fresh" THEN "stale" ELSE "expired"]
  /\ UNCHANGED << pc, body, answer, window >>

(* purgeExpiredIdempotencyKeys *)
Purge ==
  /\ Exists /\ row.age = "expired"
  /\ row' = NoRow
  /\ window' = {}
  /\ UNCHANGED << pc, body, answer >>

Request(r) ==
  \/ Begin(r) \/ Lookup(r) \/ Accept(r) \/ BeginAgain(r)
  \/ Fail(r) \/ Release(r) \/ Crash(r)

Next == (\E r \in Requests : Request(r)) \/ Age \/ Purge

Spec == Init /\ [][Next]_vars

-----------------------------------------------------------------------------
(* Types; a 200 names an email and nothing else does.                       *)
TypeOK ==
  /\ row \in [hash : Bodies \cup {"none"}, response : Requests \cup {NoRequest},
              age : {"fresh", "stale", "expired"}]
  /\ pc \in [Requests -> Points]
  /\ body \in [Requests -> Bodies]
  /\ answer \in [Requests -> Requests \cup {NoRequest}]
  /\ window \subseteq Requests
  /\ \A r \in Requests : pc[r] = "ok" <=> answer[r] # NoRequest

(* One key accepts mail once (idempotency.ts:68-73): until the row expires  *)
(* no second request commits its emails, whoever took over, released or     *)
(* outlived which claim.                                                    *)
OneAcceptPerWindow == \A r, s \in window : r = s

(* "Completed claims are never released" (idempotency.ts:89): what a        *)
(* request committed stays the answer a retry is replayed.                  *)
AcceptStaysRecorded == \A r \in window : row.response = r

(* "Same key + same canonical body -> stored response" (idempotency.ts:20)  *)
(* and same key, different body -> conflict: the email a request is         *)
(* answered with has its body.                                              *)
AnswerMatchesBody ==
  \A r \in Requests : answer[r] # NoRequest => body[answer[r]] = body[r]
=============================================================================
