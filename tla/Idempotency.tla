---------------------------- MODULE Idempotency ----------------------------
(***************************************************************************)
(* IdempotencyMiddleware (backend/app/idempotency.py) over its table       *)
(* idempotency_keys, in the single uvicorn process the Dockerfile starts.  *)
(*                                                                         *)
(* A member of Requests is one HTTP request.  Its dispatch runs on the     *)
(* event loop, so the code between two awaits is one action: lookup and    *)
(* insert (l.87-172), the call of the route handler (l.178), the           *)
(* collection of the body (l.194-198) and the save (l.203-219).  Other     *)
(* requests, a crash and the passing of time come in between.              *)
(*                                                                         *)
(* A key stands for the pair (Idempotency-Key, user identifier) that the   *)
(* query of l.91-95 filters by, a hash for the SHA-256 of method, path and *)
(* body.  Row ids are fresh uuids, one per insert, and a request inserts   *)
(* at most once, so a row bears the name of the request that inserted it.  *)
(* A response body carries fresh ids and timestamps: it bears the name of  *)
(* the request whose handler produced it.                                  *)
(***************************************************************************)
EXTENDS Integers, FiniteSets

CONSTANTS Requests,     \* HTTP requests with a mutating method
          Keys,         \* usable (Idempotency-Key, user) pairs
          Hashes,       \* request fingerprints
          NoKey,        \* no header, or a blank one
          LongKey,      \* a header of more than 256 characters
          NoBody,       \* a reply without a handler's body
          MaxCrashes    \* bound: crashes of the process in a behaviour

ASSUME SpecialKeys == NoKey \notin Keys /\ LongKey \notin Keys /\ NoKey # LongKey
ASSUME NoBodyIsNoRequest == NoBody \notin Requests
ASSUME MaxCrashesNat == MaxCrashes \in Nat

VARIABLES
  req,       \* [key, hash] of each request, as its client sent it
  pc,        \* where the dispatch of each request is
  out,       \* how call_next ended: a status class, or "raise"
  reply,     \* what the client is answered
  done,      \* requests whose handler committed its transaction
  table,     \* ids of the rows that exist in idempotency_keys
  row,       \* the columns of those rows
  born,      \* created_at of each row: its position in the order of inserts
  clock,     \* inserts made so far
  horizon,   \* rows born at or before it are more than 24 hours old
  horizonAt, \* history: the horizon when a request inserted its row
  crashes

vars == <<req, pc, out, reply, done, table, row, born, clock, horizon, horizonAt, crashes>>

Codes    == {"2xx", "4xx", "5xx"}
Outcomes == Codes \cup {"raise"}
Failures == {"5xx", "raise"}
Kinds    == {"none", "miss", "hit", "mismatch", "conflict", "bypass", "toolong", "error"}

Answer(kind, code, body) == [kind |-> kind, code |-> code, body |-> body]
NoAnswer == Answer("none", "4xx", NoBody)

Row(k, h, status, code, body) ==
  [key |-> k, hash |-> h, status |-> status, code |-> code, body |-> body]

Init ==
  /\ req \in [Requests -> [key : Keys \cup {NoKey, LongKey}, hash : Hashes]]
  /\ pc = [r \in Requests |-> "new"]
  /\ out = [r \in Requests |-> "raise"]
  /\ reply = [r \in Requests |-> NoAnswer]
  /\ done = {}
  /\ table = {}
  /\ row = [r \in Requests |-> Row(req[r].key, req[r].hash, "PROCESSING", "5xx", NoBody)]
  /\ born = [r \in Requests |-> 0]
  /\ clock = 0 /\ horizon = 0
  /\ horizonAt = [r \in Requests |-> 0]
  /\ crashes = 0

----------------------------------------------------------------------------
(* The dispatch of a request. *)

Executing(r) == pc[r] \in {"executing", "ended"}
HasKey(r)    == req[r].key \in Keys
InFlight(r)  == Executing(r) /\ HasKey(r)

(* Operators named ..._bug are mutants of the definition they precede. *)
Expired_ageOfRow_bug(q) == born[q] <= clock
Expired_never_bug(q)    == FALSE
Expired(q) == born[q] <= horizon

Matches_completedOnly_bug(r) ==
  {q \in table : row[q].key = req[r].key /\ row[q].status = "COMPLETED"}

\* l.91-95: the rows the query may answer with; first() has no ORDER BY, so any.
Matches(r) == {q \in table : row[q].key = req[r].key}

Reply(r, kind, code, body) ==
  /\ pc' = [pc EXCEPT ![r] = "answered"]
  /\ reply' = [reply EXCEPT ![r] = Answer(kind, code, body)]

\* l.66-68: no key, so the handler runs with nothing recorded.
Bypass(r) ==
  /\ pc[r] = "new" /\ req[r].key = NoKey
  /\ pc' = [pc EXCEPT ![r] = "executing"]
  /\ UNCHANGED <<req, out, reply, done, table, row, born, clock, horizon, horizonAt, crashes>>

\* l.73-77
RejectLongKey(r) ==
  /\ pc[r] = "new" /\ req[r].key = LongKey
  /\ Reply(r, "toolong", "4xx", NoBody)
  /\ UNCHANGED <<req, out, done, table, row, born, clock, horizon, horizonAt, crashes>>

\* l.107-119: a live COMPLETED row with another fingerprint.
RejectMismatch(r) ==
  /\ pc[r] = "new" /\ HasKey(r)
  /\ \E q \in Matches(r) : ~Expired(q) /\ row[q].status = "COMPLETED" /\ row[q].hash # req[r].hash
  /\ Reply(r, "mismatch", "4xx", NoBody)
  /\ UNCHANGED <<req, out, done, table, row, born, clock, horizon, horizonAt, crashes>>

Replayable_anyPayload_bug(q, r) == row[q].status = "COMPLETED"

\* l.110: the stored response answers this request.
Replayable(q, r) == row[q].status = "COMPLETED" /\ row[q].hash = req[r].hash

\* l.121-140
Replay(r) ==
  /\ pc[r] = "new" /\ HasKey(r)
  /\ \E q \in Matches(r) :
       ~Expired(q) /\ Replayable(q, r) /\ Reply(r, "hit", row[q].code, row[q].body)
  /\ UNCHANGED <<req, out, done, table, row, born, clock, horizon, horizonAt, crashes>>

\* l.142-153
RejectConflict(r) ==
  /\ pc[r] = "new" /\ HasKey(r)
  /\ \E q \in Matches(r) : ~Expired(q) /\ row[q].status = "PROCESSING"
  /\ Reply(r, "conflict", "4xx", NoBody)
  /\ UNCHANGED <<req, out, done, table, row, born, clock, horizon, horizonAt, crashes>>


\* l.155-169: a new PROCESSING row, next to the rows the lookup left.
Insert(r, rest) ==
  /\ table' = rest \cup {r}
  /\ row' = [row EXCEPT ![r] = Row(req[r].key, req[r].hash, "PROCESSING", "5xx", NoBody)]
  /\ clock' = clock + 1
  /\ born' = [born EXCEPT ![r] = clock + 1]
  /\ horizonAt' = [horizonAt EXCEPT ![r] = horizon]
  /\ pc' = [pc EXCEPT ![r] = "executing"]
  /\ UNCHANGED <<req, out, reply, done, horizon, crashes>>

\* No row has the key.
MissFresh(r) ==
  /\ pc[r] = "new" /\ HasKey(r)
  /\ Matches(r) = {}
  /\ Insert(r, table)

MissExpired_deletesAll_bug(r) ==
  /\ pc[r] = "new" /\ HasKey(r)
  /\ \E q \in Matches(r) : Expired(q) /\ Insert(r, table \ Matches(r))

\* l.97-105: the row found is more than 24 hours old and is deleted, it alone.
MissExpired(r) ==
  /\ pc[r] = "new" /\ HasKey(r)
  /\ \E q \in Matches(r) : Expired(q) /\ Insert(r, table \ {q})

\* The row found is FAILED: neither l.108 nor l.143 holds and it stays.
MissFailed(r) ==
  /\ pc[r] = "new" /\ HasKey(r)
  /\ \E q \in Matches(r) : ~Expired(q) /\ row[q].status = "FAILED"
  /\ Insert(r, table)

\* The commit of l.104 or of l.167 fails: the exception leaves dispatch, with
\* the expired row already gone when it is the second one.
LookupRefused(r) ==
  /\ pc[r] = "new" /\ HasKey(r)
  /\ \/ table' = table
     \/ \E q \in Matches(r) : Expired(q) /\ table' = table \ {q}
  /\ Reply(r, "error", "5xx", NoBody)
  /\ UNCHANGED <<req, out, done, row, born, clock, horizon, horizonAt, crashes>>

----------------------------------------------------------------------------
(* The route handler behind call_next, and what dispatch does with its end. *)

\* The handler's db.commit(): the request has taken effect.
CommitEffect(r) ==
  /\ pc[r] = "executing" /\ r \notin done
  /\ done' = done \cup {r}
  /\ UNCHANGED <<req, pc, out, reply, table, row, born, clock, horizon, horizonAt, crashes>>

\* l.178 returns or raises.  A mutating handler answers 2xx after its commit
\* and refuses (4xx) before it; it can fail on either side of it.
HandlerEnds(r) ==
  /\ pc[r] = "executing"
  /\ \E o \in Outcomes :
       /\ o = "2xx" => r \in done
       /\ o = "4xx" => r \notin done
       /\ out' = [out EXCEPT ![r] = o]
  /\ pc' = [pc EXCEPT ![r] = "ended"]
  /\ UNCHANGED <<req, reply, done, table, row, born, clock, horizon, horizonAt, crashes>>

\* A request without a key is answered with whatever its handler gave.
AnswerBypass(r) ==
  /\ pc[r] = "ended" /\ req[r].key = NoKey
  /\ Reply(r, "bypass", IF out[r] = "raise" THEN "5xx" ELSE out[r], r)
  /\ UNCHANGED <<req, out, done, table, row, born, clock, horizon, horizonAt, crashes>>

Saved_no5xxBranch_bug(r, c) ==
  IF c \in Failures THEN row[r]
  ELSE [row[r] EXCEPT !.status = "COMPLETED", !.code = c, !.body = r]

\* l.211-216: the row's new columns once the handler answered c.
Saved(r, c) ==
  IF c \in Failures THEN [row[r] EXCEPT !.status = "FAILED"]
  ELSE [row[r] EXCEPT !.status = "COMPLETED", !.code = c, !.body = r]

\* l.203-225; `if rec` guards the update (the query of l.206 is by id).
Save(r) ==
  /\ pc[r] = "ended" /\ HasKey(r) /\ out[r] # "raise"
  /\ row' = IF r \in table THEN [row EXCEPT ![r] = Saved(r, out[r])] ELSE row
  /\ Reply(r, "miss", out[r], r)
  /\ UNCHANGED <<req, out, done, table, born, clock, horizon, horizonAt, crashes>>

\* l.179-189: the row becomes FAILED and the exception goes on to a 500.
CleanUp(r) ==
  /\ pc[r] = "ended" /\ HasKey(r) /\ out[r] = "raise"
  /\ row' = IF r \in table THEN [row EXCEPT ![r].status = "FAILED"] ELSE row
  /\ Reply(r, "error", "5xx", NoBody)
  /\ UNCHANGED <<req, out, done, table, born, clock, horizon, horizonAt, crashes>>

\* The commit of l.186 or l.217 itself fails ("database is locked"): the
\* session is closed, the exception leaves dispatch, the row stays PROCESSING.
CommitRefused(r) ==
  /\ pc[r] = "ended" /\ HasKey(r)
  /\ Reply(r, "error", "5xx", NoBody)
  /\ UNCHANGED <<req, out, done, table, row, born, clock, horizon, horizonAt, crashes>>

----------------------------------------------------------------------------
(* The environment: clients, time, crashes. *)

\* A client told 409 sends the request again (Retry-After: 2, l.150).
Retry(r) ==
  /\ pc[r] = "answered" /\ reply[r].kind = "conflict"
  /\ pc' = [pc EXCEPT ![r] = "new"]
  /\ reply' = [reply EXCEPT ![r] = NoAnswer]
  /\ UNCHANGED <<req, out, done, table, row, born, clock, horizon, horizonAt, crashes>>

\* Rows get older than their 24 hours (l.164) in the order they were inserted.
\* Assumption: a handler does not run for 24 hours.
TimePasses ==
  /\ \E t \in (horizon + 1)..clock :
       /\ \A q \in Requests : InFlight(q) => born[q] > t
       /\ horizon' = t
  /\ UNCHANGED <<req, pc, out, reply, done, table, row, born, clock, horizonAt, crashes>>

\* The process dies, or --reload restarts it: every dispatch is lost with its
\* handler's open transaction; the table survives.
Crash ==
  /\ crashes < MaxCrashes
  /\ crashes' = crashes + 1
  /\ \E r \in Requests : Executing(r)
  /\ pc' = [r \in Requests |-> IF Executing(r) THEN "dead" ELSE pc[r]]
  /\ UNCHANGED <<req, out, reply, done, table, row, born, clock, horizon, horizonAt>>

Dispatch(r) ==
  \/ Bypass(r) \/ RejectLongKey(r) \/ RejectMismatch(r) \/ Replay(r) \/ RejectConflict(r)
  \/ MissFresh(r) \/ MissExpired(r) \/ MissFailed(r) \/ LookupRefused(r)
Run(r)    == CommitEffect(r) \/ HandlerEnds(r)
Finish(r) == AnswerBypass(r) \/ Save(r) \/ CleanUp(r) \/ CommitRefused(r)

Next ==
  \/ \E r \in Requests : Dispatch(r) \/ Run(r) \/ Finish(r) \/ Retry(r)
  \/ TimePasses
  \/ Crash

Spec == Init /\ [][Next]_vars

\* The event loop runs every ready task; handlers end; clients do come back
\* and days do pass.  Nothing forces a crash.
Fairness ==
  /\ \A r \in Requests : WF_vars(Dispatch(r)) /\ WF_vars(HandlerEnds(r)) /\ WF_vars(Finish(r))
                          /\ WF_vars(Retry(r))
  /\ WF_vars(TimePasses)

FairSpec == Spec /\ Fairness

----------------------------------------------------------------------------
(* Properties. *)

TypeOK ==
  /\ req \in [Requests -> [key : Keys \cup {NoKey, LongKey}, hash : Hashes]]
  /\ pc \in [Requests -> {"new", "executing", "ended", "answered", "dead"}]
  /\ out \in [Requests -> Outcomes]
  /\ reply \in [Requests -> [kind : Kinds, code : Codes, body : Requests \cup {NoBody}]]
  /\ done \subseteq Requests
  /\ table \subseteq Requests
  /\ row \in [Requests -> [key : Keys \cup {NoKey, LongKey}, hash : Hashes,
                           status : {"PROCESSING", "COMPLETED", "FAILED"},
                           code : Codes, body : Requests \cup {NoBody}]]
  /\ born \in [Requests -> Nat]
  /\ clock \in Nat /\ horizon \in Nat /\ crashes \in Nat
  /\ horizonAt \in [Requests -> Nat]

SameKey(q, r) == HasKey(q) /\ req[q].key = req[r].key

\* Some row of key k is, or was when it was deleted, FAILED.
KeyFailed(k) == \E q \in Requests : req[q].key = k /\ row[q].status = "FAILED"

\* The row of q was no longer valid when r inserted its own.
ExpiredBefore(q, r) == born[q] <= horizonAt[r]

\* HIT-IDEMPOTENT (l.121-140): a replayed answer is the one that an execution
\* of the same request under the same key was answered with, never a 5xx,
\* and it says 2xx exactly when that execution took effect.
ReplayFaithful ==
  \A r \in Requests : reply[r].kind = "hit" =>
    \E q \in Requests :
      /\ req[q] = req[r]
      /\ reply[r].body = q
      /\ reply[q] = Answer("miss", reply[r].code, q)
      /\ reply[r].code # "5xx"
      /\ reply[r].code = "2xx" <=> q \in done

\* A key none of whose executions was marked FAILED takes effect at most once
\* per 24 hours, whatever crashes, refused commits and concurrent retries
\* come in between (l.87-172 as a whole).
AtMostOnce ==
  \A q, r \in done :
    (q # r /\ SameKey(q, r) /\ born[q] < born[r] /\ ~KeyFailed(req[r].key)) => ExpiredBefore(q, r)

\* While no execution under a key was marked FAILED, one handler at most runs
\* under it (the PROCESSING row and the 409 of l.142-153).
OneInFlight ==
  \A q, r \in Requests :
    (q # r /\ InFlight(q) /\ InFlight(r) /\ SameKey(q, r)) => KeyFailed(req[r].key)

\* A row is PROCESSING because its handler is running, or the process died
\* under it, or the commit that closes it was refused: these orphans are the
\* only rows that answer 409 with nobody at work.  And the row of a running
\* handler is there for it to close (`if rec`, l.184 and l.207).
ProcessingAccounted ==
  /\ \A q \in table : row[q].status = "PROCESSING" =>
       InFlight(q) \/ pc[q] = "dead" \/ reply[q].kind = "error"
  /\ \A r \in Requests : InFlight(r) => r \in table /\ row[r].status = "PROCESSING"

\* What a step may do to a row: only the request that inserted it closes it, a
\* COMPLETED or FAILED row keeps its columns, and no row goes before it expires.
RowStep ==
  \A q \in table :
    /\ q \in table' \/ Expired(q)
    /\ row'[q] # row[q] => row[q].status = "PROCESSING" /\ Executing(q) /\ pc'[q] = "answered"
RowLifecycle == [][RowStep]_vars

\* A client that is told 409 and keeps retrying is answered something else in
\* the end, orphaned rows included: they expire (l.97-105).
RetrierGetsThrough ==
  \A r \in Requests :
    (pc[r] = "answered" /\ reply[r].kind = "conflict")
      ~> (pc[r] = "dead" \/ (pc[r] = "answered" /\ reply[r].kind # "conflict"))

(* What the documentation says and the code does not do: the FAILED row of an *)
(* execution stays in the table and can hide the later rows of its key.       *)

\* l.50: "HIT: Replays identical cached status & body"; README l.128: "zero
\* duplicate side-effects".  Two executions under one key within 24 hours are
\* not both answered with success.
OneSuccessPerKey ==
  \A q, r \in done :
    ( /\ q # r /\ SameKey(q, r) /\ born[q] < born[r]
      /\ reply[q].kind = "miss" /\ reply[q].code = "2xx"
      /\ reply[r].kind = "miss" /\ reply[r].code = "2xx" ) => ExpiredBefore(q, r)

----------------------------------------------------------------------------
(* The inductive invariant behind AtMostOnce, OneInFlight and ReplayFaithful. *)

\* Births number the inserts; a request that can still insert has none.
Births ==
  /\ horizon <= clock
  /\ \A r \in Requests :
       /\ born[r] <= clock /\ horizonAt[r] <= horizon
       /\ born[r] > 0 => HasKey(r)
       /\ (pc[r] = "new" \/ reply[r].kind = "conflict") => born[r] = 0 /\ r \notin done
       /\ pc[r] # "answered" => reply[r].kind = "none"
       /\ (r \in done /\ HasKey(r)) => born[r] > 0
  /\ \A q, r \in Requests : (born[q] = born[r] /\ born[q] > 0) => q = r

\* The table holds inserted rows, under the key and hash of their request, and
\* all of those that have not expired.
Rows ==
  /\ \A q \in Requests : row[q].key = req[q].key /\ row[q].hash = req[q].hash
  /\ \A q \in Requests : born[q] = 0 => row[q].status = "PROCESSING"
  /\ \A q \in table : born[q] > 0
  /\ \A q \in Requests : born[q] > horizon => q \in table
  /\ \A q \in Requests : InFlight(q) => born[q] > horizon /\ row[q].status = "PROCESSING"

\* Two rows of one key stand side by side only after a failure.
Shared ==
  \A q, r \in table : (q # r /\ SameKey(q, r)) => KeyFailed(req[r].key)

\* A key is executed again within 24 hours only after a failure.
Reexecution ==
  \A q, r \in Requests :
    (born[q] > 0 /\ born[q] < born[r] /\ SameKey(q, r) /\ ~KeyFailed(req[r].key)) => ExpiredBefore(q, r)

\* A COMPLETED row holds the answer its request got.
Stored ==
  \A q \in Requests :
    /\ pc[q] = "ended" /\ out[q] = "2xx" => q \in done
    /\ pc[q] = "ended" /\ out[q] = "4xx" => q \notin done
    /\ row[q].status = "COMPLETED" =>
         /\ pc[q] = "answered" /\ row[q].body = q /\ row[q].code # "5xx"
         /\ reply[q] = Answer("miss", row[q].code, q)
         /\ row[q].code = "2xx" <=> q \in done

IInv == Births /\ Rows /\ Shared /\ Reexecution /\ Stored

============================================================================
