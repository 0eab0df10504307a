------------------------- MODULE IdempotencyProofs -------------------------
(***************************************************************************)
(* Theorems about Idempotency for every set of requests, keys and hashes   *)
(* and every number of crashes.  One lemma per action shows that it        *)
(* preserves a formula; the theorems put them together.                    *)
(***************************************************************************)
EXTENDS Idempotency, TLAPS

Columns == [key : Keys \cup {NoKey, LongKey}, hash : Hashes,
            status : {"PROCESSING", "COMPLETED", "FAILED"},
            code : Codes, body : Requests \cup {NoBody}]

\* What a request inserts is a row.
LEMMA NewRowType ==
  ASSUME TypeOK, NEW r \in Requests
  PROVE  Row(req[r].key, req[r].hash, "PROCESSING", "5xx", NoBody) \in Columns
BY DEF TypeOK, Row, Columns, Codes

\* Answering a request keeps pc and reply well typed.
LEMMA ReplyType ==
  ASSUME TypeOK, NEW r \in Requests, NEW k \in Kinds, NEW c \in Codes,
         NEW b \in Requests \cup {NoBody}, Reply(r, k, c, b)
  PROVE  /\ pc' \in [Requests -> {"new", "executing", "ended", "answered", "dead"}]
         /\ reply' \in [Requests -> [kind : Kinds, code : Codes, body : Requests \cup {NoBody}]]
BY DEF TypeOK, Reply, Answer

\* A dispatch before its first await keeps every variable well typed.
LEMMA DispatchType ==
  ASSUME TypeOK, NEW r \in Requests, Dispatch(r)
  PROVE  TypeOK'
<1>0. USE DEF Kinds, Codes
<1>1. ASSUME NEW rest \in SUBSET Requests, Insert(r, rest) PROVE TypeOK'
  <2>1. row' \in [Requests -> Columns]
    BY <1>1, NewRowType DEF Insert, TypeOK, Columns
  <2>2. QED
    BY <1>1, <2>1 DEF Insert, TypeOK, Columns
<1>2. CASE Bypass(r)
  BY <1>2 DEF Bypass, TypeOK
<1>3. CASE RejectLongKey(r)
  BY <1>3, ReplyType DEF RejectLongKey, TypeOK
<1>4. CASE RejectMismatch(r)
  BY <1>4, ReplyType DEF RejectMismatch, TypeOK
<1>5. CASE Replay(r)
  <2>1. PICK q \in Matches(r) : Reply(r, "hit", row[q].code, row[q].body)
    BY <1>5 DEF Replay
  <2>2. row[q].code \in Codes /\ row[q].body \in Requests \cup {NoBody}
    BY DEF Matches, TypeOK
  <2>3. QED
    BY <1>5, <2>1, <2>2, ReplyType DEF Replay, TypeOK
<1>6. CASE RejectConflict(r)
  BY <1>6, ReplyType DEF RejectConflict, TypeOK
<1>7. CASE MissFresh(r)
  BY <1>1, <1>7 DEF MissFresh, TypeOK
<1>8. CASE MissExpired(r)
  BY <1>1, <1>8 DEF MissExpired, TypeOK
<1>9. CASE MissFailed(r)
  BY <1>1, <1>9 DEF MissFailed, TypeOK
<1>10. CASE LookupRefused(r)
  BY <1>10, ReplyType DEF LookupRefused, TypeOK
<1>11. QED
  BY <1>2, <1>3, <1>4, <1>5, <1>6, <1>7, <1>8, <1>9, <1>10 DEF Dispatch

\* The handler and the end of the dispatch keep every variable well typed.
LEMMA HandlerType ==
  ASSUME TypeOK, NEW r \in Requests, Run(r) \/ Finish(r) \/ Retry(r)
  PROVE  TypeOK'
<1>0. USE DEF Kinds, Codes
<1>1. CASE CommitEffect(r)
  BY <1>1 DEF CommitEffect, TypeOK
<1>2. CASE HandlerEnds(r)
  BY <1>2 DEF HandlerEnds, TypeOK
<1>3. CASE AnswerBypass(r)
  <2>1. (IF out[r] = "raise" THEN "5xx" ELSE out[r]) \in Codes
    BY DEF TypeOK, Outcomes
  <2>2. QED
    BY <1>3, <2>1, ReplyType DEF AnswerBypass, TypeOK
<1>4. CASE Save(r)
  <2>1. out[r] \in Codes
    BY <1>4 DEF Save, TypeOK, Outcomes
  <2>2. row' \in [Requests -> Columns]
    <3>1. row \in [Requests -> Columns]
      BY DEF TypeOK, Columns
    <3>2. row[r] \in Columns
      BY <3>1
    <3>3. [row[r] EXCEPT !.status = "FAILED"] \in Columns
      BY <3>2 DEF Columns
    <3>4. [row[r] EXCEPT !.status = "COMPLETED", !.code = out[r], !.body = r] \in Columns
      BY <3>2, <2>1 DEF Columns
    <3>5. Saved(r, out[r]) \in Columns
      BY <3>3, <3>4 DEF Saved
    <3>6. QED
      BY <1>4, <3>1, <3>5 DEF Save
  <2>3. QED
    BY <1>4, <2>1, <2>2, ReplyType DEF Save, TypeOK, Columns
<1>5. CASE CleanUp(r)
  <2>1. row' \in [Requests -> Columns]
    <3>1. row \in [Requests -> Columns]
      BY DEF TypeOK, Columns
    <3>2. [row[r] EXCEPT !.status = "FAILED"] \in Columns
      BY <3>1 DEF Columns
    <3>3. QED
      BY <1>5, <3>1, <3>2 DEF CleanUp
  <2>2. QED
    BY <1>5, <2>1, ReplyType DEF CleanUp, TypeOK, Columns
<1>6. CASE CommitRefused(r)
  BY <1>6, ReplyType DEF CommitRefused, TypeOK
<1>7. CASE Retry(r)
  BY <1>7 DEF Retry, TypeOK, NoAnswer, Answer
<1>8. QED
  BY <1>1, <1>2, <1>3, <1>4, <1>5, <1>6, <1>7 DEF Run, Finish

\* Every variable of the middleware keeps its type.
THEOREM TypeCorrect == Spec => []TypeOK
<1>1. Init => TypeOK
  BY DEF Init, TypeOK, Row, NoAnswer, Answer, Outcomes, Codes, Kinds
<1>2. TypeOK /\ [Next]_vars => TypeOK'
  <2> SUFFICES ASSUME TypeOK, [Next]_vars PROVE TypeOK'
    OBVIOUS
  <2>1. CASE TimePasses
    BY <2>1 DEF TimePasses, TypeOK
  <2>2. CASE Crash
    BY <2>2, MaxCrashesNat DEF Crash, TypeOK
  <2>3. CASE UNCHANGED vars
    BY <2>3 DEF vars, TypeOK
  <2>4. QED
    BY <2>1, <2>2, <2>3, DispatchType, HandlerType DEF Next
<1>3. QED
  BY <1>1, <1>2, PTL DEF Spec

----------------------------------------------------------------------------
(* IInv is inductive. *)

\* A failure is never forgotten while no FAILED row changes its columns.
LEMMA FailureStays ==
  ASSUME UNCHANGED req, NEW k, KeyFailed(k),
         \A q \in Requests : row[q].status = "FAILED" => row'[q].status = "FAILED"
  PROVE  KeyFailed(k)'
BY DEF KeyFailed

\* A request refused or replayed at its lookup.
LEMMA AnswerStep ==
  ASSUME TypeOK, IInv, NEW r \in Requests, pc[r] = "new",
         NEW k \in Kinds \ {"none", "miss"}, NEW c, NEW b, Reply(r, k, c, b),
         UNCHANGED <<req, out, done, row, born, clock, horizon, horizonAt>>,
         table' \subseteq table, \A q \in table \ table' : Expired(q)
  PROVE  IInv'
<1> USE DEF TypeOK, IInv
<1>1. Births'
  BY DEF Births, Reply, Answer, HasKey
<1>2. Rows'
  BY DEF Rows, Reply, InFlight, Executing, HasKey, Expired
<1>3. Shared'
  BY DEF Shared, SameKey, HasKey, KeyFailed
<1>4. Reexecution'
  BY DEF Reexecution, SameKey, HasKey, KeyFailed, ExpiredBefore
<1>5. Stored'
  BY DEF Stored, Reply, Answer
<1>6. QED
  BY <1>1, <1>2, <1>3, <1>4, <1>5

\* A request that inserts its row: what the lookup left of its key is either
\* nothing or the trace of a failure.
LEMMA InsertStep ==
  ASSUME TypeOK, IInv, NEW r \in Requests, pc[r] = "new", HasKey(r),
         NEW rest \in SUBSET table, Insert(r, rest), UNCHANGED crashes,
         \A q \in table \ rest : Expired(q),
         \A q \in rest : SameKey(q, r) => KeyFailed(req[r].key)
  PROVE  IInv'
<1> USE DEF TypeOK, IInv
<1>1. born[r] = 0 /\ r \notin done /\ row[r].status = "PROCESSING" /\ r \notin table
  BY DEF Births, Rows
<1>2. row' = [row EXCEPT ![r] = [key |-> req[r].key, hash |-> req[r].hash, status |-> "PROCESSING",
                                 code |-> "5xx", body |-> NoBody]]
  BY DEF Insert, Row
<1>3. \A q \in Requests : row'[q].status = row[q].status
  BY <1>1, <1>2
<1>4. \A k : KeyFailed(k) <=> KeyFailed(k)'
  BY <1>3 DEF KeyFailed, Insert
<1>5. Births'
  BY <1>1 DEF Births, Insert, HasKey
<1>6. Rows'
  BY <1>1, <1>2, <1>3 DEF Rows, Births, Insert, InFlight, Executing, HasKey, Expired
<1>7. Shared'
  BY <1>1, <1>4 DEF Shared, SameKey, HasKey, Insert
<1>8. Reexecution'
  <2> SUFFICES ASSUME NEW p \in Requests, NEW q \in Requests,
                      born'[p] > 0, born'[p] < born'[q], SameKey(p, q), ~KeyFailed(req[q].key)
               PROVE  born'[p] <= horizonAt'[q]
    BY <1>4 DEF Reexecution, SameKey, HasKey, ExpiredBefore, Insert
  <2>1. CASE q = r
    <3>1. p # r /\ born'[p] = born[p] /\ horizonAt'[r] = horizon
      BY <2>1 DEF Insert
    <3>2. CASE born[p] > horizon
      BY <2>1, <3>1, <3>2 DEF Rows, Expired
    <3>3. QED
      BY <2>1, <3>1, <3>2
  <2>2. CASE q # r
    <3>1. born'[q] = born[q] /\ horizonAt'[q] = horizonAt[q] /\ born[q] <= clock
      BY <2>2 DEF Insert, Births
    <3>2. p # r /\ born'[p] = born[p]
      BY <3>1 DEF Insert
    <3>3. QED
      BY <3>1, <3>2 DEF Reexecution, ExpiredBefore
  <2>3. QED
    BY <2>1, <2>2
<1>9. Stored'
  BY <1>1, <1>2 DEF Stored, Insert
<1>10. QED
  BY <1>5, <1>6, <1>7, <1>8, <1>9

\* The lookup and what follows it up to the first await.
LEMMA DispatchStep ==
  ASSUME TypeOK, IInv, NEW r \in Requests, Dispatch(r)
  PROVE  IInv'
<1> USE DEF Kinds
<1>1. CASE Bypass(r)
  <2> USE DEF TypeOK, IInv, Bypass
  <2>1. Births'
    BY <1>1 DEF Births, HasKey
  <2>2. Rows'
    BY <1>1, SpecialKeys DEF Rows, InFlight, Executing, HasKey
  <2>3. Shared' /\ Reexecution'
    BY <1>1 DEF Shared, Reexecution, SameKey, HasKey, KeyFailed, ExpiredBefore
  <2>4. Stored'
    BY <1>1 DEF Stored
  <2>5. QED
    BY <2>1, <2>2, <2>3, <2>4
<1>2. CASE RejectLongKey(r)
  BY <1>2, AnswerStep DEF RejectLongKey
<1>3. CASE RejectMismatch(r)
  BY <1>3, AnswerStep DEF RejectMismatch
<1>4. CASE Replay(r)
  <2>1. PICK q \in Matches(r) : Reply(r, "hit", row[q].code, row[q].body)
    BY <1>4 DEF Replay
  <2>2. QED
    BY <1>4, <2>1, AnswerStep DEF Replay
<1>5. CASE RejectConflict(r)
  BY <1>5, AnswerStep DEF RejectConflict
<1>6. CASE MissFresh(r)
  <2>1. \A q \in table : ~SameKey(q, r)
    BY <1>6 DEF MissFresh, Matches, SameKey, IInv, Rows, TypeOK
  <2>2. QED
    BY <1>6, <2>1, InsertStep DEF MissFresh, Insert
<1>7. CASE MissExpired(r)
  <2>1. PICK x \in Matches(r) : Expired(x) /\ Insert(r, table \ {x})
    BY <1>7 DEF MissExpired
  <2>2. x \in table /\ req[x].key = req[r].key
    BY DEF Matches, IInv, Rows, TypeOK
  <2>3. \A q \in table \ {x} : SameKey(q, r) => KeyFailed(req[r].key)
    BY <2>2 DEF IInv, Shared, SameKey, HasKey
  <2>4. pc[r] = "new" /\ HasKey(r)
    BY <1>7 DEF MissExpired
  <2>5. UNCHANGED crashes
    BY <2>1 DEF Insert
  <2>6. \A q \in table \ (table \ {x}) : Expired(q)
    BY <2>1
  <2>7. QED
    BY <2>1, <2>3, <2>4, <2>5, <2>6, InsertStep
<1>8. CASE MissFailed(r)
  <2>1. KeyFailed(req[r].key)
    BY <1>8 DEF MissFailed, Matches, KeyFailed, IInv, Rows, TypeOK
  <2>2. QED
    BY <1>8, <2>1, InsertStep DEF MissFailed, Insert
<1>9. CASE LookupRefused(r)
  <2>1. table' \subseteq table /\ \A q \in table \ table' : Expired(q)
    BY <1>9 DEF LookupRefused
  <2>2. QED
    BY <1>9, <2>1, AnswerStep DEF LookupRefused
<1>10. QED
  BY <1>1, <1>2, <1>3, <1>4, <1>5, <1>6, <1>7, <1>8, <1>9 DEF Dispatch

\* The handler's commit and its end leave the table alone.
LEMMA RunStep ==
  ASSUME TypeOK, IInv, NEW r \in Requests, Run(r)
  PROVE  IInv'
<1> USE DEF TypeOK, IInv
<1>1. CASE CommitEffect(r)
  <2> USE DEF CommitEffect
  <2>1. Births'
    BY <1>1 DEF Births, Rows, HasKey, InFlight, Executing
  <2>2. Rows' /\ Shared' /\ Reexecution'
    BY <1>1 DEF Rows, Shared, Reexecution, SameKey, HasKey, KeyFailed, ExpiredBefore, InFlight, Executing
  <2>3. Stored'
    BY <1>1 DEF Stored
  <2>4. QED
    BY <2>1, <2>2, <2>3
<1>2. CASE HandlerEnds(r)
  <2> USE DEF HandlerEnds
  <2>1. Births'
    BY <1>2 DEF Births, HasKey
  <2>2. Rows'
    BY <1>2 DEF Rows, HasKey, InFlight, Executing
  <2>3. Shared' /\ Reexecution'
    BY <1>2 DEF Shared, Reexecution, SameKey, HasKey, KeyFailed, ExpiredBefore
  <2>4. Stored'
    BY <1>2 DEF Stored
  <2>5. QED
    BY <2>1, <2>2, <2>3, <2>4
<1>3. QED
  BY <1>1, <1>2 DEF Run

\* The end of a dispatch: at most the row of its own request changes, from
\* PROCESSING to a status that agrees with the answer.
LEMMA FinishStep ==
  ASSUME TypeOK, IInv, NEW r \in Requests, Finish(r)
  PROVE  IInv'
<1> USE DEF TypeOK, IInv
<1>1. pc[r] = "ended" /\ UNCHANGED <<req, out, done, table, born, clock, horizon, horizonAt>>
  BY DEF Finish, AnswerBypass, Save, CleanUp, CommitRefused
<1>2. PICK k \in {"bypass", "miss", "error"}, c \in Codes, b \in Requests \cup {NoBody} : Reply(r, k, c, b)
  BY DEF Finish, AnswerBypass, Save, CleanUp, CommitRefused, Codes, Outcomes
<1>3. HasKey(r) => r \in table /\ row[r].status = "PROCESSING"
  BY <1>1 DEF Rows, InFlight, Executing
<1>4. /\ \A q \in Requests \ {r} : row'[q] = row[q]
      /\ row'[r].key = row[r].key /\ row'[r].hash = row[r].hash
      /\ row'[r].status # row[r].status => HasKey(r)
  <2>1. CASE AnswerBypass(r) \/ CommitRefused(r)
    BY <2>1 DEF AnswerBypass, CommitRefused
  <2>2. CASE Save(r)
    <3>1. Saved(r, out[r]).key = row[r].key /\ Saved(r, out[r]).hash = row[r].hash
      BY DEF Saved
    <3>2. QED
      BY <2>2, <3>1 DEF Save
  <2>3. CASE CleanUp(r)
    BY <2>3 DEF CleanUp
  <2>4. QED
    BY <2>1, <2>2, <2>3 DEF Finish
<1>5. \A q \in Requests : row[q].status = "FAILED" => row'[q].status = "FAILED"
  <2>1. row[r].status = "FAILED" => row'[r].status = "FAILED"
    BY <1>3, <1>4
  <2>2. QED
    BY <2>1, <1>4
<1>6. Births'
  BY <1>1, <1>2 DEF Births, HasKey, Reply, Answer
<1>7. Rows'
  <2>1. \A q \in Requests : born[q] = 0 => row'[q].status = "PROCESSING"
    BY <1>1, <1>3, <1>4 DEF Rows
  <2>2. QED
    BY <1>1, <1>2, <1>4, <2>1 DEF Rows, HasKey, InFlight, Executing, Reply
<1>8. Shared'
  BY <1>1, <1>5, FailureStays DEF Shared, SameKey, HasKey
<1>9. Reexecution'
  BY <1>1, <1>5, FailureStays DEF Reexecution, SameKey, HasKey, ExpiredBefore
<1>10. Stored'
  <2>1. ASSUME row'[r].status = "COMPLETED"
        PROVE  /\ row'[r].body = r /\ row'[r].code # "5xx"
               /\ reply'[r] = Answer("miss", row'[r].code, r)
               /\ row'[r].code = "2xx" <=> r \in done
    <3>1. row[r].status # "COMPLETED"
      BY <1>1 DEF Stored
    <3>2. Save(r) /\ row' = [row EXCEPT ![r] = Saved(r, out[r])]
      BY <2>1, <3>1, <1>3 DEF Finish, AnswerBypass, Save, CleanUp, CommitRefused
    <3>3. out[r] \notin Failures
      BY <2>1, <3>1, <3>2 DEF Saved
    <3>4. row'[r].code = out[r] /\ row'[r].body = r
      BY <3>2, <3>3 DEF Saved
    <3>5. out[r] \in {"2xx", "4xx"}
      BY <3>3 DEF Outcomes, Codes, Failures
    <3>6. QED
      BY <1>1, <3>2, <3>4, <3>5 DEF Stored, Save, Reply
  <2>2. QED
    BY <1>1, <1>2, <1>4, <2>1 DEF Stored, Reply
<1>11. QED
  BY <1>6, <1>7, <1>8, <1>9, <1>10

\* The steps of the environment.
LEMMA EnvironmentStep ==
  ASSUME TypeOK, IInv, TimePasses \/ Crash \/ \E r \in Requests : Retry(r)
  PROVE  IInv'
<1> USE DEF TypeOK, IInv
<1>1. CASE TimePasses
  <2> USE DEF TimePasses
  <2>1. Births'
    BY <1>1 DEF Births, HasKey
  <2>2. Rows'
    BY <1>1 DEF Rows, HasKey, InFlight, Executing
  <2>3. Shared' /\ Reexecution' /\ Stored'
    BY <1>1 DEF Shared, Reexecution, Stored, SameKey, HasKey, KeyFailed, ExpiredBefore
  <2>4. QED
    BY <2>1, <2>2, <2>3
<1>2. CASE Crash
  <2> USE DEF Crash
  <2>1. Births'
    BY <1>2 DEF Births, HasKey, Executing
  <2>2. Rows'
    BY <1>2 DEF Rows, HasKey, InFlight, Executing
  <2>3. Shared' /\ Reexecution'
    BY <1>2 DEF Shared, Reexecution, SameKey, HasKey, KeyFailed, ExpiredBefore
  <2>4. Stored'
    BY <1>2 DEF Stored, Executing
  <2>5. QED
    BY <2>1, <2>2, <2>3, <2>4
<1>3. ASSUME NEW r \in Requests, Retry(r) PROVE IInv'
  <2> USE <1>3 DEF Retry
  <2>1. Births'
    BY DEF Births, HasKey, NoAnswer, Answer
  <2>2. Rows'
    BY DEF Rows, HasKey, InFlight, Executing
  <2>3. Shared' /\ Reexecution'
    BY DEF Shared, Reexecution, SameKey, HasKey, KeyFailed, ExpiredBefore
  <2>4. Stored'
    BY DEF Stored, Births, Rows, Answer
  <2>5. QED
    BY <2>1, <2>2, <2>3, <2>4
<1>4. QED
  BY <1>1, <1>2, <1>3

\* The inductive invariant holds in every reachable state.
THEOREM Inductive == Spec => [](TypeOK /\ IInv)
<1>1. Init => IInv
  <2> SUFFICES ASSUME Init PROVE IInv
    OBVIOUS
  <2>1. Births /\ Rows
    BY DEF Init, Births, Rows, Row, NoAnswer, Answer, InFlight, Executing
  <2>2. Shared /\ Reexecution /\ Stored
    BY DEF Init, Shared, Reexecution, Stored, Row
  <2>3. QED
    BY <2>1, <2>2 DEF IInv
<1>2. TypeOK /\ IInv /\ [Next]_vars => IInv'
  <2> SUFFICES ASSUME TypeOK, IInv, [Next]_vars PROVE IInv'
    OBVIOUS
  <2>1. CASE UNCHANGED vars
    BY <2>1 DEF vars, IInv, Births, Rows, Shared, Reexecution, Stored, SameKey, HasKey, KeyFailed,
                ExpiredBefore, InFlight, Executing
  <2>2. QED
    BY <2>1, DispatchStep, RunStep, FinishStep, EnvironmentStep DEF Next
<1>3. QED
  BY <1>1, <1>2, TypeCorrect, PTL DEF Spec

\* The answer of an execution, and whether it took effect, do not change.
LEMMA MissStays ==
  ASSUME TypeOK, IInv, [Next]_vars, NEW q \in Requests, reply[q].kind = "miss"
  PROVE  reply'[q] = reply[q] /\ (q \in done' <=> q \in done)
<1>1. pc[q] = "answered"
  BY DEF IInv, Births
<1>2. ASSUME NEW r \in Requests, Dispatch(r)
      PROVE  reply'[q] = reply[q] /\ (q \in done' <=> q \in done)
  BY <1>1, <1>2 DEF Dispatch, Bypass, RejectLongKey, RejectMismatch, Replay, RejectConflict, MissFresh,
       MissExpired, MissFailed, LookupRefused, Insert, Reply, TypeOK
<1>3. ASSUME NEW r \in Requests, Run(r) \/ Finish(r) \/ Retry(r)
      PROVE  reply'[q] = reply[q] /\ (q \in done' <=> q \in done)
  BY <1>1, <1>3 DEF Run, Finish, CommitEffect, HandlerEnds, AnswerBypass, Save, CleanUp, CommitRefused,
       Retry, Reply, TypeOK
<1>4. QED
  BY <1>2, <1>3 DEF Next, TimePasses, Crash, vars

\* Only a replay makes a HIT.
LEMMA HitIsReplay ==
  ASSUME TypeOK, IInv, [Next]_vars, NEW r \in Requests, reply'[r].kind = "hit", reply'[r] # reply[r]
  PROVE  Replay(r)
<1>1. ASSUME NEW x \in Requests, Dispatch(x) PROVE Replay(r)
  <2>1. CASE Replay(x)
    BY <2>1 DEF Replay, Reply, TypeOK
  <2>2. CASE ~Replay(x)
    BY <1>1, <2>2 DEF Dispatch, Bypass, RejectLongKey, RejectMismatch, RejectConflict, MissFresh,
         MissExpired, MissFailed, LookupRefused, Insert, Reply, Answer, TypeOK
  <2>3. QED
    BY <2>1, <2>2
<1>2. ASSUME NEW x \in Requests, Run(x) \/ Finish(x) \/ Retry(x) PROVE Replay(r)
  BY <1>2 DEF Run, Finish, CommitEffect, HandlerEnds, AnswerBypass, Save, CleanUp, CommitRefused,
       Retry, Reply, Answer, NoAnswer, TypeOK
<1>3. QED
  BY <1>1, <1>2 DEF Next, TimePasses, Crash, vars

\* A step keeps replays faithful.
LEMMA ReplayStep ==
  ASSUME TypeOK, IInv, ReplayFaithful, [Next]_vars
  PROVE  ReplayFaithful'
<1> SUFFICES ASSUME NEW r \in Requests, reply'[r].kind = "hit"
             PROVE  \E q \in Requests :
                      /\ req'[q] = req'[r]
                      /\ reply'[r].body = q
                      /\ reply'[q] = Answer("miss", reply'[r].code, q)
                      /\ reply'[r].code # "5xx"
                      /\ reply'[r].code = "2xx" <=> q \in done'
  BY DEF ReplayFaithful
<1>1. UNCHANGED req
  BY DEF Next, Dispatch, Bypass, RejectLongKey, RejectMismatch, Replay, RejectConflict, MissFresh,
     MissExpired, MissFailed, LookupRefused, Insert, Run, Finish, CommitEffect, HandlerEnds, AnswerBypass,
     Save, CleanUp, CommitRefused, Retry, TimePasses, Crash, vars
<1>2. CASE reply'[r] = reply[r]
  BY <1>1, <1>2, MissStays DEF ReplayFaithful, Answer
<1>3. CASE reply'[r] # reply[r]
  <2>1. Replay(r)
    BY <1>3, HitIsReplay
  <2>2. PICK q \in Matches(r) : Replayable(q, r) /\ Reply(r, "hit", row[q].code, row[q].body)
    BY <2>1 DEF Replay
  <2>3. q \in Requests /\ row[q].status = "COMPLETED" /\ req[q].key = req[r].key /\ req[q].hash = req[r].hash
    BY <2>2 DEF Matches, Replayable, IInv, Rows, TypeOK
  <2>4. req[q] = req[r]
    BY <2>3 DEF TypeOK
  <2>5. reply'[r] = Answer("hit", row[q].code, row[q].body)
    BY <2>2 DEF Reply, TypeOK
  <2>6. /\ row[q].body = q /\ row[q].code # "5xx"
        /\ reply[q] = Answer("miss", row[q].code, q)
        /\ row[q].code = "2xx" <=> q \in done
    BY <2>3 DEF IInv, Stored
  <2>7. reply'[q] = reply[q] /\ (q \in done' <=> q \in done)
    BY <2>3, <2>6, MissStays DEF Answer
  <2>8. QED
    BY <1>1, <2>3, <2>4, <2>5, <2>6, <2>7 DEF Answer
<1>4. QED
  BY <1>2, <1>3

\* A replayed answer is the one its execution got, and tells its effect.
THEOREM ReplayIsFaithful == Spec => []ReplayFaithful
<1>1. Init => ReplayFaithful
  BY DEF Init, ReplayFaithful, NoAnswer, Answer
<1>2. TypeOK /\ IInv /\ ReplayFaithful /\ [Next]_vars => ReplayFaithful'
  BY ReplayStep
<1>3. QED
  BY <1>1, <1>2, Inductive, PTL DEF Spec

\* An execution under a key that never failed is not repeated within 24 hours.
THEOREM EffectAtMostOnce == Spec => []AtMostOnce
<1>1. TypeOK /\ IInv => AtMostOnce
  BY DEF IInv, Births, Reexecution, AtMostOnce, TypeOK, SameKey, HasKey
<1>2. QED
  BY <1>1, Inductive, PTL

\* Two handlers run under one key only after a failure.
THEOREM AtMostOneInFlight == Spec => []OneInFlight
<1>1. TypeOK /\ IInv => OneInFlight
  BY DEF IInv, Rows, Shared, OneInFlight, TypeOK
<1>2. QED
  BY <1>1, Inductive, PTL

\* A step changes a row only by closing it, for the request it belongs to.
LEMMA RowStepHolds ==
  ASSUME TypeOK, IInv, [Next]_vars
  PROVE  RowStep
<1>1. ASSUME NEW r \in Requests, Dispatch(r) PROVE RowStep
  <2>1. pc[r] = "new"
    BY <1>1 DEF Dispatch, Bypass, RejectLongKey, RejectMismatch, Replay, RejectConflict, MissFresh,
         MissExpired, MissFailed, LookupRefused
  <2>2. r \notin table
    BY <2>1 DEF IInv, Births, Rows
  <2>3. \A q \in table : row'[q] = row[q] /\ (q \in table' \/ Expired(q))
    BY <1>1, <2>2 DEF Dispatch, Bypass, RejectLongKey, RejectMismatch, Replay, RejectConflict, MissFresh,
         MissExpired, MissFailed, LookupRefused, Insert, TypeOK
  <2>4. QED
    BY <2>3 DEF RowStep
<1>2. ASSUME NEW r \in Requests, Finish(r) PROVE RowStep
  <2>1. pc[r] = "ended" /\ pc'[r] = "answered" /\ table' = table
    BY <1>2 DEF Finish, AnswerBypass, Save, CleanUp, CommitRefused, Reply, TypeOK
  <2>2. \A q \in Requests \ {r} : row'[q] = row[q]
    BY <1>2 DEF Finish, AnswerBypass, Save, CleanUp, CommitRefused, TypeOK
  <2>3. row'[r] # row[r] => HasKey(r)
    BY <1>2 DEF Finish, AnswerBypass, Save, CleanUp, CommitRefused
  <2>4. row'[r] # row[r] => row[r].status = "PROCESSING" /\ Executing(r)
    BY <2>1, <2>3 DEF IInv, Rows, InFlight, Executing
  <2>5. QED
    BY <2>1, <2>2, <2>4 DEF RowStep, TypeOK
<1>3. CASE UNCHANGED <<table, row>>
  BY <1>3 DEF RowStep
<1>4. QED
  BY <1>1, <1>2, <1>3 DEF Next, Run, CommitEffect, HandlerEnds, Retry, TimePasses, Crash, vars

\* Rows are closed once, by their own request, and go only when they expire.
THEOREM RowsAreClosedOnce == Spec => RowLifecycle
<1>1. TypeOK /\ IInv /\ [Next]_vars => [RowStep]_vars
  BY RowStepHolds
<1>2. QED
  BY <1>1, Inductive, PTL DEF Spec, RowLifecycle

----------------------------------------------------------------------------
(* Who is at work on a row. *)

\* A row that says PROCESSING has a handler, or its process died under it, or
\* its commit was refused.
Attended(q) ==
  q \in table /\ row[q].status = "PROCESSING" => InFlight(q) \/ pc[q] = "dead" \/ reply[q].kind = "error"
AllAttended == \A q \in Requests : Attended(q)

\* A step of another request leaves the row, and who works on it, alone.
LEMMA OthersAttended ==
  ASSUME AllAttended, NEW r \in Requests, UNCHANGED req,
         table' \subseteq table \cup {r},
         \A q \in Requests \ {r} : pc'[q] = pc[q] /\ reply'[q] = reply[q] /\ row'[q] = row[q],
         Attended(r)'
  PROVE  AllAttended'
<1> SUFFICES ASSUME NEW q \in Requests PROVE Attended(q)'
  BY DEF AllAttended
<1>1. CASE q = r
  BY <1>1
<1>2. CASE q # r
  <2>1. pc'[q] = pc[q] /\ reply'[q] = reply[q] /\ row'[q] = row[q] /\ (q \in table' => q \in table)
    BY <1>2, Zenon
  <2>2. Attended(q)
    BY DEF AllAttended
  <2> QED
    BY <2>1, <2>2 DEF Attended, InFlight, Executing, HasKey
<1> QED
  BY <1>1, <1>2

\* Before its first await a request has no row, and inserts one that its handler attends.
LEMMA DispatchAttended ==
  ASSUME TypeOK, IInv, AllAttended, NEW r \in Requests, Dispatch(r)
  PROVE  AllAttended'
<1>1. pc[r] = "new"
  BY DEF Dispatch, Bypass, RejectLongKey, RejectMismatch, Replay, RejectConflict, MissFresh,
     MissExpired, MissFailed, LookupRefused
<1>2. r \notin table
  BY <1>1 DEF IInv, Births, Rows
<1>3. ASSUME NEW rest \in SUBSET table, HasKey(r), Insert(r, rest) PROVE AllAttended'
  <2>1. /\ table' \subseteq table \cup {r}
        /\ \A q \in Requests \ {r} : pc'[q] = pc[q] /\ reply'[q] = reply[q] /\ row'[q] = row[q]
    BY <1>3 DEF Insert, TypeOK
  <2>2. InFlight(r)' /\ UNCHANGED req
    BY <1>3 DEF Insert, InFlight, Executing, HasKey, TypeOK
  <2> QED
    BY <2>1, <2>2, OthersAttended DEF Attended
<1>4. ASSUME table' \subseteq table, UNCHANGED <<req, row>>,
             \A q \in Requests \ {r} : pc'[q] = pc[q] /\ reply'[q] = reply[q]
      PROVE  AllAttended'
  BY <1>2, <1>4, OthersAttended DEF Attended
<1>5. CASE MissFresh(r) \/ MissExpired(r) \/ MissFailed(r)
  BY <1>3, <1>5 DEF MissFresh, MissExpired, MissFailed
<1>6. CASE Bypass(r) \/ RejectLongKey(r) \/ RejectMismatch(r) \/ Replay(r) \/ RejectConflict(r) \/ LookupRefused(r)
  <2>1. table' \subseteq table /\ UNCHANGED <<req, row>>
    BY <1>6 DEF Bypass, RejectLongKey, RejectMismatch, Replay, RejectConflict, LookupRefused
  <2>2. \A q \in Requests \ {r} : pc'[q] = pc[q] /\ reply'[q] = reply[q]
    BY <1>6 DEF Bypass, RejectLongKey, RejectMismatch, Replay, RejectConflict, LookupRefused, Reply, TypeOK
  <2> QED
    BY <1>4, <2>1, <2>2
<1> QED
  BY <1>5, <1>6 DEF Dispatch

\* A handler attends its row to its end, and the end closes the row or is an error.
LEMMA HandlerAttended ==
  ASSUME TypeOK, IInv, AllAttended, NEW r \in Requests, Run(r) \/ Finish(r) \/ Retry(r)
  PROVE  AllAttended'
<1>1. UNCHANGED <<req, table>>
  BY DEF Run, Finish, Retry, CommitEffect, HandlerEnds, AnswerBypass, Save, CleanUp, CommitRefused
<1>2. \A q \in Requests \ {r} : pc'[q] = pc[q] /\ reply'[q] = reply[q] /\ row'[q] = row[q]
  BY DEF Run, Finish, Retry, CommitEffect, HandlerEnds, AnswerBypass, Save, CleanUp, CommitRefused, Reply, TypeOK
<1>3. ASSUME ~HasKey(r) \/ reply[r].kind = "conflict" PROVE r \notin table
  BY <1>3 DEF IInv, Births, Rows
<1>4. CASE CommitEffect(r)
  BY <1>1, <1>2, <1>4, OthersAttended DEF CommitEffect, AllAttended, Attended, InFlight, Executing, HasKey
<1>5. CASE HandlerEnds(r)
  <2>1. pc'[r] = "ended" /\ pc[r] = "executing" /\ row' = row
    BY <1>5 DEF HandlerEnds, TypeOK
  <2>2. Attended(r)'
    BY <1>1, <1>3, <2>1 DEF Attended, InFlight, Executing, HasKey
  <2> QED
    BY <1>1, <1>2, <2>2, OthersAttended
<1>6. CASE AnswerBypass(r) \/ Retry(r)
  <2>1. r \notin table
    BY <1>3, <1>6, SpecialKeys DEF AnswerBypass, Retry, HasKey
  <2> QED
    BY <1>1, <1>2, <2>1, OthersAttended DEF Attended
<1>7. CASE Save(r)
  <2>1. Saved(r, out[r]).status # "PROCESSING"
    BY DEF Saved, TypeOK
  <2>2. r \in table => row'[r].status # "PROCESSING"
    BY <1>7, <2>1 DEF Save, TypeOK
  <2> QED
    BY <1>1, <1>2, <2>2, OthersAttended DEF Attended
<1>8. CASE CleanUp(r) \/ CommitRefused(r)
  <2>1. reply'[r].kind = "error"
    BY <1>8 DEF CleanUp, CommitRefused, Reply, Answer, TypeOK
  <2> QED
    BY <1>1, <1>2, <2>1, OthersAttended DEF Attended
<1> QED
  BY <1>4, <1>5, <1>6, <1>7, <1>8 DEF Run, Finish

\* The rows that answer 409 with nobody at work are those of dead processes and
\* refused commits, and a running handler finds its row (l.142-153, l.184, l.207).
THEOREM ProcessingIsAccounted == Spec => []ProcessingAccounted
<1>1. Init => AllAttended
  BY DEF Init, AllAttended, Attended
<1>2. TypeOK /\ IInv /\ AllAttended /\ [Next]_vars => AllAttended'
  <2> SUFFICES ASSUME TypeOK, IInv, AllAttended, [Next]_vars PROVE AllAttended'
    OBVIOUS
  <2>1. CASE TimePasses \/ UNCHANGED vars
    BY <2>1 DEF TimePasses, vars, AllAttended, Attended, InFlight, Executing, HasKey
  <2>2. CASE Crash
    BY <2>2 DEF Crash, TypeOK, AllAttended, Attended, InFlight, Executing, HasKey
  <2> QED
    BY <2>1, <2>2, DispatchAttended, HandlerAttended DEF Next
<1>3. TypeOK /\ IInv /\ AllAttended => ProcessingAccounted
  BY DEF TypeOK, IInv, Rows, AllAttended, Attended, ProcessingAccounted
<1> QED
  BY <1>1, <1>2, <1>3, Inductive, PTL DEF Spec

============================================================================
