--------------------------- MODULE ConsoleProofs ---------------------------
(***************************************************************************)
(* Proofs about Webhooks, whose delivery log is truthful and whose         *)
(* dispatch of events implements Notify, and about Console, whose modal    *)
(* uses the webhooks only as their specification allows, so that what is   *)
(* proved of them holds under the modal too.                               *)
(***************************************************************************)
EXTENDS Console, FiniteSetTheorems, TLAPS

USE WebhookConstants, ConsoleConstants

-----------------------------------------------------------------------------
(* Webhooks: the inductive invariant. *)

\* A hook that is to be called, is being called or has been recorded did exist: an id is not
\* given twice, so none of them comes into being later.
Known ==
  /\ \A e \in Events : \A h \in Hooks :
       h \in job[e].todo \/ h = job[e].at => hook[h].there # "never"
  /\ \A r \in recorded : hook[r.hook].there # "never"

\* What is left to do has not been called; what is being called or recorded has, once.
Once ==
  /\ \A e \in Events : \A h \in Hooks :
       /\ called[e][h] \in {0, 1}
       /\ h \in job[e].todo => called[e][h] = 0 /\ job[e].pc \in {"next", "calling", "dead"}
       /\ h = job[e].at => called[e][h] = 1
       /\ job[e].pc = "idle" => called[e][h] = 0
  /\ \A r \in recorded : called[r.of][r.hook] = 1

\* A deletion under way has loaded the rows of its hook that were there when it began, and
\* no row of another hook; no ping is logged after its hook is gone.
Loaded ==
  /\ \A p \in Requests : doomed[p] # NoHook => hook[doomed[p]].there # "never"
  /\ \A r \in rows : r.of = Ping => r.written # "after"
  /\ \A r \in rows : \A p \in Requests :
       /\ p \in r.loaded => doomed[p] = r.hook
       /\ r.written = "life" /\ doomed[p] = r.hook => p \in r.loaded

HInv == HTypeOK /\ Known /\ Once /\ Loaded /\ LogTruthful

LEMMA InitHolds == HInit => HInv
<1> SUFFICES ASSUME HInit PROVE HInv
  OBVIOUS
<1>1. HTypeOK
  BY DEF HInit, HTypeOK, Hook, Unused, Job
<1>2. Known
  BY DEF HInit, Known
<1>3. Once
  BY DEF HInit, Once
<1>4. LogTruthful
  BY DEF HInit, LogTruthful, NoOrphans, NothingForgotten
<1>5. Loaded
  BY DEF HInit, Loaded
<1> QED
  BY <1>1, <1>2, <1>3, <1>4, <1>5 DEF HInv

\* Every disjunct of the next-state relation, for the case distinctions below.
LEMMA Steps ==
  ASSUME [HNext]_hvars
  PROVE  \/ \E h \in Hooks, w \in SUBSET Events : CreateHook(h, w)
         \/ \E h \in Hooks : UpdateHook(h)
         \/ \E p \in Requests, h \in Hooks : StartDelete(p, h)
         \/ \E p \in Requests : DeleteHook(p) \/ DeleteFails(p)
         \/ \E e \in Events : Publish(e) \/ Record(e) \/ Finish(e)
         \/ \E e \in Events, h \in Hooks : Call(e, h)
         \/ Crash
         \/ \E p \in Requests, h \in Hooks : StartPing(p, h)
         \/ \E p \in Requests : PingRecorded(p) \/ PingFails(p)
         \/ UNCHANGED hvars
  BY DEF HNext, Dispatch, Dispatching, Manage, Test

\* What a step does to the rows: each of them is one that was there, but for what has loaded
\* it, or the delivery of the call that ends.
LEMMA DeliveryIs ==
  ASSUME NEW of \in Events \cup {Ping}, NEW h \in Hooks
  PROVE  /\ Delivery(of, h) \in Row
         /\ Delivery(of, h).of = of /\ Delivery(of, h).hook = h /\ Delivery(of, h).loaded = {}
         /\ Delivery(of, h).written \in {"life", "deletion", "after"}
         /\ Delivery(of, h).written = "after" <=> ~There(h)
         /\ Delivery(of, h).written = "life" => \A p \in Requests : doomed[p] # h
  BY DEF Delivery, Row

\* Rows that a deletion has given up, or that a crash has made it give up.
LEMMA UnloadedIs ==
  ASSUME NEW R, R \subseteq Row, NEW P, P \subseteq Requests
  PROVE  /\ Unloaded(R, P) \subseteq Row
         /\ \A x \in Unloaded(R, P) : \E r \in R :
              x.of = r.of /\ x.hook = r.hook /\ x.written = r.written /\ x.loaded = r.loaded \ P
         /\ \A r \in R : \E x \in Unloaded(R, P) : x.of = r.of /\ x.hook = r.hook
<1> DEFINE now(r) == [r EXCEPT !.loaded = @ \ P]
<1>1. Unloaded(R, P) = {now(r) : r \in R}
  BY DEF Unloaded
<1>2. ASSUME NEW r \in R
      PROVE  /\ now(r) \in Row /\ now(r).of = r.of /\ now(r).hook = r.hook
             /\ now(r).written = r.written /\ now(r).loaded = r.loaded \ P
  BY DEF Row
<1> HIDE DEF now
<1> QED
  BY <1>1, <1>2

\* Rows of its hook that a deletion has loaded.
LEMMA StartDeleteRows ==
  ASSUME rows \subseteq Row, NEW p \in Requests, NEW h \in Hooks, StartDelete(p, h)
  PROVE  /\ rows' \subseteq Row
         /\ \A x \in rows' : \E r \in rows :
              /\ x.of = r.of /\ x.hook = r.hook /\ x.written = r.written
              /\ x.loaded = IF r.hook = h THEN r.loaded \cup {p} ELSE r.loaded
         /\ \A r \in rows : \E x \in rows' : x.of = r.of /\ x.hook = r.hook
<1> DEFINE now(r) == IF r.hook = h THEN [r EXCEPT !.loaded = @ \cup {p}] ELSE r
<1>1. rows' = {now(r) : r \in rows}
  BY DEF StartDelete
<1>2. ASSUME NEW r \in rows
      PROVE  /\ now(r) \in Row
             /\ now(r).of = r.of /\ now(r).hook = r.hook /\ now(r).written = r.written
             /\ now(r).loaded = IF r.hook = h THEN r.loaded \cup {p} ELSE r.loaded
  BY DEF Row
<1> HIDE DEF now
<1>3. ASSUME NEW x \in rows'
      PROVE  \E r \in rows : /\ x.of = r.of /\ x.hook = r.hook /\ x.written = r.written
                             /\ x.loaded = IF r.hook = h THEN r.loaded \cup {p} ELSE r.loaded
  <2>1. PICK r \in rows : x = now(r)
    BY <1>1
  <2> QED
    BY <1>2, <2>1
<1>4. ASSUME NEW r \in rows PROVE \E x \in rows' : x.of = r.of /\ x.hook = r.hook
  <2>1. now(r) \in rows'
    BY <1>1
  <2> QED
    BY <1>2, <2>1
<1> QED
  BY <1>1, <1>2, <1>3, <1>4

LEMMA TypeStep == HTypeOK /\ [HNext]_hvars => HTypeOK'
<1> SUFFICES ASSUME HTypeOK, [HNext]_hvars PROVE HTypeOK'
  OBVIOUS
<1> USE DEF HTypeOK, Hook, Job, Row, There
<1>1. ASSUME NEW h \in Hooks, NEW w \in SUBSET Events, CreateHook(h, w) PROVE HTypeOK'
  BY <1>1 DEF CreateHook
<1>2. ASSUME NEW h \in Hooks, UpdateHook(h) PROVE HTypeOK'
  BY <1>2 DEF UpdateHook
<1>3. ASSUME NEW p \in Requests, NEW h \in Hooks, StartDelete(p, h) PROVE HTypeOK'
  <2>1. rows' \subseteq Row
    BY <1>3, StartDeleteRows
  <2> QED
    BY <1>3, <2>1 DEF StartDelete
<1>4. ASSUME NEW p \in Requests, DeleteHook(p) PROVE HTypeOK'
  BY <1>4 DEF DeleteHook
<1>5. ASSUME NEW p \in Requests, DeleteFails(p) PROVE HTypeOK'
  <2>1. rows' \subseteq Row
    <3>1. rows \subseteq Row /\ rows' = Unloaded(rows, {p}) /\ {p} \subseteq Requests
      BY <1>5 DEF DeleteFails
    <3> QED
      BY <3>1, UnloadedIs
  <2> QED
    BY <1>5, <2>1 DEF DeleteFails
<1>6. ASSUME NEW e \in Events, Publish(e) PROVE HTypeOK'
  BY <1>6 DEF Publish, Subscribers
<1>7. ASSUME NEW e \in Events, NEW h \in Hooks, Call(e, h) PROVE HTypeOK'
  BY <1>7 DEF Call
<1>8. ASSUME NEW e \in Events, Record(e) PROVE HTypeOK'
  <2>1. job[e].at \in Hooks
    BY <1>8 DEF Record
  <2>2. rows' \subseteq Row
    BY <1>8, <2>1, DeliveryIs DEF Record
  <2> QED
    BY <1>8, <2>1, <2>2 DEF Record
<1>9. ASSUME NEW e \in Events, Finish(e) PROVE HTypeOK'
  BY <1>9 DEF Finish
<1>10. ASSUME Crash PROVE HTypeOK'
  <2>1. rows' \subseteq Row
    <3>1. rows \subseteq Row /\ rows' = Unloaded(rows, Requests)
      BY <1>10 DEF Crash
    <3> QED
      BY <3>1, UnloadedIs
  <2> QED
    BY <1>10, <2>1 DEF Crash
<1>11. ASSUME NEW p \in Requests, NEW h \in Hooks, StartPing(p, h) PROVE HTypeOK'
  BY <1>11 DEF StartPing
<1>12. ASSUME NEW p \in Requests, PingRecorded(p) PROVE HTypeOK'
  <2>1. ping[p] \in Hooks
    BY <1>12 DEF PingRecorded
  <2>2. rows' \subseteq Row
    BY <1>12, <2>1, DeliveryIs DEF PingRecorded
  <2> QED
    BY <1>12, <2>2 DEF PingRecorded
<1>13. ASSUME NEW p \in Requests, PingFails(p) PROVE HTypeOK'
  BY <1>13 DEF PingFails
<1>14. CASE UNCHANGED hvars
  BY <1>14 DEF hvars
<1> QED
  BY <1>1, <1>2, <1>3, <1>4, <1>5, <1>6, <1>7, <1>8, <1>9, <1>10, <1>11, <1>12, <1>13, <1>14, Steps

LEMMA KnownStep == HTypeOK /\ Known /\ [HNext]_hvars => Known'
<1> SUFFICES ASSUME HTypeOK, Known, [HNext]_hvars PROVE Known'
  OBVIOUS
<1> USE DEF HTypeOK, Hook, Job, Known, There
<1>1. ASSUME NEW h \in Hooks, NEW w \in SUBSET Events, CreateHook(h, w) PROVE Known'
  BY <1>1 DEF CreateHook
<1>2. ASSUME NEW h \in Hooks, UpdateHook(h) PROVE Known'
  BY <1>2 DEF UpdateHook
<1>3. ASSUME NEW p \in Requests, DeleteHook(p) PROVE Known'
  BY <1>3 DEF DeleteHook
<1>4. ASSUME NEW e \in Events, Publish(e) PROVE Known'
  BY <1>4 DEF Publish, Subscribers
<1>5. ASSUME NEW e \in Events, NEW h \in Hooks, Call(e, h) PROVE Known'
  BY <1>5 DEF Call
<1>6. ASSUME NEW e \in Events, Record(e) PROVE Known'
  BY <1>6 DEF Record
<1>7. ASSUME NEW e \in Events, Finish(e) PROVE Known'
  BY <1>7 DEF Finish
<1>8. ASSUME Crash PROVE Known'
  BY <1>8 DEF Crash
<1>9. CASE UNCHANGED <<hook, job, recorded>>
  BY <1>9
<1> QED
  BY <1>1, <1>2, <1>3, <1>4, <1>5, <1>6, <1>7, <1>8, <1>9, Steps
  DEF StartDelete, DeleteFails, StartPing, PingRecorded, PingFails, hvars

LEMMA OnceStep == HTypeOK /\ Once /\ [HNext]_hvars => Once'
<1> SUFFICES ASSUME HTypeOK, Once, [HNext]_hvars PROVE Once'
  OBVIOUS
<1> USE DEF HTypeOK, Job, Once
<1>1. ASSUME NEW e \in Events, Publish(e) PROVE Once'
  BY <1>1 DEF Publish
<1>2. ASSUME NEW e \in Events, NEW h \in Hooks, Call(e, h) PROVE Once'
  BY <1>2 DEF Call
<1>3. ASSUME NEW e \in Events, Record(e) PROVE Once'
  BY <1>3 DEF Record
<1>4. ASSUME NEW e \in Events, Finish(e) PROVE Once'
  BY <1>4 DEF Finish
<1>5. ASSUME Crash PROVE Once'
  <2>1. ASSUME NEW e \in Events
        PROVE  /\ job'[e].todo = job[e].todo
               /\ job'[e].pc \in {job[e].pc, "dead"}
               /\ job'[e].at \in {job[e].at, NoHook}
               /\ job'[e].pc = "idle" => job[e].pc = "idle"
    BY <1>5 DEF Crash
  <2>2. called' = called /\ recorded' = recorded
    BY <1>5 DEF Crash
  <2> QED
    BY <2>1, <2>2
<1>6. CASE UNCHANGED <<job, called, recorded>>
  BY <1>6
<1> QED
  BY <1>1, <1>2, <1>3, <1>4, <1>5, <1>6, Steps
  DEF CreateHook, UpdateHook, StartDelete, DeleteHook, DeleteFails,
      StartPing, PingRecorded, PingFails, hvars

LEMMA LoadedStep == HTypeOK /\ Loaded /\ [HNext]_hvars => Loaded'
<1> SUFFICES ASSUME HTypeOK, Loaded, [HNext]_hvars PROVE Loaded'
  OBVIOUS
<1>3. ASSUME NEW p \in Requests, NEW h \in Hooks, StartDelete(p, h) PROVE Loaded'
  <2>1. /\ doomed' = [doomed EXCEPT ![p] = h] /\ doomed[p] = NoHook /\ hook' = hook
        /\ hook[h].there = "there" /\ rows \subseteq Row
    BY <1>3 DEF StartDelete, Idle, There, HTypeOK
  <2>2. \A x \in rows' : \E r \in rows :
          /\ x.of = r.of /\ x.hook = r.hook /\ x.written = r.written
          /\ x.loaded = IF r.hook = h THEN r.loaded \cup {p} ELSE r.loaded
    BY <1>3, <2>1, StartDeleteRows
  <2>3. ASSUME NEW x \in rows', NEW q \in Requests
        PROVE  /\ x.of = Ping => x.written # "after"
               /\ q \in x.loaded => doomed'[q] = x.hook
               /\ x.written = "life" /\ doomed'[q] = x.hook => q \in x.loaded
    <3>1. PICK r \in rows : /\ x.of = r.of /\ x.hook = r.hook /\ x.written = r.written
                            /\ x.loaded = IF r.hook = h THEN r.loaded \cup {p} ELSE r.loaded
      BY <2>2
    <3>2. r.hook \in Hooks
      BY <2>1 DEF Row
    <3> QED
      BY <2>1, <3>1, <3>2 DEF Loaded, HTypeOK
  <2> QED
    BY <2>1, <2>3 DEF Loaded, HTypeOK
<1>5. ASSUME NEW P, P \subseteq Requests, rows' = Unloaded(rows, P), hook' = hook,
             doomed' = [q \in Requests |-> IF q \in P THEN NoHook ELSE doomed[q]]
      PROVE  Loaded'
  <2>1. rows \subseteq Row
    BY DEF HTypeOK
  <2>2. \A x \in rows' : \E r \in rows :
          x.of = r.of /\ x.hook = r.hook /\ x.written = r.written /\ x.loaded = r.loaded \ P
    BY <1>5, <2>1, UnloadedIs
  <2>3. ASSUME NEW x \in rows', NEW q \in Requests
        PROVE  /\ q \in x.loaded => doomed'[q] = x.hook
               /\ x.written = "life" /\ doomed'[q] = x.hook => q \in x.loaded
    <3>1. PICK r \in rows : x.of = r.of /\ x.hook = r.hook /\ x.written = r.written /\ x.loaded = r.loaded \ P
      BY <2>2
    <3>2. r.hook \in Hooks
      BY <2>1 DEF Row
    <3> QED
      BY <1>5, <3>1, <3>2 DEF Loaded
  <2>4. \A q \in Requests : doomed'[q] # NoHook => hook'[doomed'[q]].there # "never"
    BY <1>5 DEF Loaded
  <2>5. \A x \in rows' : x.of = Ping => x.written # "after"
    BY <1>5, <2>2 DEF Loaded
  <2>6. \A x \in rows' : \A q \in Requests :
          /\ q \in x.loaded => doomed'[q] = x.hook
          /\ x.written = "life" /\ doomed'[q] = x.hook => q \in x.loaded
    BY <2>3
  <2> QED
    BY <2>4, <2>5, <2>6 DEF Loaded
<1> USE DEF HTypeOK, Hook, Loaded, There
<1>1. ASSUME NEW h \in Hooks, NEW w \in SUBSET Events, CreateHook(h, w) PROVE Loaded'
  BY <1>1 DEF CreateHook
<1>2. ASSUME NEW h \in Hooks, UpdateHook(h) PROVE Loaded'
  BY <1>2 DEF UpdateHook
<1>4. ASSUME NEW p \in Requests, DeleteHook(p) PROVE Loaded'
  <2>1. /\ doomed' = [doomed EXCEPT ![p] = NoHook] /\ rows' \subseteq rows
        /\ \A r \in rows' : p \notin r.loaded /\ r.hook \in Hooks
    BY <1>4 DEF DeleteHook, Row
  <2>2. \A h \in Hooks : hook[h].there # "never" => hook'[h].there # "never"
    BY <1>4 DEF DeleteHook
  <2> QED
    BY <2>1, <2>2
<1>6. ASSUME NEW p \in Requests, DeleteFails(p) PROVE Loaded'
  <2>1. {p} \subseteq Requests /\ doomed' = [q \in Requests |-> IF q \in {p} THEN NoHook ELSE doomed[q]]
    BY <1>6 DEF DeleteFails
  <2> QED
    BY <1>5, <1>6, <2>1 DEF DeleteFails
<1>7. ASSUME Crash PROVE Loaded'
  <2>1. doomed' = [q \in Requests |-> IF q \in Requests THEN NoHook ELSE doomed[q]]
    BY <1>7 DEF Crash
  <2> QED
    BY <1>5, <1>7, <2>1 DEF Crash
<1>8. ASSUME NEW of \in Events \cup {Ping}, NEW h \in Hooks, rows' \subseteq rows \cup {Delivery(of, h)},
             of = Ping => There(h), UNCHANGED <<hook, doomed>>
      PROVE  Loaded'
  BY <1>8, DeliveryIs
<1>9. ASSUME NEW e \in Events, Record(e) PROVE Loaded'
  <2>1. job[e].at \in Hooks
    BY <1>9 DEF Record, Job
  <2> QED
    BY <1>8, <1>9, <2>1 DEF Record
<1>10. ASSUME NEW p \in Requests, PingRecorded(p) PROVE Loaded'
  <2>1. ping[p] \in Hooks
    BY <1>10 DEF PingRecorded
  <2> QED
    BY <1>8, <1>10, <2>1 DEF PingRecorded
<1>11. CASE UNCHANGED <<hook, doomed, rows>>
  BY <1>11
<1> QED
  BY <1>1, <1>2, <1>3, <1>4, <1>6, <1>7, <1>9, <1>10, <1>11, Steps
  DEF Publish, Call, Finish, StartPing, PingFails, hvars

LEMMA LogStep == HTypeOK /\ Known /\ Loaded /\ LogTruthful /\ [HNext]_hvars => LogTruthful'
<1> SUFFICES ASSUME HTypeOK, Known, Loaded, LogTruthful, [HNext]_hvars PROVE LogTruthful'
  OBVIOUS
<1>a. \A p \in Requests, h \in Hooks : StartDelete(p, h) =>
        /\ \A x \in rows' : \E r \in rows : x.of = r.of /\ x.hook = r.hook /\ x.written = r.written
        /\ \A r \in rows : \E x \in rows' : x.of = r.of /\ x.hook = r.hook
  BY StartDeleteRows DEF HTypeOK
<1>b. \A P \in SUBSET Requests :
        /\ \A x \in Unloaded(rows, P) : \E r \in rows :
             x.of = r.of /\ x.hook = r.hook /\ x.written = r.written
        /\ \A r \in rows : \E x \in Unloaded(rows, P) : x.of = r.of /\ x.hook = r.hook
  <2>1. ASSUME NEW P \in SUBSET Requests
        PROVE  /\ \A x \in Unloaded(rows, P) : \E r \in rows :
                    x.of = r.of /\ x.hook = r.hook /\ x.written = r.written
               /\ \A r \in rows : \E x \in Unloaded(rows, P) : x.of = r.of /\ x.hook = r.hook
    <3>1. rows \subseteq Row /\ P \subseteq Requests
      BY DEF HTypeOK
    <3> HIDE DEF HTypeOK
    <3> QED
      BY <3>1, UnloadedIs
  <2> QED
    BY <2>1
<1> USE DEF HTypeOK, Hook, Job, Known, There, LogTruthful, NoOrphans, NothingForgotten
<1>0. \A r \in rows : r.hook \in Hooks /\ r.loaded \subseteq Requests
  BY DEF Row
<1>1. ASSUME NEW h \in Hooks, NEW w \in SUBSET Events, CreateHook(h, w) PROVE LogTruthful'
  BY <1>0, <1>1 DEF CreateHook
<1>2. ASSUME NEW h \in Hooks, UpdateHook(h) PROVE LogTruthful'
  BY <1>0, <1>2 DEF UpdateHook
<1>3. ASSUME UNCHANGED <<hook, recorded>>,
             \A x \in rows' : \E r \in rows : x.of = r.of /\ x.hook = r.hook /\ x.written = r.written,
             \A r \in rows : \E x \in rows' : x.of = r.of /\ x.hook = r.hook
      PROVE  LogTruthful'
  <2>1. NoOrphans'
    BY <1>3
  <2>2. NothingForgotten'
    BY <1>3
  <2> QED
    BY <2>1, <2>2
<1>4. ASSUME NEW p \in Requests, NEW h \in Hooks, StartDelete(p, h) PROVE LogTruthful'
  BY <1>3, <1>4, <1>a DEF StartDelete
<1>5. ASSUME NEW p \in Requests, DeleteHook(p) PROVE LogTruthful'
  <2> DEFINE h == doomed[p]
  <2>1. /\ h \in Hooks /\ rows' = {r \in rows : p \notin r.loaded /\ ~(Enforced /\ r.hook = h)}
        /\ hook' = [hook EXCEPT ![h].there = "gone"] /\ recorded' = recorded
    BY <1>5 DEF DeleteHook
  <2>2. /\ hook'[h].there = "gone"
        /\ \A g \in Hooks : g # h => hook'[g].there = hook[g].there
    BY <2>1
  <2>3. ASSUME NEW r \in rows'
        PROVE  \/ hook'[r.hook].there = "there"
               \/ ~Enforced /\ r.written \in (IF r.of = Ping THEN {"deletion"} ELSE {"deletion", "after"})
    <3>1. r \in rows /\ p \notin r.loaded /\ r.hook \in Hooks /\ r \in Row
      BY <1>0, <2>1
    <3>2. CASE r.hook # h
      BY <2>2, <3>1, <3>2
    <3>3. CASE r.hook = h
      <4>1. ~Enforced /\ r.written # "life"
        BY <2>1, <3>1, <3>3 DEF Loaded
      <4>2. r.written \in {"deletion", "after"}
        BY <3>1, <4>1 DEF Row
      <4>3. r.of = Ping => r.written # "after"
        BY <3>1 DEF Loaded
      <4> QED
        BY <4>1, <4>2, <4>3
    <3> QED
      BY <3>2, <3>3
  <2>4. ASSUME NEW c \in recorded, hook'[c.hook].there = "there"
        PROVE  \E r \in rows' : r.of = c.of /\ r.hook = c.hook
    <3>1. c.hook \in Hooks /\ c.hook # h /\ hook[c.hook].there = "there"
      BY <2>2, <2>4
    <3>2. PICK r \in rows : r.of = c.of /\ r.hook = c.hook
      BY <3>1
    <3>3. p \notin r.loaded
      BY <3>1, <3>2 DEF Loaded
    <3> QED
      BY <2>1, <3>1, <3>2, <3>3
  <2> QED
    BY <2>1, <2>3, <2>4
<1>6. ASSUME NEW P, P \subseteq Requests, rows' = Unloaded(rows, P), UNCHANGED <<hook, recorded>>
      PROVE  LogTruthful'
  BY <1>3, <1>6, <1>b
<1>7. ASSUME NEW p \in Requests, DeleteFails(p) PROVE LogTruthful'
  <2>1. {p} \subseteq Requests /\ rows' = Unloaded(rows, {p}) /\ UNCHANGED <<hook, recorded>>
    BY <1>7 DEF DeleteFails
  <2> HIDE DEF LogTruthful
  <2> QED
    BY <1>6, <2>1
<1>8. ASSUME Crash PROVE LogTruthful'
  BY <1>6, <1>8 DEF Crash
<1>9. ASSUME NEW e \in Events, Record(e) PROVE LogTruthful'
  <2>1. job[e].at \in Hooks
    BY <1>9 DEF Record
  <2>2. CASE UNCHANGED <<rows, recorded>>
    BY <1>9, <2>2 DEF Record
  <2>3. CASE There(job[e].at) \/ ~Enforced
    BY <1>9, <2>1, <2>3, DeliveryIs DEF Record
  <2> QED
    BY <1>9, <2>2, <2>3 DEF Record
<1>10. ASSUME NEW p \in Requests, PingRecorded(p) PROVE LogTruthful'
  BY <1>10, DeliveryIs DEF PingRecorded
<1>11. CASE UNCHANGED <<hook, rows, recorded>>
  BY <1>11
<1> QED
  BY <1>1, <1>2, <1>4, <1>5, <1>7, <1>8, <1>9, <1>10, <1>11, Steps
  DEF Publish, Call, Finish, StartPing, PingFails, hvars

\* HInv holds always: hooks that are called or recorded exist or existed, and each of them is
\* called at most once, through every interleaving of dispatches, deletions, pings and crashes.
THEOREM WebhooksInductive == HSpec => []HInv
<1>1. HInv /\ [HNext]_hvars => HInv'
  BY TypeStep, KnownStep, OnceStep, LoadedStep, LogStep DEF HInv
<1> QED
  BY InitHolds, <1>1, PTL DEF HSpec

\* The delivery log forgets no delivery of a hook that is there, and lists one of a hook that
\* is gone only if it was committed after a deletion of the hook had loaded what it deletes,
\* on a database without foreign keys; a ping's never after the hook was gone.
THEOREM LogIsTruthful == HSpec => []LogTruthful
<1>1. HInv => LogTruthful
  BY DEF HInv
<1> QED
  BY WebhooksInductive, <1>1, PTL

-----------------------------------------------------------------------------
(* The refinement of Notify. *)

Audience == [e \in Events |-> Subscribers(e)]
Phases == [e \in Events |-> PhaseOf(e)]
Mapped == [e \in Events |-> [h \in Hooks |-> StatusOf(e, h)]]

Phase(e) ==
  IF job[e].pc = "idle" THEN "quiet"
  ELSE IF job[e].pc = "done" THEN "over" ELSE IF job[e].pc = "dead" THEN "lost" ELSE "open"

LEMMA PhaseIs ==
  ASSUME HTypeOK, NEW e \in Events
  PROVE  PhaseOf(e) = Phase(e)
  BY DEF PhaseOf, Phase, HTypeOK, Job

LEMMA NextPhaseIs ==
  ASSUME HTypeOK', NEW e \in Events
  PROVE  PhaseOf(e)' = Phase(e)'
  BY DEF PhaseOf, Phase, HTypeOK, Job

\* What happens to the phases when one job changes its place, or none does.
LEMMA PhaseMoves ==
  ASSUME HTypeOK, HTypeOK', NEW e \in Events, NEW to, Phase(e)' = to,
         \A f \in Events : f # e => job'[f].pc = job[f].pc
  PROVE  Phases' = [Phases EXCEPT ![e] = to]
<1>1. \A f \in Events : PhaseOf(f)' = IF f = e THEN to ELSE PhaseOf(f)
  BY PhaseIs, NextPhaseIs DEF Phase
<1> QED
  BY <1>1 DEF Phases

LEMMA PhasesStay ==
  ASSUME HTypeOK, HTypeOK', \A f \in Events : Phase(f)' = Phase(f)
  PROVE  Phases' = Phases
<1>1. \A f \in Events : PhaseOf(f)' = PhaseOf(f)
  BY PhaseIs, NextPhaseIs
<1> QED
  BY <1>1 DEF Phases

LEMMA AudienceStays ==
  ASSUME UNCHANGED hook
  PROVE  Audience' = Audience
  BY DEF Audience, Subscribers, There

\* The refinement mapping, without the case that never happens.
Status(e, h) ==
  IF called[e][h] = 1
  THEN IF [of |-> e, hook |-> h] \in recorded THEN "logged" ELSE "told"
  ELSE IF h \in job[e].todo
       THEN IF job[e].pc = "dead" THEN "dropped" ELSE "due"
       ELSE "no"

LEMMA StatusIs ==
  ASSUME HInv, NEW e \in Events, NEW h \in Hooks
  PROVE  StatusOf(e, h) = Status(e, h)
  BY DEF StatusOf, Status, HInv, Once

LEMMA NextStatusIs ==
  ASSUME HInv', NEW e \in Events, NEW h \in Hooks
  PROVE  StatusOf(e, h)' = Status(e, h)'
  BY DEF StatusOf, Status, HInv, Once

LEMMA InitRefines == HInit => N!Init
<1> SUFFICES ASSUME HInit PROVE N!Init
  OBVIOUS
<1>1. HInv
  BY InitHolds
<1>2. ASSUME NEW e \in Events, NEW h \in Hooks PROVE StatusOf(e, h) = "no"
  BY <1>1, StatusIs DEF HInit, Status
<1>3. ASSUME NEW e \in Events PROVE PhaseOf(e) = "quiet"
  BY DEF HInit, PhaseOf
<1>4. \A e \in Events : Subscribers(e) \subseteq Hooks
  BY DEF Subscribers
<1> QED
  BY <1>2, <1>3, <1>4 DEF N!Init

LEMMA MappedIs ==
  ASSUME HInv
  PROVE  Mapped = [f \in Events |-> [h \in Hooks |-> Status(f, h)]]
  BY StatusIs DEF Mapped

LEMMA PublishRefines ==
  ASSUME HInv, HInv', NEW e \in Events, Publish(e)
  PROVE  N!Publish(e)
<1> DEFINE S == Subscribers(e)
           Due == [h \in Hooks |-> IF h \in S THEN "due" ELSE "no"]
<1>0. /\ job \in [Events -> Job] /\ HTypeOK /\ HTypeOK'
      /\ job[e].pc = "idle" /\ job'[e].pc = "next" /\ job'[e].todo = S
      /\ \A f \in Events : f # e => job'[f] = job[f]
  BY DEF HInv, HTypeOK, Publish, Job
<1>1. ASSUME NEW h \in Hooks PROVE Status(e, h)' = IF h \in S THEN "due" ELSE "no"
  <2>1. called'[e][h] = 0
    BY DEF Publish, HInv, Once
  <2> QED
    BY <1>0, <2>1 DEF Status
<1>2. ASSUME NEW f \in Events, f # e, NEW h \in Hooks PROVE Status(f, h)' = Status(f, h)
  BY <1>0, <1>2 DEF Status, Publish
<1>3. Mapped' = [Mapped EXCEPT ![e] = Due]
  <2>1. \A f \in Events, h \in Hooks : StatusOf(f, h)' = IF f = e THEN Due[h] ELSE StatusOf(f, h)
    BY <1>1, <1>2, StatusIs, NextStatusIs
  <2> QED
    BY <2>1 DEF Mapped
<1>4. Phases[e] = "quiet" /\ Phases' = [Phases EXCEPT ![e] = "open"]
  <2>1. Phase(e)' = "open" /\ Phase(e) = "quiet"
    BY <1>0 DEF Phase
  <2> QED
    BY <1>0, <2>1, PhaseIs, PhaseMoves DEF Phases
<1>5. Audience' = Audience /\ Audience[e] = S
  BY AudienceStays DEF Publish, Audience
<1> QED
  BY <1>3, <1>4, <1>5 DEF N!Publish, Mapped, Phases, Audience

\* One status moves and no other.
LEMMA OneMoves ==
  ASSUME HInv, HInv', NEW e \in Events, NEW h \in Hooks,
         NEW from, NEW to, Status(e, h) = from, Status(e, h)' = to,
         \A f \in Events, g \in Hooks : f # e \/ g # h => Status(f, g)' = Status(f, g),
         Phase(e) = "open", \A f \in Events : Phase(f)' = Phase(f), UNCHANGED hook
  PROVE  N!Move(e, h, from, to)
<1>1. Mapped[e][h] = from
  BY MappedIs
<1>2. \A f \in Events, g \in Hooks :
        StatusOf(f, g)' = IF f = e /\ g = h THEN to ELSE StatusOf(f, g)
  BY StatusIs, NextStatusIs
<1>3. Mapped' = [Mapped EXCEPT ![e][h] = to]
  BY <1>2 DEF Mapped
<1>4. Phases[e] = "open" /\ Phases' = Phases /\ Audience' = Audience
  BY PhaseIs, PhasesStay, AudienceStays DEF HInv, Phases
<1> QED
  BY <1>1, <1>3, <1>4 DEF N!Move, Mapped, Phases, Audience

LEMMA NoneMoves ==
  ASSUME HInv, HInv', \A f \in Events, g \in Hooks : Status(f, g)' = Status(f, g)
  PROVE  Mapped' = Mapped
<1>1. \A f \in Events, g \in Hooks : StatusOf(f, g)' = StatusOf(f, g)
  BY StatusIs, NextStatusIs
<1> QED
  BY <1>1 DEF Mapped

LEMMA CallRefines ==
  ASSUME HInv, HInv', NEW e \in Events, NEW h \in Hooks, Call(e, h)
  PROVE  N!Tell(e, h)
<1>1. /\ job \in [Events -> Job]
      /\ called \in [Events -> [Hooks -> Nat]]
  BY DEF HInv, HTypeOK
<1>2. Status(e, h) = "due"
  BY DEF Call, HInv, Once, Status
<1>3. Status(e, h)' = "told"
  <2>1. called[e][h] = 0 /\ [of |-> e, hook |-> h] \notin recorded
    BY DEF Call, HInv, Once
  <2>2. called'[e][h] = 1 /\ recorded' = recorded
    BY <1>1, <2>1 DEF Call
  <2> QED
    BY <2>1, <2>2 DEF Status
<1>4. ASSUME NEW f \in Events, NEW g \in Hooks, f # e \/ g # h
      PROVE  Status(f, g)' = Status(f, g)
  <2>1. called'[f][g] = called[f][g] /\ recorded' = recorded
    BY <1>1, <1>4 DEF Call
  <2>2. g \in job'[f].todo <=> g \in job[f].todo
    BY <1>1, <1>4 DEF Call, Job
  <2>3. job'[f].pc = "dead" <=> job[f].pc = "dead"
    BY <1>1 DEF Call, Job
  <2> QED
    BY <2>1, <2>2, <2>3 DEF Status
<1>5. /\ Phase(e) = "open" /\ UNCHANGED hook
      /\ \A f \in Events : Phase(f)' = Phase(f)
  BY <1>1 DEF Call, Job, Phase
<1> QED
  BY <1>2, <1>3, <1>4, <1>5, OneMoves DEF N!Tell

\* Recording logs the call, unless the commit fails.
LEMMA RecordRefines ==
  ASSUME HInv, HInv', NEW e \in Events, Record(e)
  PROVE  (\E h \in Hooks : N!Log(e, h)) \/ UNCHANGED <<Audience, Phases, Mapped>>
<1>0. /\ Phase(e) = "open" /\ UNCHANGED hook
      /\ \A f \in Events : Phase(f)' = Phase(f)
  BY DEF Record, HInv, HTypeOK, Job, Phase
<1>1. job \in [Events -> Job]
  BY DEF HInv, HTypeOK
<1>2. PICK h \in Hooks : h = job[e].at
  BY <1>1 DEF HInv, HTypeOK, Job, Record
<1> DEFINE r == [of |-> e, hook |-> h]
<1>3. called[e][h] = 1 /\ called' = called
  BY <1>2 DEF HInv, Once, Record
<1>4. ASSUME NEW f \in Events
      PROVE  /\ job'[f].todo = job[f].todo
             /\ job'[f].pc = "dead" <=> job[f].pc = "dead"
  BY <1>1 DEF Record, Job
<1>5. CASE recorded' = recorded
  BY <1>0, <1>3, <1>4, <1>5, NoneMoves, PhasesStay, AudienceStays DEF Status, HInv
<1>6. CASE recorded' = recorded \cup {r}
  <2>1. CASE r \in recorded
    BY <1>5, <1>6, <2>1
  <2>2. CASE r \notin recorded
    <3>1. Status(e, h) = "told" /\ Status(e, h)' = "logged"
      BY <1>3, <1>6, <2>2 DEF Status
    <3>2. ASSUME NEW f \in Events, NEW g \in Hooks, f # e \/ g # h
          PROVE  Status(f, g)' = Status(f, g)
      <4>1. [of |-> f, hook |-> g] \in recorded' <=> [of |-> f, hook |-> g] \in recorded
        BY <1>6, <3>2
      <4> QED
        BY <1>3, <1>4, <4>1 DEF Status
    <3> QED
      BY <1>0, <1>1, <3>1, <3>2, OneMoves DEF N!Log
  <2> QED
    BY <2>1, <2>2
<1> QED
  BY <1>2, <1>5, <1>6 DEF Record

LEMMA CrashRefines ==
  ASSUME HInv, HInv', Crash
  PROVE  N!Die
<1>1. job \in [Events -> Job]
  BY DEF HInv, HTypeOK
<1>2. ASSUME NEW f \in Events, NEW g \in Hooks
      PROVE  Status(f, g)' = IF Status(f, g) = "due" THEN "dropped" ELSE Status(f, g)
  <2>1. called' = called /\ recorded' = recorded
    BY DEF Crash
  <2>2. job'[f].todo = job[f].todo
    BY <1>1 DEF Crash, Job
  <2>3. job[f].pc \in {"next", "calling", "dead"} => job'[f].pc = "dead"
    BY <1>1 DEF Crash, Job
  <2>4. g \in job[f].todo => job[f].pc \in {"next", "calling", "dead"}
    BY DEF HInv, Once
  <2> QED
    BY <2>1, <2>2, <2>3, <2>4 DEF Status
<1>3. \A f \in Events, g \in Hooks :
        StatusOf(f, g)' = IF StatusOf(f, g) = "due" THEN "dropped" ELSE StatusOf(f, g)
  BY <1>2, StatusIs, NextStatusIs
<1>4. \A f \in Events : PhaseOf(f)' = IF PhaseOf(f) = "open" THEN "lost" ELSE PhaseOf(f)
  <2>1. ASSUME NEW f \in Events
        PROVE  job'[f].pc = IF job[f].pc \in {"next", "calling"} THEN "dead" ELSE job[f].pc
    BY <1>1 DEF Crash, Job
  <2>2. ASSUME NEW f \in Events PROVE Phase(f)' = IF Phase(f) = "open" THEN "lost" ELSE Phase(f)
    BY <1>1, <2>1 DEF Phase, Job
  <2> QED
    BY <2>2, PhaseIs, NextPhaseIs DEF HInv
<1>5. Audience' = Audience
  BY AudienceStays DEF Crash
<1> QED
  BY <1>3, <1>4, <1>5 DEF N!Die, Audience

\* The loop ends when nothing is left to do.
LEMMA FinishRefines ==
  ASSUME HInv, HInv', NEW e \in Events, Finish(e)
  PROVE  N!Close(e)
<1>1. /\ job \in [Events -> Job] /\ HTypeOK /\ HTypeOK'
      /\ job[e].pc = "next" /\ job[e].todo = {} /\ job'[e].pc = "done"
      /\ \A f \in Events : job'[f].todo = job[f].todo /\ (f # e => job'[f].pc = job[f].pc)
  BY DEF HInv, HTypeOK, Finish, Job
<1>2. \A f \in Events, g \in Hooks : Status(f, g)' = Status(f, g)
  BY <1>1 DEF Finish, Status
<1>3. Mapped' = Mapped
  BY <1>2, NoneMoves
<1>4. ASSUME NEW h \in Hooks PROVE Mapped[e][h] # "due"
  <2>1. Status(e, h) # "due"
    BY <1>1 DEF Status
  <2> QED
    BY <2>1, MappedIs
<1>5. Phases[e] = "open" /\ Phases' = [Phases EXCEPT ![e] = "over"]
  <2>1. Phase(e) = "open" /\ Phase(e)' = "over"
    BY <1>1 DEF Phase
  <2> QED
    BY <1>1, <2>1, PhaseIs, PhaseMoves DEF Phases
<1>6. Audience' = Audience
  BY AudienceStays DEF Finish
<1> QED
  BY <1>3, <1>4, <1>5, <1>6 DEF N!Close, Mapped, Phases, Audience

\* Managing hooks and pinging them tells nobody of an event.
LEMMA OthersRefine ==
  ASSUME HInv, HInv', UNCHANGED <<job, called, recorded>>
  PROVE  N!Resubscribe
<1>1. Mapped' = Mapped
  BY NoneMoves DEF Status
<1>2. Phases' = Phases
  BY PhasesStay DEF Phase, HInv
<1>3. Audience' \in [Events -> SUBSET Hooks]
  BY DEF Audience, Subscribers
<1> QED
  BY <1>1, <1>2, <1>3 DEF N!Resubscribe, Mapped, Phases, Audience

\* Every step of the dispatch, whatever else happens to the hooks, maps to a step of Notify or
\* to none.
LEMMA StepRefines ==
  ASSUME HInv, HInv', [HNext]_hvars
  PROVE  N!Next \/ UNCHANGED <<Audience, Phases, Mapped>>
<1>1. ASSUME NEW e \in Events, Publish(e) PROVE N!Next
  BY <1>1, PublishRefines DEF N!Next
<1>2. ASSUME NEW e \in Events, NEW h \in Hooks, Call(e, h) PROVE N!Next
  BY <1>2, CallRefines DEF N!Next
<1>3. ASSUME NEW e \in Events, Record(e) PROVE N!Next \/ UNCHANGED <<Audience, Phases, Mapped>>
  BY <1>3, RecordRefines DEF N!Next
<1>4. CASE Crash
  BY <1>4, CrashRefines DEF N!Next
<1>5. ASSUME NEW e \in Events, Finish(e) PROVE N!Next
  BY <1>5, FinishRefines DEF N!Next
<1>6. CASE UNCHANGED <<job, called, recorded>>
  BY <1>6, OthersRefine DEF N!Next
<1> QED
  BY <1>1, <1>2, <1>3, <1>4, <1>5, <1>6, Steps
  DEF CreateHook, UpdateHook, StartDelete, DeleteHook, DeleteFails,
      StartPing, PingRecorded, PingFails, hvars

\* The dispatch keeps what Notify promises: an event becomes due for exactly the hooks that are
\* active and subscribed when it is published, each of them is called at most once and no other
\* hook is, its row is logged only after the call, and the loop ends only when all of them have
\* been called or the process has died.
THEOREM DispatchImplementsNotify == HSpec => NotifySpec
<1>1. HInv /\ HInv' /\ [HNext]_hvars => [N!Next]_(<<Audience, Phases, Mapped>>)
  BY StepRefines
<1> QED
  BY InitRefines, WebhooksInductive, <1>1, PTL
  DEF HSpec, NotifySpec, N!Spec, N!nvars, Audience, Phases, Mapped

-----------------------------------------------------------------------------
(* Console: the inductive invariant. *)

\* TypeOK in parts: what the modal and its calls are made of, and the bounds.
PartsOK ==
  /\ key \in [Keys -> {"never", "there", "gone"}]
  /\ ui \in Ui
  /\ load \in [LoadSlots -> Load]
  /\ newest \in [{"keys", "hooks", "logs"} -> [at : LoadSlots \cup {NoSlot}, last : BOOLEAN]]
  /\ call \in [Requests -> Call_]
  /\ told \cup made \subseteq Keys \cup Hooks
  /\ clicks \in Nat /\ calls \in 0..MaxCalls /\ clicks + calls <= MaxActs

\* What the server executes, for callers that wait and for others, are calls that were sent.
RequestsMatch == \A p \in Requests :
  /\ call[p].pc = "calling" <=> ping[p] # NoHook
  /\ call[p].pc = "deleting" <=> doomed[p] # NoHook
  /\ call[p].pc = "deleting" => doomed[p] = call[p].thing

\* A call is about a key or a hook, as its kind says, a creation only once it is done; only a
\* ping calls out, and only a hook's deletion takes two steps.
Targets == \A p \in Requests :
  /\ call[p].pc = "calling" => call[p].kind = "ping"
  /\ call[p].pc = "deleting" => call[p].kind = "deleteHook"
  /\ call[p].pc # "free" /\ call[p].kind = "revokeKey" => call[p].thing \in Keys
  /\ call[p].pc # "free" /\ call[p].kind \in {"deleteHook", "ping"} => call[p].thing \in Hooks
  /\ call[p].pc = "done" /\ call[p].kind = "createKey" => call[p].thing \in Keys
  /\ call[p].pc = "done" /\ call[p].kind = "createHook" => call[p].thing \in Hooks

CInv == HTypeOK /\ Loaded /\ PartsOK /\ RequestsMatch /\ Targets

-----------------------------------------------------------------------------
(* Every step is a step of the webhooks, or none of theirs. *)

LEMMA ModalKeepsHooks ==
  ASSUME \/ Moving \/ Mutating
         \/ \E s \in LoadSlots : Serve(s) \/ Answer(s) \/ LoadFails(s)
  PROVE  UNCHANGED hvars
<1>1. CASE Moving
  BY <1>1 DEF Moving, Open, ChooseTab, Show, Close, OpenForm, CloseForm, Only, ViewLogs, FoldLogs
<1>2. CASE Mutating
  BY <1>2 DEF Mutating, Submit, Revoke, Delete, TestPing, Send
<1>3. CASE \E s \in LoadSlots : Serve(s) \/ Answer(s) \/ LoadFails(s)
  BY <1>3 DEF Serve, Answer, LoadFails
<1> QED
  BY <1>1, <1>2, <1>3

LEMMA ServingIsHooks ==
  ASSUME Targets, NEW p \in Requests, Serving(p)
  PROVE  [HNext]_hvars
<1>1. CASE CreatesKey(p) \/ RevokesKey(p)
  BY <1>1 DEF CreatesKey, RevokesKey
<1>2. CASE CreatesHook(p)
  BY <1>2 DEF CreatesHook, HNext, Manage
<1>3. CASE Deleting(p) \/ DeletesHook(p)
  BY <1>3 DEF Deleting, DeletesHook, HNext, Manage, Targets
<1>4. CASE Pinging(p)
  BY <1>4 DEF Pinging, HNext, Test, Targets
<1>5. CASE Pinged(p)
  BY <1>5 DEF Pinged, HNext, Test
<1> QED
  BY <1>1, <1>2, <1>3, <1>4, <1>5 DEF Serving

LEMMA ReturningIsHooks ==
  ASSUME NEW p \in Requests, Returning(p)
  PROVE  [HNext]_hvars
<1>1. CASE CreateReturns(p) \/ DeleteReturns(p) \/ PingReturns(p)
  BY <1>1 DEF CreateReturns, DeleteReturns, PingReturns, Returned
<1>2. CASE Fail(p) \/ Unheard(p)
  BY <1>2 DEF Fail, Unheard, HNext, Test, Manage
<1>3. CASE Lose(p)
  BY <1>3 DEF Lose
<1> QED
  BY <1>1, <1>2, <1>3 DEF Returning

LEMMA StepIsHooks ==
  ASSUME Targets, [Next]_vars
  PROVE  [HNext]_hvars
<1>1. CASE Others
  BY <1>1 DEF Others, HNext, Dispatch, Manage
<1>2. CASE Restart
  BY <1>2 DEF Restart, HNext
<1>3. CASE UNCHANGED vars
  BY <1>3 DEF vars, hvars
<1> QED
  BY <1>1, <1>2, <1>3, ModalKeepsHooks, ServingIsHooks, ReturningIsHooks DEF Next

-----------------------------------------------------------------------------
(* The parts keep their types. *)

LEMMA InitParts == Init => PartsOK /\ RequestsMatch /\ Targets
<1> SUFFICES ASSUME Init PROVE PartsOK /\ RequestsMatch /\ Targets
  OBVIOUS
<1>1. ui \in Ui
  BY DEF Init, Ui, Lists
<1>2. call \in [Requests -> Call_] /\ load \in [LoadSlots -> Load]
  BY DEF Init, Call_, Load, NoCall, NoLoad, Kinds
<1>3. PartsOK
  BY <1>1, <1>2 DEF Init, PartsOK
<1>4. RequestsMatch /\ Targets
  BY DEF Init, HInit, RequestsMatch, Targets, NoCall
<1> QED
  BY <1>3, <1>4

LEMMA AskOK ==
  ASSUME PartsOK, NEW s \in LoadSlots, NEW k \in {"keys", "hooks", "logs"},
         NEW h \in Hooks \cup {NoHook}, Ask(s, k, h)
  PROVE  /\ load' \in [LoadSlots -> Load]
         /\ newest' \in [{"keys", "hooks", "logs"} -> [at : LoadSlots \cup {NoSlot}, last : BOOLEAN]]
  BY DEF PartsOK, Ask, Load

LEMMA LoadingOK ==
  ASSUME PartsOK, NEW x \in Ui, NEW l \in Lists, Loading(x, l)
  PROVE  /\ ui' \in Ui
         /\ load' \in [LoadSlots -> Load]
         /\ newest' \in [{"keys", "hooks", "logs"} -> [at : LoadSlots \cup {NoSlot}, last : BOOLEAN]]
<1>1. PICK s \in LoadSlots : Ask(s, l, NoHook) /\ ui' = [x EXCEPT !.waiting = @ \cup {l}]
  BY DEF Loading
<1>2. ui' \in Ui
  BY <1>1 DEF Ui, Lists
<1> QED
  BY <1>1, <1>2, AskOK DEF Lists

LEMMA MovingParts ==
  ASSUME PartsOK, Moving
  PROVE  PartsOK' /\ call' = call
<1> DEFINE NavOK == clicks' \in Nat /\ clicks' + calls <= MaxActs
<1>1. Click => NavOK
  BY DEF PartsOK, Click
<1>2. ASSUME NEW x \in Ui, Show(x) PROVE PartsOK' /\ call' = call
  <2>1. Click /\ UNCHANGED <<key, call, told, made, calls>>
    BY <1>2 DEF Show
  <2>2. CASE x.at = "export"
    BY <1>1, <1>2, <2>1, <2>2 DEF Show, PartsOK
  <2>3. CASE x.at # "export"
    <3>1. x.at \in Lists /\ Loading(x, x.at)
      BY <1>2, <2>3 DEF Show, Ui, Lists
    <3> QED
      BY <1>1, <2>1, <3>1, LoadingOK DEF PartsOK
  <2> QED
    BY <2>2, <2>3
<1>3. CASE Open
  <2>1. [ui EXCEPT !.open = TRUE] \in Ui
    BY DEF PartsOK, Ui
  <2> QED
    BY <1>2, <1>3, <2>1 DEF Open
<1>4. CASE ChooseTab
  <2>1. PICK t \in {"keys", "hooks", "export"} : Show([ui EXCEPT !.at = t])
    BY <1>4 DEF ChooseTab
  <2>2. [ui EXCEPT !.at = t] \in Ui
    BY DEF PartsOK, Ui
  <2> QED
    BY <1>2, <2>1, <2>2
<1>5. CASE Close
  <2>1. ui' \in Ui
    BY <1>5 DEF Close, PartsOK, Ui
  <2> QED
    BY <1>1, <1>5, <2>1 DEF Close, PartsOK
<1>6. CASE OpenForm
  <2>1. ui' \in Ui
    BY <1>6 DEF OpenForm, PartsOK, Ui
  <2> QED
    BY <1>1, <1>6, <2>1 DEF OpenForm, PartsOK
<1>7. CASE CloseForm
  <2>1. ui' \in Ui
    BY <1>7 DEF CloseForm, Only, PartsOK, Ui
  <2> QED
    BY <1>7, <2>1 DEF CloseForm, Only, PartsOK
<1>8. CASE ViewLogs
  <2>1. PICK h \in Hooks, s \in LoadSlots :
          /\ Click /\ Ask(s, "logs", h)
          /\ ui' = [ui EXCEPT !.logsOf = h, !.waiting = @ \cup {"logs"}]
          /\ UNCHANGED <<key, call, told, made, calls>>
    BY <1>8 DEF ViewLogs
  <2>2. ui \in Ui
    BY DEF PartsOK
  <2>3. ui' \in Ui
    BY <2>1, <2>2 DEF Ui
  <2> QED
    BY <1>1, <2>1, <2>3, AskOK DEF PartsOK
<1>9. CASE FoldLogs
  <2>1. ui' \in Ui
    BY <1>9 DEF FoldLogs, Only, PartsOK, Ui
  <2> QED
    BY <1>9, <2>1 DEF FoldLogs, Only, PartsOK
<1> QED
  BY <1>3, <1>4, <1>5, <1>6, <1>7, <1>8, <1>9 DEF Moving

LEMMA LoadParts ==
  ASSUME PartsOK, NEW s \in LoadSlots, Serve(s) \/ Answer(s) \/ LoadFails(s)
  PROVE  PartsOK' /\ call' = call
<1> DEFINE l == load[s]
<1>1. l \in Load /\ ui \in Ui
  BY DEF PartsOK
<1>2. CASE Serve(s)
  <2>1. Stored(l.kind) \subseteq Keys \cup Hooks
    BY DEF Stored
  <2>2. load' \in [LoadSlots -> Load]
    BY <1>1, <1>2, <2>1 DEF Serve, Load, PartsOK
  <2> QED
    BY <1>2, <2>2 DEF Serve, PartsOK
<1>3. CASE Answer(s)
  <2>1. ui' \in Ui
    <3>1. CASE l.kind = "logs"
      BY <1>1, <1>3, <3>1 DEF Answer, Ui, Load
    <3>2. CASE l.kind # "logs"
      <4>1. l.kind \in Lists /\ l.got \in SUBSET (Keys \cup Hooks)
        BY <1>1, <3>2 DEF Load, Lists
      <4> HIDE DEF l
      <4>2. ui' = [ui EXCEPT !.shown[l.kind] = l.got, !.waiting = @ \ {l.kind}]
        BY <1>3, <3>2 DEF Answer, l
      <4> QED
        BY <1>1, <4>1, <4>2 DEF Ui
    <3> QED
      BY <3>1, <3>2
  <2>2. load' \in [LoadSlots -> Load]
    BY <1>3 DEF Answer, NoLoad, Load, PartsOK
  <2>3. newest' \in [{"keys", "hooks", "logs"} -> [at : LoadSlots \cup {NoSlot}, last : BOOLEAN]]
    <3>1. l.kind \in {"keys", "hooks", "logs"}
      BY <1>1 DEF Load
    <3>2. newest' = [newest EXCEPT ![l.kind].last = (s = newest[l.kind].at)]
      BY <1>3 DEF Answer
    <3> DEFINE b == (s = newest[l.kind].at)
               k == l.kind
    <3>3. newest' = [newest EXCEPT ![k].last = b] /\ b \in BOOLEAN /\ k \in {"keys", "hooks", "logs"}
      BY <3>1, <3>2
    <3> HIDE DEF b, k
    <3> QED
      BY <3>3 DEF PartsOK
  <2> QED
    BY <1>3, <2>1, <2>2, <2>3 DEF Answer, PartsOK
<1>4. CASE LoadFails(s)
  <2>1. ui' \in Ui
    BY <1>1, <1>4 DEF LoadFails, Ui
  <2>2. load' \in [LoadSlots -> Load]
    BY <1>4 DEF LoadFails, NoLoad, Load, PartsOK
  <2> QED
    BY <1>4, <2>1, <2>2 DEF LoadFails, PartsOK
<1> QED
  BY <1>2, <1>3, <1>4

\* A call that is sent concerns what its kind says.
LEMMA SendOK ==
  ASSUME PartsOK, Targets, NEW k \in Kinds, NEW x \in Keys \cup Hooks \cup {NoHook}, NEW u \in Ui,
         k = "revokeKey" => x \in Keys, k \in {"deleteHook", "ping"} => x \in Hooks,
         Send(k, x, u)
  PROVE  /\ PartsOK' /\ Targets'
         /\ \E p \in Requests : /\ call[p].pc = "free" /\ call'[p].pc = "sent"
                             /\ \A q \in Requests : q # p => call'[q] = call[q]
<1>1. PICK p \in Requests :
        /\ call[p].pc = "free"
        /\ call' = [call EXCEPT ![p] = [pc |-> "sent", kind |-> k, thing |-> x,
                                        logsOf |-> ui.logsOf, lost |-> FALSE]]
  BY DEF Send
<1>2. ui.logsOf \in Hooks \cup {NoHook}
  BY DEF PartsOK, Ui
<1>3. call \in [Requests -> Call_]
  BY DEF PartsOK
<1>4. call' \in [Requests -> Call_]
  BY <1>1, <1>2, <1>3 DEF Call_
<1>5. calls' \in 0..MaxCalls /\ clicks + calls' <= MaxActs
  BY DEF Send, Mutate, PartsOK
<1>6. PartsOK'
  BY <1>4, <1>5 DEF Send, PartsOK
<1>7. /\ call'[p] = [pc |-> "sent", kind |-> k, thing |-> x, logsOf |-> ui.logsOf, lost |-> FALSE]
      /\ \A q \in Requests : q # p => call'[q] = call[q]
  BY <1>1, <1>3
<1>8. Targets'
  BY <1>7 DEF Targets
<1> QED
  BY <1>1, <1>6, <1>7, <1>8

LEMMA MutatingParts ==
  ASSUME PartsOK, Targets, Mutating
  PROVE  /\ PartsOK' /\ Targets'
         /\ \E p \in Requests : /\ call[p].pc = "free" /\ call'[p].pc = "sent"
                             /\ \A q \in Requests : q # p => call'[q] = call[q]
<1>1. ui \in Ui
  BY DEF PartsOK
<1>2. ASSUME NEW l \in Lists, Submit(l)
      PROVE  \E k \in {"createKey", "createHook"}, u \in Ui : Send(k, NoHook, u)
  <2>1. [ui EXCEPT !.saving = @ \cup {l}] \in Ui
    BY <1>1 DEF Ui
  <2> QED
    BY <1>2, <2>1 DEF Submit
<1>3. Revoke => \E h \in Keys : Send("revokeKey", h, ui)
  BY DEF Revoke
<1>4. Delete => \E h \in Hooks : Send("deleteHook", h, ui)
  BY DEF Delete
<1>5. TestPing => \E h \in Hooks, u \in Ui : Send("ping", h, u)
  <2>1. ASSUME NEW h \in Hooks PROVE [ui EXCEPT !.testing = h, !.result = NoHook] \in Ui
    BY <1>1 DEF Ui
  <2> QED
    BY <2>1 DEF TestPing
<1> QED
  BY <1>1, <1>2, <1>3, <1>4, <1>5, SendOK DEF Mutating, Kinds

\* A call only advances, and the server's answer names what was created.
LEMMA ServingParts ==
  ASSUME PartsOK, Targets, NEW p \in Requests, Serving(p)
  PROVE  PartsOK' /\ Targets'
<1>1. call \in [Requests -> Call_]
  BY DEF PartsOK
<1>2. UNCHANGED <<ui, load, newest, told, made, clicks, calls>>
  BY DEF Serving, CreatesKey, RevokesKey, CreatesHook, Deleting, DeletesHook, Pinging, Pinged, Step
<1>3. key' \in [Keys -> {"never", "there", "gone"}]
  BY DEF PartsOK, Serving, CreatesKey, RevokesKey, CreatesHook, Deleting, DeletesHook, Pinging, Pinged
<1>4. CASE CreatesKey(p) \/ CreatesHook(p)
  <2>1. PICK x \in Keys \cup Hooks :
          /\ call' = [call EXCEPT ![p].pc = "done", ![p].thing = x]
          /\ \/ call[p].kind = "createKey" /\ x \in Keys
             \/ call[p].kind = "createHook" /\ x \in Hooks
    <3>1. CASE CreatesKey(p)
      BY <3>1 DEF CreatesKey
    <3>2. CASE CreatesHook(p)
      BY <3>2 DEF CreatesHook
    <3> QED
      BY <1>4, <3>1, <3>2
  <2>2. call' \in [Requests -> Call_]
    BY <1>1, <2>1 DEF Call_
  <2>3. Targets'
    BY <1>1, <2>1 DEF Targets, Call_
  <2> QED
    BY <1>2, <1>3, <2>2, <2>3 DEF PartsOK
<1>5. CASE RevokesKey(p) \/ Deleting(p) \/ DeletesHook(p) \/ Pinging(p) \/ Pinged(p)
  <2>1. PICK pc \in {"done", "calling", "deleting"} : call' = [call EXCEPT ![p].pc = pc]
    BY <1>5 DEF RevokesKey, Deleting, DeletesHook, Pinging, Pinged, Step
  <2>2. call[p].pc # "free" /\ call[p].kind \notin {"createKey", "createHook"}
    BY <1>5 DEF RevokesKey, Deleting, DeletesHook, Pinging, Pinged, Targets
  <2>3. call' \in [Requests -> Call_]
    BY <1>1, <2>1 DEF Call_
  <2>4. /\ pc = "calling" => call[p].kind = "ping"
        /\ pc = "deleting" => call[p].kind = "deleteHook"
    BY <1>1, <1>5, <2>1 DEF RevokesKey, Deleting, DeletesHook, Pinging, Pinged, Step, Call_
  <2>5. Targets'
    BY <1>1, <2>1, <2>2, <2>4 DEF Targets, Call_
  <2> QED
    BY <1>2, <1>3, <2>3, <2>5 DEF PartsOK
<1> QED
  BY <1>4, <1>5 DEF Serving

LEMMA ReturnedOK ==
  ASSUME PartsOK, Targets, NEW p \in Requests, NEW u \in Ui, NEW l \in Lists, Returned(p, u, l),
         told' \cup made' \subseteq Keys \cup Hooks
  PROVE  PartsOK' /\ Targets'
<1>1. call' = [call EXCEPT ![p] = NoCall] /\ UNCHANGED <<hvars, key, clicks, calls>>
  BY DEF Returned
<1>2. call' \in [Requests -> Call_]
  BY <1>1 DEF PartsOK, Call_, NoCall, Kinds
<1>3. PartsOK'
  BY <1>1, <1>2, LoadingOK DEF Returned, PartsOK
<1>4. Targets'
  BY <1>1 DEF PartsOK, Targets, NoCall
<1> QED
  BY <1>3, <1>4

\* A failure leaves the modal a modal.
LEMMA FailedOK ==
  ASSUME ui \in Ui, NEW c, c.kind = "ping" => c.thing \in Hooks
  PROVE  Failed(c) \in Ui
<1>2. CASE c.kind = "createKey" \/ c.kind = "createHook"
  <2>1. \E l \in Lists : Failed(c) = [ui EXCEPT !.saving = @ \ {l}]
    BY <1>2 DEF Failed, Lists
  <2> QED
    BY <2>1 DEF Ui
<1>3. CASE c.kind = "ping"
  <2>1. Failed(c) = [ui EXCEPT !.testing = NoHook, !.result = c.thing]
    BY <1>3 DEF Failed
  <2> QED
    BY <1>3, <2>1 DEF Ui
<1>4. CASE c.kind \notin {"createKey", "createHook", "ping"}
  BY <1>4 DEF Failed
<1> QED
  BY <1>2, <1>3, <1>4

LEMMA ReturningParts ==
  ASSUME PartsOK, Targets, NEW p \in Requests, Returning(p)
  PROVE  PartsOK' /\ Targets'
<1> DEFINE x == call[p].thing
<1>1. ui \in Ui
  BY DEF PartsOK
<1>2. CASE CreateReturns(p)
  <2>1. PICK l \in Lists :
          LET u == [ui EXCEPT !.form = @ \ {l}, !.saving = @ \ {l}] IN
          /\ call[p].kind = IF l = "keys" THEN "createKey" ELSE "createHook"
          /\ Returned(p, IF l = "keys" THEN [u EXCEPT !.fresh = x] ELSE u, l)
          /\ made' = made \cup {x} /\ UNCHANGED told
    BY <1>2 DEF CreateReturns
  <2> DEFINE u == [ui EXCEPT !.form = @ \ {l}, !.saving = @ \ {l}]
             v == IF l = "keys" THEN [u EXCEPT !.fresh = x] ELSE u
  <2>2. call[p].pc = "done"
    BY <2>1 DEF Returned
  <2>3. x \in Keys \cup Hooks /\ (l = "keys" => x \in Keys)
    BY <2>1, <2>2 DEF Targets, Lists
  <2>4. u \in Ui
    BY <1>1 DEF Ui
  <2>5. v \in Ui
    BY <2>3, <2>4 DEF Ui
  <2>6. Returned(p, v, l)
    BY <2>1
  <2>7. told' \cup made' \subseteq Keys \cup Hooks
    BY <2>1, <2>3 DEF PartsOK
  <2> HIDE DEF v
  <2> QED
    BY <2>5, <2>6, <2>7, ReturnedOK
<1>3. CASE DeleteReturns(p)
  <2>1. PICK l \in Lists, u \in {ui, [ui EXCEPT !.logsOf = NoHook]} :
          /\ call[p].kind = IF l = "keys" THEN "revokeKey" ELSE "deleteHook"
          /\ Returned(p, u, l)
          /\ told' = told \cup {x} /\ UNCHANGED made
    BY <1>3 DEF DeleteReturns
  <2>2. u \in Ui
    BY <1>1 DEF Ui
  <2>3. x \in Keys \cup Hooks
    BY <2>1 DEF Targets, Returned, Lists
  <2>4. told' \cup made' \subseteq Keys \cup Hooks
    BY <2>1, <2>3 DEF PartsOK
  <2> QED
    BY <2>1, <2>2, <2>4, ReturnedOK
<1>4. CASE PingReturns(p)
  <2> DEFINE v == [ui EXCEPT !.result = x, !.testing = NoHook]
  <2>1. x \in Hooks
    BY <1>4 DEF PingReturns, Returned, Targets
  <2>2. v \in Ui
    BY <1>1, <2>1 DEF Ui
  <2>3. Returned(p, v, "hooks") /\ UNCHANGED <<told, made>>
    BY <1>4 DEF PingReturns
  <2> HIDE DEF v
  <2> QED
    BY <2>2, <2>3, ReturnedOK DEF PartsOK, Lists
<1>5. CASE Fail(p) \/ Lose(p)
  <2> DEFINE c == call[p]
  <2>1. c.kind = "ping" => c.thing \in Hooks
    BY <1>5 DEF Fail, Lose, Awaited, Targets
  <2>2. ui' \in Ui
    <3>1. ui' = Failed(c)
      BY <1>5 DEF Fail, Lose
    <3> QED
      BY <1>1, <2>1, <3>1, FailedOK
  <2>3. call' = [call EXCEPT ![p] = NoCall] \/ call' = [call EXCEPT ![p].lost = TRUE]
    BY <1>5 DEF Fail, Lose
  <2>4. call' \in [Requests -> Call_] /\ Targets'
    <3>1. CASE call' = [call EXCEPT ![p] = NoCall]
      BY <3>1 DEF PartsOK, Targets, Call_, NoCall, Kinds
    <3>2. CASE call' = [call EXCEPT ![p].lost = TRUE]
      <4>1. call' \in [Requests -> Call_]
        BY <3>2 DEF PartsOK, Call_
      <4>2. ASSUME NEW q \in Requests
            PROVE  call'[q].pc = call[q].pc /\ call'[q].kind = call[q].kind /\ call'[q].thing = call[q].thing
        BY <3>2 DEF PartsOK, Call_
      <4> QED
        BY <4>1, <4>2 DEF Targets
    <3> QED
      BY <2>3, <3>1, <3>2
  <2> QED
    BY <1>5, <2>2, <2>4 DEF Fail, Lose, PartsOK
<1>6. CASE Unheard(p)
  <2>1. call' = [call EXCEPT ![p] = NoCall]
    BY <1>6 DEF Unheard
  <2>2. call' \in [Requests -> Call_]
    BY <2>1 DEF PartsOK, Call_, NoCall, Kinds
  <2>3. Targets'
    BY <2>1 DEF PartsOK, Targets, NoCall
  <2> QED
    BY <1>6, <2>2, <2>3 DEF Unheard, PartsOK
<1> QED
  BY <1>2, <1>3, <1>4, <1>5, <1>6 DEF Returning

LEMMA ElsewhereParts ==
  ASSUME PartsOK, Targets, RequestsMatch, Others \/ Restart
  PROVE  PartsOK' /\ Targets'
<1>1. CASE Others
  <2>1. calls' \in 0..MaxCalls /\ clicks' + calls' <= MaxActs
    BY <1>1 DEF Others, Mutate, PartsOK
  <2> QED
    BY <1>1, <2>1 DEF Others, PartsOK, Targets
<1>2. CASE Restart
  <2>1. call \in [Requests -> Call_]
    BY DEF PartsOK
  <2>2. ASSUME NEW p \in Requests
        PROVE  /\ call'[p] \in Call_
               /\ call'[p].kind = call[p].kind /\ call'[p].thing = call[p].thing
               /\ \/ call'[p].pc = call[p].pc
                  \/ ~Idle(p) /\ call'[p].pc = "dead"
    <3>1. call'[p] = IF Idle(p) THEN call[p] ELSE [call[p] EXCEPT !.pc = "dead"]
      BY <1>2 DEF Restart
    <3>2. call[p] \in Call_
      BY <2>1
    <3>3. CASE ~Idle(p)
      <4>1. call'[p] = [call[p] EXCEPT !.pc = "dead"]
        BY <3>1, <3>3
      <4> QED
        BY <3>2, <3>3, <4>1 DEF Call_
    <3>4. CASE Idle(p)
      BY <3>1, <3>2, <3>4
    <3> QED
      BY <3>3, <3>4
  <2>3. call' \in [Requests -> Call_]
    BY <1>2, <2>2 DEF Restart
  <2>4. Targets'
    BY <2>2 DEF Targets, Idle, RequestsMatch
  <2> QED
    BY <1>2, <2>3, <2>4 DEF Restart, PartsOK
<1> QED
  BY <1>1, <1>2

LEMMA PartsStep == PartsOK /\ Targets /\ RequestsMatch /\ [Next]_vars => PartsOK' /\ Targets'
<1> SUFFICES ASSUME PartsOK, Targets, RequestsMatch, [Next]_vars PROVE PartsOK' /\ Targets'
  OBVIOUS
<1>1. CASE UNCHANGED vars
  BY <1>1 DEF vars, PartsOK, Targets
<1>2. CASE Moving
  BY <1>2, MovingParts DEF Targets
<1>3. ASSUME NEW s \in LoadSlots, Serve(s) \/ Answer(s) \/ LoadFails(s)
      PROVE  PartsOK' /\ Targets'
  BY <1>3, LoadParts DEF Targets
<1> QED
  BY <1>1, <1>2, <1>3, MutatingParts, ServingParts, ReturningParts, ElsewhereParts DEF Next

-----------------------------------------------------------------------------
(* Requests at the server and their callers in the modal. *)

LEMMA MatchStep ==
  ASSUME HTypeOK, PartsOK, Targets, RequestsMatch, [Next]_vars
  PROVE  RequestsMatch'
<1>1. /\ call \in [Requests -> Call_]
      /\ ping \in [Requests -> Hooks \cup {NoHook}] /\ doomed \in [Requests -> Hooks \cup {NoHook}]
  BY DEF PartsOK, HTypeOK
<1>2. CASE UNCHANGED <<call, ping, doomed>>
  BY <1>2 DEF RequestsMatch
<1>3. CASE Moving \/ \E s \in LoadSlots : Serve(s) \/ Answer(s) \/ LoadFails(s)
  BY <1>2, <1>3, ModalKeepsHooks, MovingParts, LoadParts DEF hvars
<1>4. CASE Mutating
  <2>1. ping' = ping /\ doomed' = doomed
    BY <1>4, ModalKeepsHooks DEF hvars
  <2> QED
    BY <1>4, <2>1, MutatingParts DEF RequestsMatch
<1>5. ASSUME NEW p \in Requests, Serving(p) PROVE RequestsMatch'
  <2>1. CASE CreatesKey(p) \/ RevokesKey(p) \/ CreatesHook(p)
    <3>1. ping' = ping /\ doomed' = doomed /\ call[p].pc = "sent"
      BY <2>1 DEF CreatesKey, RevokesKey, CreatesHook, CreateHook, hvars
    <3>2. call'[p].pc = "done" /\ \A q \in Requests : q # p => call'[q] = call[q]
      BY <1>1, <2>1 DEF CreatesKey, RevokesKey, CreatesHook, Step, Call_
    <3> QED
      BY <3>1, <3>2 DEF RequestsMatch
  <2>2. CASE Pinging(p)
    <3>1. call[p].thing \in Hooks
      BY <2>2 DEF Pinging, Targets
    <3>2. /\ ping' = [ping EXCEPT ![p] = call[p].thing] /\ doomed' = doomed /\ Idle(p)
          /\ call' = [call EXCEPT ![p].pc = "calling"]
      BY <2>2 DEF Pinging, StartPing, Step
    <3> QED
      BY <1>1, <3>1, <3>2 DEF RequestsMatch, Call_, Idle
  <2>3. CASE Pinged(p)
    <3>1. /\ ping' = [ping EXCEPT ![p] = NoHook] /\ doomed' = doomed /\ call[p].pc = "calling"
          /\ call' = [call EXCEPT ![p].pc = "done"]
      BY <2>3 DEF Pinged, PingRecorded, Step
    <3> QED
      BY <1>1, <3>1 DEF RequestsMatch, Call_
  <2>4. CASE Deleting(p)
    <3>1. call[p].thing \in Hooks
      BY <2>4 DEF Deleting, Targets
    <3>2. /\ doomed' = [doomed EXCEPT ![p] = call[p].thing] /\ ping' = ping /\ Idle(p)
          /\ call' = [call EXCEPT ![p].pc = "deleting"]
      BY <2>4 DEF Deleting, StartDelete, Step
    <3> QED
      BY <1>1, <3>1, <3>2 DEF RequestsMatch, Call_, Idle
  <2>5. CASE DeletesHook(p)
    <3>1. /\ doomed' = [doomed EXCEPT ![p] = NoHook] /\ ping' = ping /\ call[p].pc = "deleting"
          /\ call' = [call EXCEPT ![p].pc = "done"]
      BY <2>5 DEF DeletesHook, DeleteHook, Step
    <3> QED
      BY <1>1, <3>1 DEF RequestsMatch, Call_
  <2> QED
    BY <1>5, <2>1, <2>2, <2>3, <2>4, <2>5 DEF Serving
<1>6. ASSUME NEW p \in Requests, Returning(p) PROVE RequestsMatch'
  <2>1. CASE Lose(p)
    <3>1. call' = [call EXCEPT ![p].lost = TRUE] /\ UNCHANGED <<ping, doomed>>
      BY <2>1 DEF Lose, hvars
    <3> QED
      BY <1>1, <3>1 DEF RequestsMatch, Call_
  <2>2. CASE ~Lose(p)
    <3>1. call' = [call EXCEPT ![p] = NoCall]
      BY <1>6, <2>2 DEF Returning, CreateReturns, DeleteReturns, PingReturns, Returned, Fail, Unheard
    <3>2. call'[p].pc = "free" /\ \A q \in Requests : q # p => call'[q] = call[q]
      BY <1>1, <3>1 DEF NoCall
    <3>3. /\ ping'[p] = NoHook /\ \A q \in Requests : q # p => ping'[q] = ping[q]
          /\ doomed'[p] = NoHook /\ \A q \in Requests : q # p => doomed'[q] = doomed[q]
      <4>1. CASE CreateReturns(p) \/ DeleteReturns(p) \/ PingReturns(p)
        <5>1. ping' = ping /\ doomed' = doomed /\ call[p].pc = "done"
          BY <4>1 DEF CreateReturns, DeleteReturns, PingReturns, Returned, hvars
        <5> QED
          BY <5>1 DEF RequestsMatch
      <4>2. CASE Fail(p) \/ Unheard(p)
        <5>1. CASE ping[p] # NoHook
          <6>1. doomed[p] = NoHook
            BY <5>1 DEF RequestsMatch
          <6>2. ping' = [ping EXCEPT ![p] = NoHook] /\ doomed' = doomed
            BY <4>2, <5>1, <6>1 DEF Fail, Unheard, PingFails
          <6> QED
            BY <1>1, <6>1, <6>2
        <5>2. CASE ping[p] = NoHook /\ doomed[p] # NoHook
          <6>1. doomed' = [doomed EXCEPT ![p] = NoHook] /\ ping' = ping
            BY <4>2, <5>2 DEF Fail, Unheard, DeleteFails
          <6> QED
            BY <1>1, <5>2, <6>1
        <5>3. CASE ping[p] = NoHook /\ doomed[p] = NoHook
          BY <4>2, <5>3 DEF Fail, Unheard, hvars
        <5> QED
          BY <5>1, <5>2, <5>3
      <4> QED
        BY <1>6, <2>2, <4>1, <4>2 DEF Returning
    <3> QED
      BY <3>2, <3>3 DEF RequestsMatch
  <2> QED
    BY <2>1, <2>2
<1>7. CASE Others
  BY <1>2, <1>7 DEF Others, Dispatching, Call, Record, Finish, Publish, UpdateHook
<1>8. CASE Restart
  <2>1. \A p \in Requests : ping'[p] = NoHook /\ doomed'[p] = NoHook
    BY <1>8 DEF Restart, Crash
  <2>2. \A p \in Requests : call'[p].pc \notin {"calling", "deleting"}
    BY <1>1, <1>8 DEF Restart, Call_, Idle, RequestsMatch
  <2> QED
    BY <2>1, <2>2 DEF RequestsMatch
<1> QED
  BY <1>2, <1>3, <1>4, <1>5, <1>6, <1>7, <1>8 DEF Next, vars

-----------------------------------------------------------------------------
(* The sign of a test ping under way. *)

IsPing(c, h) == Awaited(c) /\ c.kind = "ping" /\ c.thing = h

\* A step that leaves the sign alone and every ping that is under way keeps the sign truthful.
LEMMA SpinnerKept ==
  ASSUME SpinnerTruthful, ui'.testing = ui.testing,
         \A p \in Requests : \A h \in Hooks : IsPing(call[p], h) => IsPing(call'[p], h),
         ui \in Ui
  PROVE  SpinnerTruthful'
<1>1. ui.testing \in Hooks \cup {NoHook}
  BY DEF Ui
<1> QED
  BY <1>1 DEF SpinnerTruthful, IsPing

LEMMA LoadingKeepsSign ==
  ASSUME NEW x \in Ui, NEW l \in Lists, Loading(x, l)
  PROVE  ui'.testing = x.testing
  BY DEF Loading, Ui

LEMMA MovingKeepsSign ==
  ASSUME ui \in Ui, Moving
  PROVE  ui'.testing = ui.testing
<1>1. ASSUME NEW x \in Ui, Show(x) PROVE ui'.testing = x.testing
  <2>1. x.at \in Lists \/ x.at = "export"
    BY DEF Ui, Lists
  <2> QED
    BY <1>1, <2>1, LoadingKeepsSign DEF Show, Lists
<1>2. CASE Open
  <2> DEFINE x == [ui EXCEPT !.open = TRUE]
  <2>1. x \in Ui /\ x.testing = ui.testing /\ Show(x)
    BY <1>2 DEF Open, Ui
  <2> QED
    BY <1>1, <2>1
<1>3. CASE ChooseTab
  <2>1. PICK t \in {"keys", "hooks", "export"} : Show([ui EXCEPT !.at = t])
    BY <1>3 DEF ChooseTab
  <2>2. [ui EXCEPT !.at = t] \in Ui /\ [ui EXCEPT !.at = t].testing = ui.testing
    BY DEF Ui
  <2> QED
    BY <1>1, <2>1, <2>2
<1>4. CASE Close \/ OpenForm \/ CloseForm \/ ViewLogs \/ FoldLogs
  BY <1>4 DEF Close, OpenForm, CloseForm, ViewLogs, FoldLogs, Only, Ui
<1> QED
  BY <1>2, <1>3, <1>4 DEF Moving

LEMMA SpinnerStep ==
  ASSUME CInv, SpinnerTruthful, [Next]_vars
  PROVE  SpinnerTruthful'
<1>1. ui \in Ui /\ call \in [Requests -> Call_]
  BY DEF CInv, PartsOK
<1>2. ASSUME ui'.testing = ui.testing, call' = call PROVE SpinnerTruthful'
  BY <1>1, <1>2, SpinnerKept
<1>3. CASE Moving
  BY <1>1, <1>2, <1>3, MovingKeepsSign, MovingParts DEF CInv
<1>4. ASSUME NEW s \in LoadSlots, Serve(s) \/ Answer(s) \/ LoadFails(s) PROVE SpinnerTruthful'
  <2>1. ui'.testing = ui.testing
    <3>1. CASE Serve(s)
      BY <3>1 DEF Serve
    <3>2. CASE Answer(s)
      BY <1>1, <3>2 DEF Answer, Ui
    <3>3. CASE LoadFails(s)
      BY <1>1, <3>3 DEF LoadFails, Ui
    <3> QED
      BY <1>4, <3>1, <3>2, <3>3
  <2> QED
    BY <1>2, <1>4, <2>1, LoadParts DEF CInv
<1>5. ASSUME NEW k \in Kinds, NEW x, NEW u \in Ui, Send(k, x, u),
             u.testing = ui.testing \/ (k = "ping" /\ u.testing = x)
      PROVE  SpinnerTruthful'
  <2>1. PICK p \in Requests :
          /\ call[p].pc = "free"
          /\ call' = [call EXCEPT ![p] = [pc |-> "sent", kind |-> k, thing |-> x,
                                          logsOf |-> ui.logsOf, lost |-> FALSE]]
    BY <1>5 DEF Send
  <2>2. ui' = u
    BY <1>5 DEF Send
  <2>3. /\ \A q \in Requests : q # p => call'[q] = call[q]
        /\ call'[p].pc = "sent" /\ call'[p].kind = k /\ call'[p].thing = x /\ ~call'[p].lost
    BY <1>1, <2>1
  <2>4. CASE u.testing = ui.testing
    BY <1>1, <2>1, <2>2, <2>3, <2>4, SpinnerKept DEF IsPing, Awaited
  <2>5. CASE k = "ping" /\ u.testing = x
    BY <2>2, <2>3, <2>5 DEF SpinnerTruthful, Awaited
  <2> QED
    BY <1>5, <2>4, <2>5
<1>6. CASE Mutating
  <2>1. ASSUME NEW l \in Lists, Submit(l) PROVE SpinnerTruthful'
    <3> DEFINE u == [ui EXCEPT !.saving = @ \cup {l}]
    <3>1. u \in Ui /\ u.testing = ui.testing
      BY <1>1 DEF Ui
    <3>2. PICK k \in Kinds : Send(k, NoHook, u)
      BY <2>1 DEF Submit, Kinds
    <3> HIDE DEF u
    <3> QED
      BY <1>5, <3>1, <3>2
  <2>2. CASE Revoke \/ Delete
    <3>1. PICK k \in Kinds, x \in Keys \cup Hooks : Send(k, x, ui)
      BY <2>2 DEF Revoke, Delete, Kinds
    <3> QED
      BY <1>1, <1>5, <3>1
  <2>3. CASE TestPing
    <3>1. PICK h \in Hooks : Send("ping", h, [ui EXCEPT !.testing = h, !.result = NoHook])
      BY <2>3 DEF TestPing
    <3>2. /\ [ui EXCEPT !.testing = h, !.result = NoHook] \in Ui
          /\ [ui EXCEPT !.testing = h, !.result = NoHook].testing = h
      BY <1>1 DEF Ui
    <3> QED
      BY <1>5, <3>1, <3>2 DEF Kinds
  <2> QED
    BY <1>6, <2>1, <2>2, <2>3 DEF Mutating
<1>7. ASSUME NEW p \in Requests, Serving(p) PROVE SpinnerTruthful'
  <2>1. ui' = ui
    BY <1>7 DEF Serving, CreatesKey, RevokesKey, CreatesHook, Deleting, DeletesHook, Pinging, Pinged, Step
  <2>2. CASE CreatesKey(p) \/ CreatesHook(p)
    <3>1. call[p].kind # "ping" /\ \A q \in Requests : q # p => call'[q] = call[q]
      BY <1>1, <2>2 DEF CreatesKey, CreatesHook
    <3> QED
      BY <1>1, <2>1, <3>1, SpinnerKept DEF IsPing
  <2>3. CASE RevokesKey(p) \/ Deleting(p) \/ DeletesHook(p) \/ Pinging(p) \/ Pinged(p)
    <3>1. PICK pc \in {"done", "calling", "deleting"} : call' = [call EXCEPT ![p].pc = pc]
      BY <2>3 DEF RevokesKey, Deleting, DeletesHook, Pinging, Pinged, Step
    <3>2. /\ \A q \in Requests : q # p => call'[q] = call[q]
          /\ call'[p].pc # "free" /\ call'[p].kind = call[p].kind /\ call'[p].thing = call[p].thing
          /\ call'[p].lost = call[p].lost
      BY <1>1, <3>1 DEF Call_
    <3> QED
      BY <1>1, <2>1, <3>2, SpinnerKept DEF IsPing, Awaited
  <2> QED
    BY <1>7, <2>2, <2>3 DEF Serving
<1>8. ASSUME NEW p \in Requests, Returning(p) PROVE SpinnerTruthful'
  <2>1. call' = [call EXCEPT ![p] = NoCall] \/ call' = [call EXCEPT ![p].lost = TRUE]
    BY <1>8 DEF Returning, CreateReturns, DeleteReturns, PingReturns, Returned, Fail, Lose, Unheard
  <2>2. \A q \in Requests : q # p => call'[q] = call[q]
    BY <1>1, <2>1
  <2>3. ASSUME call[p].kind # "ping", ui'.testing = ui.testing PROVE SpinnerTruthful'
    BY <1>1, <2>2, <2>3, SpinnerKept DEF IsPing
  <2>4. CASE CreateReturns(p)
    <3>1. PICK l \in Lists, u \in Ui :
            Returned(p, u, l) /\ u.testing = ui.testing /\ call[p].kind # "ping"
      <4>1. PICK l \in Lists :
              LET u == [ui EXCEPT !.form = @ \ {l}, !.saving = @ \ {l}] IN
              /\ call[p].kind = IF l = "keys" THEN "createKey" ELSE "createHook"
              /\ Returned(p, IF l = "keys" THEN [u EXCEPT !.fresh = call[p].thing] ELSE u, l)
        BY <2>4 DEF CreateReturns
      <4> DEFINE u == [ui EXCEPT !.form = @ \ {l}, !.saving = @ \ {l}]
                 v == IF l = "keys" THEN [u EXCEPT !.fresh = call[p].thing] ELSE u
      <4>2. l = "keys" => call[p].thing \in Keys
        BY <4>1 DEF CInv, Targets, Returned
      <4>3. u \in Ui /\ u.testing = ui.testing
        BY <1>1 DEF Ui
      <4>4. v \in Ui /\ v.testing = ui.testing
        BY <4>2, <4>3 DEF Ui
      <4>5. Returned(p, v, l) /\ call[p].kind # "ping"
        BY <4>1
      <4> HIDE DEF v
      <4> QED
        BY <4>4, <4>5
    <3> QED
      BY <2>3, <3>1, LoadingKeepsSign DEF Returned
  <2>5. CASE DeleteReturns(p)
    <3>1. PICK l \in Lists, u \in {ui, [ui EXCEPT !.logsOf = NoHook]} :
            Returned(p, u, l) /\ call[p].kind # "ping"
      BY <2>5 DEF DeleteReturns
    <3>2. u \in Ui /\ u.testing = ui.testing
      BY <1>1 DEF Ui
    <3> QED
      BY <2>3, <3>1, <3>2, LoadingKeepsSign DEF Returned
  <2>6. CASE PingReturns(p)
    <3> DEFINE v == [ui EXCEPT !.result = call[p].thing, !.testing = NoHook]
    <3>1. Returned(p, v, "hooks") /\ call[p].thing \in Hooks
      BY <2>6 DEF PingReturns, Returned, CInv, Targets
    <3>2. v \in Ui /\ v.testing = NoHook
      BY <1>1, <3>1 DEF Ui
    <3> HIDE DEF v
    <3>3. ui'.testing = NoHook
      BY <3>1, <3>2, LoadingKeepsSign DEF Returned, Lists
    <3> QED
      BY <3>3 DEF SpinnerTruthful
  <2>7. CASE Fail(p) \/ Lose(p)
    <3>1. ui' = Failed(call[p])
      BY <2>7 DEF Fail, Lose
    <3>2. CASE call[p].kind = "ping"
      BY <1>1, <3>1, <3>2 DEF Failed, Ui, SpinnerTruthful
    <3>3. CASE call[p].kind \in {"createKey", "createHook"}
      <4>1. \E l \in Lists : ui' = [ui EXCEPT !.saving = @ \ {l}]
        BY <3>1, <3>3 DEF Failed, Lists
      <4> QED
        BY <1>1, <2>3, <3>3, <4>1 DEF Ui
    <3>4. CASE call[p].kind \notin {"createKey", "createHook", "ping"}
      <4>1. ui' = ui
        BY <3>1, <3>4 DEF Failed
      <4> QED
        BY <2>3, <3>4, <4>1
    <3> QED
      BY <3>2, <3>3, <3>4
  <2>8. CASE Unheard(p)
    <3>1. ui' = ui /\ call[p].lost
      BY <2>8 DEF Unheard
    <3> QED
      BY <1>1, <2>2, <3>1, SpinnerKept DEF IsPing, Awaited
  <2> QED
    BY <1>8, <2>4, <2>5, <2>6, <2>7, <2>8 DEF Returning
<1>9. CASE Others
  BY <1>2, <1>9 DEF Others
<1>10. CASE Restart
  <2>1. \A q \in Requests : \A h \in Hooks : IsPing(call[q], h) => IsPing(call'[q], h)
    <3>1. ASSUME NEW q \in Requests, NEW h \in Hooks, IsPing(call[q], h) PROVE IsPing(call'[q], h)
      <4>1. call[q] \in Call_
        BY <1>1
      <4>2. CASE ~Idle(q)
        <5>1. call'[q] = [call[q] EXCEPT !.pc = "dead"]
          BY <1>10, <4>2 DEF Restart
        <5> QED
          BY <3>1, <4>1, <5>1 DEF IsPing, Awaited, Call_
      <4>3. CASE Idle(q)
        BY <1>10, <3>1, <4>3 DEF Restart
      <4> QED
        BY <4>2, <4>3
    <3> QED
      BY <3>1
  <2> QED
    BY <1>1, <1>10, <2>1, SpinnerKept DEF Restart
<1>11. CASE UNCHANGED vars
  BY <1>2, <1>11 DEF vars
<1> QED
  BY <1>3, <1>4, <1>6, <1>7, <1>8, <1>9, <1>10, <1>11 DEF Next

-----------------------------------------------------------------------------
(* What a step does to what is on display, to the loads and to the calls. *)

\* A GET is sent from a free slot, and is the newest of its kind.
LEMMA AskFields ==
  ASSUME PartsOK, NEW s \in LoadSlots, NEW k \in {"keys", "hooks", "logs"}, NEW h, Ask(s, k, h)
  PROVE  /\ load'[s].pc = "asked" /\ load'[s].kind = k /\ load'[s].of = h /\ load'[s].got = {}
         /\ \A t \in LoadSlots : t # s => load'[t] = load[t]
         /\ newest'[k].at = s /\ ~newest'[k].last
         /\ \A j \in {"keys", "hooks", "logs"} : j # k => newest'[j] = newest[j]
<1>1. load'[s] = [pc |-> "asked", kind |-> k, of |-> h, got |-> {}]
  BY DEF Ask, PartsOK
<1>2. newest'[k] = [at |-> s, last |-> FALSE]
  BY DEF Ask, PartsOK
<1>3. \A t \in LoadSlots : t # s => load'[t] = load[t]
  BY DEF Ask, PartsOK
<1>4. \A j \in {"keys", "hooks", "logs"} : j # k => newest'[j] = newest[j]
  BY DEF Ask, PartsOK
<1> QED
  BY <1>1, <1>2, <1>3, <1>4

\* A form creates one kind of thing, a list's buttons remove that kind.
Creates(l) == IF l = "keys" THEN "createKey" ELSE "createHook"
Removes(l) == IF l = "keys" THEN "revokeKey" ELSE "deleteHook"

\* What is on display stays; x is the modal before a list is loaded again.
Looks(x) == ui'.shown = x.shown /\ ui'.saving = x.saving /\ ui'.logs = x.logs /\ ui'.logsOf = x.logsOf
AsksList == \E l \in Lists, s \in LoadSlots : Ask(s, l, NoHook)

\* Moving about calls nobody, and changes at most what is unfolded and what is loading.
Moved ==
  /\ UNCHANGED <<key, call, told, made>>
  /\ ui'.shown = ui.shown /\ ui'.saving = ui.saving /\ ui'.logs = ui.logs
  /\ \/ UNCHANGED <<load, newest>> /\ ui'.logsOf \in {ui.logsOf, NoHook}
     \/ ui'.logsOf = ui.logsOf /\ AsksList
     \/ \E s \in LoadSlots : Ask(s, "logs", ui'.logsOf)

\* Call p is sent, one of kind k, and if k creates in list l its form's button is disabled.
Sent(p, k) ==
  /\ call[p].pc = "free" /\ call'[p].pc = "sent" /\ call'[p].kind = k /\ ~call'[p].lost
  /\ \A q \in Requests : q # p => call'[q] = call[q]
  /\ \A l \in Lists : /\ l \in ui'.saving <=> l \in ui.saving \/ k = Creates(l)
                      /\ k = Creates(l) => l \notin ui.saving
Mutated ==
  /\ UNCHANGED <<key, load, newest, told, made>>
  /\ ui'.shown = ui.shown /\ ui'.logs = ui.logs /\ ui'.logsOf = ui.logsOf
  /\ \E p \in Requests, k \in Kinds : Sent(p, k)

\* Call p is back, or lost: the button of its form, if it was awaited, is enabled again; unless
\* it failed, its list is loaded again and what it did is known.
Back(p) ==
  /\ \/ call' = [call EXCEPT ![p] = NoCall]
     \/ call' = [call EXCEPT ![p].lost = TRUE] /\ call[p].pc # "done"
  /\ UNCHANGED <<key, hook>>
  /\ ui'.shown = ui.shown /\ ui'.logs = ui.logs /\ ui'.logsOf \in {ui.logsOf, NoHook}
  /\ \A l \in Lists : l \in ui'.saving <=> l \in ui.saving /\ ~(Awaited(call[p]) /\ call[p].kind = Creates(l))
  /\ \/ UNCHANGED <<load, newest, told, made>>
     \/ /\ call[p].pc = "done"
        /\ \E l \in Lists, s \in LoadSlots :
             /\ Ask(s, l, NoHook)
             /\ \/ call[p].kind = Creates(l) /\ made' = made \cup {call[p].thing} /\ UNCHANGED told
                \/ call[p].kind = Removes(l) /\ told' = told \cup {call[p].thing} /\ UNCHANGED made
                \/ UNCHANGED <<told, made>>

LEMMA LoadingFields ==
  ASSUME NEW x \in Ui, NEW l \in Lists, Loading(x, l)
  PROVE  Looks(x) /\ \E s \in LoadSlots : Ask(s, l, NoHook)
BY DEF Loading, Looks, Ui

LEMMA MovingFields ==
  ASSUME PartsOK, Moving
  PROVE  Moved
<1>1. UNCHANGED <<key, call, told, made>>
  BY DEF Moving, Open, ChooseTab, Show, Close, OpenForm, CloseForm, Only, ViewLogs, FoldLogs
<1>2. ui \in Ui
  BY DEF PartsOK
<1>3. ASSUME NEW x \in Ui, x.shown = ui.shown, x.saving = ui.saving, x.logs = ui.logs, x.logsOf = ui.logsOf, Show(x)
      PROVE  Moved
  <2>1. CASE x.at = "export"
    BY <1>1, <1>3, <2>1 DEF Show, Moved
  <2>2. CASE x.at # "export"
    <3>1. x.at \in Lists /\ Loading(x, x.at)
      BY <1>3, <2>2 DEF Show, Ui, Lists
    <3> QED
      BY <1>1, <1>3, <3>1, LoadingFields DEF Moved, Looks, AsksList
  <2> QED
    BY <2>1, <2>2
<1>4. CASE Open
  <2> DEFINE x == [ui EXCEPT !.open = TRUE]
  <2>1. x \in Ui /\ x.shown = ui.shown /\ x.saving = ui.saving /\ x.logs = ui.logs /\ x.logsOf = ui.logsOf
    BY <1>2 DEF Ui
  <2>2. Show(x)
    BY <1>4 DEF Open
  <2> HIDE DEF x
  <2> QED
    BY <1>3, <2>1, <2>2
<1>5. CASE ChooseTab
  <2>1. PICK t \in {"keys", "hooks", "export"} : Show([ui EXCEPT !.at = t])
    BY <1>5 DEF ChooseTab
  <2> DEFINE x == [ui EXCEPT !.at = t]
  <2>2. x \in Ui /\ x.shown = ui.shown /\ x.saving = ui.saving /\ x.logs = ui.logs /\ x.logsOf = ui.logsOf
    BY <1>2 DEF Ui
  <2>3. Show(x)
    BY <2>1
  <2> HIDE DEF x
  <2> QED
    BY <1>3, <2>2, <2>3
<1>6. CASE Close \/ OpenForm \/ CloseForm \/ FoldLogs
  <2>1. UNCHANGED <<load, newest>>
    BY <1>6 DEF Close, OpenForm, CloseForm, FoldLogs, Only
  <2>2. /\ ui'.shown = ui.shown /\ ui'.saving = ui.saving /\ ui'.logs = ui.logs
        /\ ui'.logsOf \in {ui.logsOf, NoHook}
    BY <1>2, <1>6 DEF Close, OpenForm, CloseForm, FoldLogs, Only, Ui
  <2> QED
    BY <1>1, <2>1, <2>2 DEF Moved
<1>7. CASE ViewLogs
  <2>1. PICK h \in Hooks, s \in LoadSlots :
          Ask(s, "logs", h) /\ ui' = [ui EXCEPT !.logsOf = h, !.waiting = @ \cup {"logs"}]
    BY <1>7 DEF ViewLogs
  <2>2. ui'.shown = ui.shown /\ ui'.saving = ui.saving /\ ui'.logs = ui.logs /\ ui'.logsOf = h
    BY <1>2, <2>1 DEF Ui
  <2> QED
    BY <1>1, <2>1, <2>2 DEF Moved
<1> QED
  BY <1>4, <1>5, <1>6, <1>7 DEF Moving

\* A call that is sent takes a free place, and leaves what is on display alone.
LEMMA SendFields ==
  ASSUME PartsOK, NEW k \in Kinds, NEW x, NEW u \in Ui, Send(k, x, u),
         u.shown = ui.shown, u.logs = ui.logs, u.logsOf = ui.logsOf,
         \A l \in Lists : /\ l \in u.saving <=> l \in ui.saving \/ k = Creates(l)
                          /\ k = Creates(l) => l \notin ui.saving
  PROVE  Mutated
<1>1. PICK p \in Requests :
        /\ call[p].pc = "free"
        /\ call' = [call EXCEPT ![p] = [pc |-> "sent", kind |-> k, thing |-> x, logsOf |-> ui.logsOf, lost |-> FALSE]]
  BY DEF Send
<1>2. /\ call'[p] = [pc |-> "sent", kind |-> k, thing |-> x, logsOf |-> ui.logsOf, lost |-> FALSE]
      /\ \A q \in Requests : q # p => call'[q] = call[q]
  BY <1>1 DEF PartsOK
<1>3. ui' = u /\ UNCHANGED <<key, load, newest, told, made>>
  BY DEF Send
<1>4. Sent(p, k)
  BY <1>1, <1>2, <1>3 DEF Sent
<1> QED
  BY <1>3, <1>4 DEF Mutated

LEMMA MutatingFields ==
  ASSUME PartsOK, Mutating
  PROVE  Mutated
<1>1. ui \in Ui
  BY DEF PartsOK
<1>2. ASSUME NEW j \in Lists, Submit(j) PROVE Mutated
  <2> DEFINE u == [ui EXCEPT !.saving = @ \cup {j}]
             k == Creates(j)
  <2>1. /\ u \in Ui /\ u.shown = ui.shown /\ u.logs = ui.logs /\ u.logsOf = ui.logsOf
        /\ u.saving = ui.saving \cup {j}
    BY <1>1 DEF Ui
  <2>2. Send(k, NoHook, u) /\ j \notin ui.saving /\ k \in Kinds
    BY <1>2 DEF Submit, Creates, Kinds
  <2>3. \A l \in Lists : k = Creates(l) <=> l = j
    BY DEF Creates, Lists
  <2> HIDE DEF u, k
  <2> QED
    BY <2>1, <2>2, <2>3, SendFields
<1>3. ASSUME NEW k \in Kinds \ {"createKey", "createHook"}, NEW x, Send(k, x, ui) PROVE Mutated
  BY <1>1, <1>3, SendFields DEF Creates
<1>4. CASE Revoke \/ Delete
  BY <1>3, <1>4 DEF Revoke, Delete, Kinds
<1>5. CASE TestPing
  <2>1. PICK h \in Hooks : Send("ping", h, [ui EXCEPT !.testing = h, !.result = NoHook])
    BY <1>5 DEF TestPing
  <2> DEFINE u == [ui EXCEPT !.testing = h, !.result = NoHook]
  <2>2. u \in Ui /\ u.shown = ui.shown /\ u.logs = ui.logs /\ u.logsOf = ui.logsOf /\ u.saving = ui.saving
    BY <1>1 DEF Ui
  <2>3. Send("ping", h, u)
    BY <2>1
  <2> HIDE DEF u
  <2> QED
    BY <2>2, <2>3, SendFields DEF Creates, Kinds
<1> QED
  BY <1>2, <1>4, <1>5 DEF Mutating

LEMMA ReturningFields ==
  ASSUME PartsOK, Targets, NEW p \in Requests, Returning(p)
  PROVE  Back(p)
<1> DEFINE x == call[p].thing
<1>1. ui \in Ui /\ call[p] \in Call_
  BY DEF PartsOK
<1>2. CASE CreateReturns(p)
  <2>1. PICK l \in Lists :
          LET u == [ui EXCEPT !.form = @ \ {l}, !.saving = @ \ {l}] IN
          /\ call[p].kind = IF l = "keys" THEN "createKey" ELSE "createHook"
          /\ Returned(p, IF l = "keys" THEN [u EXCEPT !.fresh = x] ELSE u, l)
          /\ made' = made \cup {x} /\ UNCHANGED told
    BY <1>2 DEF CreateReturns
  <2> DEFINE u == [ui EXCEPT !.form = @ \ {l}, !.saving = @ \ {l}]
             v == IF l = "keys" THEN [u EXCEPT !.fresh = x] ELSE u
  <2>2. call[p].pc = "done" /\ call[p].kind = Creates(l) /\ Awaited(call[p])
    BY <2>1 DEF Returned, Creates, Awaited
  <2>3. l = "keys" => x \in Keys
    BY <2>1, <2>2 DEF Targets, Creates
  <2>4. /\ u \in Ui /\ u.shown = ui.shown /\ u.logs = ui.logs /\ u.logsOf = ui.logsOf
        /\ u.saving = ui.saving \ {l}
    BY <1>1 DEF Ui
  <2>5. /\ v \in Ui /\ v.shown = ui.shown /\ v.logs = ui.logs /\ v.logsOf = ui.logsOf
        /\ v.saving = ui.saving \ {l}
    BY <2>3, <2>4 DEF Ui
  <2>6. Returned(p, v, l)
    BY <2>1
  <2>7. \A j \in Lists : call[p].kind # Creates(j) <=> j # l
    BY <2>2 DEF Creates, Lists
  <2> HIDE DEF v
  <2>8. Looks(v) /\ \E s \in LoadSlots : Ask(s, l, NoHook)
    BY <2>5, <2>6, LoadingFields DEF Returned
  <2>9. call' = [call EXCEPT ![p] = NoCall] /\ UNCHANGED <<key, hook>>
    BY <2>6 DEF Returned, hvars
  <2> QED
    BY <2>1, <2>2, <2>5, <2>7, <2>8, <2>9 DEF Back, Looks
<1>3. CASE DeleteReturns(p)
  <2>1. PICK l \in Lists, u \in {ui, [ui EXCEPT !.logsOf = NoHook]} :
          /\ call[p].kind = IF l = "keys" THEN "revokeKey" ELSE "deleteHook"
          /\ Returned(p, u, l)
          /\ told' = told \cup {x} /\ UNCHANGED made
    BY <1>3 DEF DeleteReturns
  <2>2. /\ u \in Ui /\ u.shown = ui.shown /\ u.logs = ui.logs /\ u.logsOf \in {ui.logsOf, NoHook}
        /\ u.saving = ui.saving
    BY <1>1 DEF Ui
  <2>3. call[p].pc = "done" /\ call[p].kind = Removes(l) /\ \A j \in Lists : call[p].kind # Creates(j)
    BY <2>1 DEF Returned, Removes, Creates
  <2>4. Looks(u) /\ \E s \in LoadSlots : Ask(s, l, NoHook)
    BY <2>1, <2>2, LoadingFields DEF Returned
  <2>5. call' = [call EXCEPT ![p] = NoCall] /\ UNCHANGED <<key, hook>>
    BY <2>1 DEF Returned, hvars
  <2> QED
    BY <2>1, <2>2, <2>3, <2>4, <2>5 DEF Back, Looks
<1>4. CASE PingReturns(p)
  <2> DEFINE v == [ui EXCEPT !.result = x, !.testing = NoHook]
  <2>1. call[p].pc = "done" /\ call[p].kind = "ping" /\ x \in Hooks
    BY <1>4 DEF PingReturns, Returned, Targets
  <2>2. /\ v \in Ui /\ v.shown = ui.shown /\ v.logs = ui.logs /\ v.logsOf = ui.logsOf
        /\ v.saving = ui.saving
    BY <1>1, <2>1 DEF Ui
  <2>3. Returned(p, v, "hooks") /\ UNCHANGED <<told, made>> /\ "hooks" \in Lists
    BY <1>4 DEF PingReturns, Lists
  <2> HIDE DEF v
  <2>4. Looks(v) /\ AsksList
    BY <2>2, <2>3, LoadingFields DEF Returned, AsksList
  <2>5. call' = [call EXCEPT ![p] = NoCall] /\ UNCHANGED <<key, hook>>
    BY <2>3 DEF Returned, hvars
  <2>6. \A j \in Lists : call[p].kind # Creates(j)
    BY <2>1 DEF Creates
  <2> QED
    BY <2>1, <2>2, <2>3, <2>4, <2>5, <2>6 DEF Back, Looks, AsksList
<1>5. CASE Fail(p) \/ Lose(p)
  <2>1. /\ UNCHANGED <<key, load, newest, told, made>> /\ ui' = Failed(call[p]) /\ Awaited(call[p])
        /\ \/ call' = [call EXCEPT ![p] = NoCall]
           \/ call' = [call EXCEPT ![p].lost = TRUE] /\ call[p].pc # "done"
    BY <1>5 DEF Fail, Lose
  <2>2. UNCHANGED hook
    BY <1>5 DEF Fail, Lose, PingFails, DeleteFails, hvars
  <2>3. /\ ui'.shown = ui.shown /\ ui'.logs = ui.logs /\ ui'.logsOf = ui.logsOf
        /\ \A l \in Lists : l \in ui'.saving <=> l \in ui.saving /\ call[p].kind # Creates(l)
    <3>1. CASE \E j \in Lists : call[p].kind = Creates(j)
      <4>1. PICK j \in Lists : call[p].kind = Creates(j)
        BY <3>1
      <4>2. ui' = [ui EXCEPT !.saving = @ \ {j}]
        BY <2>1, <4>1 DEF Failed, Creates, Lists
      <4>3. \A l \in Lists : call[p].kind = Creates(l) <=> l = j
        BY <4>1 DEF Creates, Lists
      <4> QED
        BY <1>1, <4>2, <4>3 DEF Ui
    <3>2. CASE call[p].kind = "ping"
      BY <1>1, <2>1, <3>2 DEF Failed, Creates, Ui
    <3>3. CASE call[p].kind \in {"revokeKey", "deleteHook"}
      <4>1. ui' = ui
        BY <2>1, <3>3 DEF Failed
      <4> QED
        BY <3>3, <4>1 DEF Creates
    <3> QED
      BY <1>1, <3>1, <3>2, <3>3 DEF Call_, Kinds, Creates, Lists
  <2> QED
    BY <2>1, <2>2, <2>3 DEF Back
<1>6. CASE Unheard(p)
  <2>1. /\ call' = [call EXCEPT ![p] = NoCall] /\ UNCHANGED <<key, ui, load, newest, told, made>>
        /\ ~Awaited(call[p])
    BY <1>6 DEF Unheard, Awaited
  <2>2. UNCHANGED hook
    BY <1>6 DEF Unheard, PingFails, DeleteFails, hvars
  <2> QED
    BY <2>1, <2>2 DEF Back
<1> QED
  BY <1>2, <1>3, <1>4, <1>5, <1>6 DEF Returning

\* The server goes on with a call and changes nothing of the modal.
Worked(p) ==
  /\ UNCHANGED <<ui, load, newest, told, made>>
  /\ call[p].pc # "free" /\ call'[p].pc \in {"done", "calling", "deleting"}
  /\ call'[p].kind = call[p].kind /\ call'[p].lost = call[p].lost
  /\ \A q \in Requests : q # p => call'[q] = call[q]

LEMMA ServingFields ==
  ASSUME PartsOK, NEW p \in Requests, Serving(p)
  PROVE  Worked(p)
<1>1. call \in [Requests -> Call_]
  BY DEF PartsOK
<1>2. UNCHANGED <<ui, load, newest, told, made>>
  BY DEF Serving, CreatesKey, RevokesKey, CreatesHook, Deleting, DeletesHook, Pinging, Pinged, Step
<1>3. call[p].pc # "free"
  BY DEF Serving, CreatesKey, RevokesKey, CreatesHook, Deleting, DeletesHook, Pinging, Pinged
<1>4. CASE CreatesKey(p) \/ CreatesHook(p)
  <2>1. PICK x : call' = [call EXCEPT ![p].pc = "done", ![p].thing = x]
    BY <1>4 DEF CreatesKey, CreatesHook
  <2> QED
    BY <1>1, <1>2, <1>3, <2>1 DEF Worked, Call_
<1>5. CASE RevokesKey(p) \/ Deleting(p) \/ DeletesHook(p) \/ Pinging(p) \/ Pinged(p)
  <2>1. PICK pc \in {"done", "calling", "deleting"} : call' = [call EXCEPT ![p].pc = pc]
    BY <1>5 DEF RevokesKey, Deleting, DeletesHook, Pinging, Pinged, Step
  <2> QED
    BY <1>1, <1>2, <1>3, <2>1 DEF Worked, Call_
<1> QED
  BY <1>4, <1>5 DEF Serving

\* A restart kills calls, the others' work leaves them alone.
Survived ==
  /\ UNCHANGED <<key, ui, load, newest, told, made>>
  /\ \A p \in Requests :
       \/ call'[p] = call[p]
       \/ /\ call[p].pc \in {"calling", "deleting"} /\ call'[p].pc = "dead"
          /\ call'[p].kind = call[p].kind /\ call'[p].lost = call[p].lost

LEMMA ElsewhereFields ==
  ASSUME PartsOK, RequestsMatch, Others \/ Restart \/ UNCHANGED vars
  PROVE  Survived
<1>1. CASE Others \/ UNCHANGED vars
  BY <1>1 DEF Others, vars, Survived
<1>2. CASE Restart
  <2>1. ASSUME NEW p \in Requests
        PROVE  \/ call'[p] = call[p]
               \/ /\ call[p].pc \in {"calling", "deleting"} /\ call'[p].pc = "dead"
                  /\ call'[p].kind = call[p].kind /\ call'[p].lost = call[p].lost
    <3>1. call[p] \in Call_
      BY DEF PartsOK
    <3>2. CASE ~Idle(p)
      <4>1. call'[p] = [call[p] EXCEPT !.pc = "dead"]
        BY <1>2, <3>2 DEF Restart
      <4>2. call[p].pc \in {"calling", "deleting"}
        BY <3>2 DEF Idle, RequestsMatch
      <4> QED
        BY <3>1, <4>1, <4>2 DEF Call_
    <3>3. CASE Idle(p)
      BY <1>2, <3>3 DEF Restart
    <3> QED
      BY <3>2, <3>3
  <2> QED
    BY <1>2, <2>1 DEF Restart, Survived
<1> QED
  BY <1>1, <1>2

\* A GET is served, or ends: answered, it is what is shown of its kind from now on.
Served(s) ==
  /\ UNCHANGED <<ui, newest>>
  /\ load[s].pc = "asked" /\ load'[s].pc = "served"
  /\ load'[s].kind = load[s].kind /\ load'[s].of = load[s].of
  /\ load'[s].got = IF load[s].kind = "logs" THEN {} ELSE Stored(load[s].kind)
Ended(s) ==
  /\ load'[s].pc = "free" /\ load'[s].got = {}
  /\ ui'.saving = ui.saving /\ ui'.logsOf = ui.logsOf
  /\ \/ /\ ui'.shown = ui.shown /\ ui'.logs = ui.logs /\ newest' = newest
     \/ /\ load[s].pc = "served"
        /\ \A k \in {"keys", "hooks", "logs"} :
             IF k = load[s].kind THEN newest'[k].at = newest[k].at /\ (newest'[k].last <=> s = newest[k].at)
             ELSE newest'[k] = newest[k]
        /\ ui'.logs = IF load[s].kind = "logs" THEN load[s].of ELSE ui.logs
        /\ \A l \in Lists : ui'.shown[l] = IF load[s].kind = l THEN load[s].got ELSE ui.shown[l]

LEMMA LoadFields ==
  ASSUME PartsOK, NEW s \in LoadSlots, Serve(s) \/ Answer(s) \/ LoadFails(s)
  PROVE  /\ UNCHANGED <<hook, key, call, told, made>>
         /\ \A t \in LoadSlots : t # s => load'[t] = load[t]
         /\ Served(s) \/ Ended(s)
<1>1. ui \in Ui /\ load[s] \in Load /\ load \in [LoadSlots -> Load]
  BY DEF PartsOK
<1>2. UNCHANGED <<hook, key, call, told, made>>
  BY DEF Serve, Answer, LoadFails, hvars
<1>3. \A t \in LoadSlots : t # s => load'[t] = load[t]
  BY <1>1 DEF Serve, Answer, LoadFails
<1>4. CASE Serve(s)
  <2>1. PICK g : g = IF load[s].kind = "logs" THEN {} ELSE Stored(load[s].kind)
    OBVIOUS
  <2>2. load' = [load EXCEPT ![s].pc = "served", ![s].got = g]
    BY <1>4, <2>1 DEF Serve
  <2>3. load'[s].pc = "served" /\ load'[s].kind = load[s].kind /\ load'[s].of = load[s].of /\ load'[s].got = g
    BY <1>1, <2>2 DEF Load
  <2>4. UNCHANGED <<ui, newest>> /\ load[s].pc = "asked"
    BY <1>4 DEF Serve
  <2>5. Served(s)
    BY <2>1, <2>3, <2>4 DEF Served
  <2> QED
    BY <1>2, <1>3, <2>5
<1>5. ASSUME Answer(s) \/ LoadFails(s) PROVE load'[s].pc = "free" /\ load'[s].got = {}
  <2>1. load'[s] = NoLoad
    BY <1>1, <1>5 DEF Answer, LoadFails
  <2> QED
    BY <2>1 DEF NoLoad
<1>6. CASE LoadFails(s)
  <2>1. newest' = newest /\ ui' = [ui EXCEPT !.waiting = @ \ {load[s].kind}]
    BY <1>6 DEF LoadFails
  <2>2. ui'.saving = ui.saving /\ ui'.logsOf = ui.logsOf /\ ui'.shown = ui.shown /\ ui'.logs = ui.logs
    BY <1>1, <2>1 DEF Ui
  <2> QED
    BY <1>2, <1>3, <1>5, <1>6, <2>1, <2>2 DEF Ended
<1>7. CASE Answer(s)
  <2>1. PICK k \in {"keys", "hooks", "logs"} : k = load[s].kind
    BY <1>1 DEF Load
  <2> DEFINE b == (s = newest[k].at)
  <2>2. newest' = [newest EXCEPT ![k].last = b] /\ b \in BOOLEAN
    BY <1>7, <2>1 DEF Answer
  <2> HIDE DEF b
  <2>3. /\ newest'[k].at = newest[k].at /\ newest'[k].last = b
        /\ \A j \in {"keys", "hooks", "logs"} : j # k => newest'[j] = newest[j]
    BY <2>2 DEF PartsOK
  <2>4. newest'[k].last <=> s = newest[k].at
    BY <2>3 DEF b
  <2>5. \A j \in {"keys", "hooks", "logs"} :
          IF j = load[s].kind THEN newest'[j].at = newest[j].at /\ (newest'[j].last <=> s = newest[j].at)
          ELSE newest'[j] = newest[j]
    BY <2>1, <2>3, <2>4
  <2>6. PICK g \in SUBSET (Keys \cup Hooks) : g = load[s].got
    BY <1>1 DEF Load
  <2>7. /\ ui'.saving = ui.saving /\ ui'.logsOf = ui.logsOf
        /\ ui'.logs = IF k = "logs" THEN load[s].of ELSE ui.logs
        /\ \A l \in Lists : ui'.shown[l] = IF k = l THEN g ELSE ui.shown[l]
    <3>1. CASE k = "logs"
      <4>1. ui' = [ui EXCEPT !.logs = load[s].of, !.waiting = @ \ {"logs"}]
        BY <1>7, <2>1, <3>1 DEF Answer
      <4>2. ui'.saving = ui.saving /\ ui'.logsOf = ui.logsOf /\ ui'.logs = load[s].of /\ ui'.shown = ui.shown
        BY <1>1, <4>1 DEF Ui
      <4> QED
        BY <3>1, <4>2 DEF Lists
    <3>2. CASE k # "logs"
      <4>1. ui' = [ui EXCEPT !.shown[k] = g, !.waiting = @ \ {k}]
        BY <1>7, <2>1, <2>6, <3>2 DEF Answer
      <4>2. /\ ui'.saving = ui.saving /\ ui'.logsOf = ui.logsOf /\ ui'.logs = ui.logs
            /\ ui'.shown = [ui.shown EXCEPT ![k] = g]
        BY <1>1, <4>1 DEF Ui
      <4>3. ui.shown \in [Lists -> SUBSET (Keys \cup Hooks)]
        BY <1>1 DEF Ui
      <4> QED
        BY <3>2, <4>2, <4>3
    <3> QED
      BY <3>1, <3>2
  <2>8. load[s].pc = "served"
    BY <1>7 DEF Answer
  <2>9. Ended(s)
    BY <1>5, <1>7, <2>1, <2>5, <2>6, <2>7, <2>8 DEF Ended
  <2> QED
    BY <1>2, <1>3, <2>9
<1> QED
  BY <1>4, <1>6, <1>7

-----------------------------------------------------------------------------
(* The deliveries on display. *)

\* The newest load of deliveries is for the hook that is unfolded, unless it was folded again.
LogsInv ==
  /\ newest["logs"].last /\ ui.logsOf # NoHook => ui.logs = ui.logsOf
  /\ \A s \in LoadSlots :
       newest["logs"].at = s /\ load[s].pc # "free" /\ load[s].kind = "logs" => ui.logsOf \in {NoHook, load[s].of}

LEMMA LogsKept ==
  ASSUME LogsInv, ui'.logs = ui.logs, ui'.logsOf \in {ui.logsOf, NoHook}, newest'["logs"] = newest["logs"],
         \A s \in LoadSlots : load'[s].pc # "free" /\ load'[s].kind = "logs" =>
            load[s].pc # "free" /\ load[s].kind = "logs" /\ load'[s].of = load[s].of
  PROVE  LogsInv'
BY DEF LogsInv

LEMMA ListAskedLogs ==
  ASSUME PartsOK, LogsInv, ui'.logs = ui.logs, ui'.logsOf \in {ui.logsOf, NoHook},
         NEW l \in Lists, NEW s \in LoadSlots, Ask(s, l, NoHook)
  PROVE  LogsInv'
<1>1. l \in {"keys", "hooks", "logs"} /\ l # "logs"
  BY DEF Lists
<1> QED
  BY <1>1, AskFields, LogsKept

LEMMA LogsStep ==
  ASSUME PartsOK, Targets, RequestsMatch, LogsInv, [Next]_vars
  PROVE  LogsInv'
<1>1. CASE Moving
  <2>1. Moved
    BY <1>1, MovingFields
  <2>2. ASSUME NEW s \in LoadSlots, Ask(s, "logs", ui'.logsOf) PROVE LogsInv'
    <3>1. PICK h : h = ui'.logsOf
      OBVIOUS
    <3>2. Ask(s, "logs", h)
      BY <2>2, <3>1
    <3>3. load'[s].of = h /\ newest'["logs"].at = s /\ ~newest'["logs"].last
      BY <3>2, AskFields
    <3> QED
      BY <3>1, <3>3 DEF LogsInv
  <2> QED
    BY <2>1, <2>2, LogsKept, ListAskedLogs DEF Moved, AsksList
<1>2. CASE Mutating
  BY <1>2, MutatingFields, LogsKept DEF Mutated
<1>3. CASE Others \/ Restart \/ UNCHANGED vars
  BY <1>3, ElsewhereFields, LogsKept DEF Survived
<1>4. ASSUME NEW s \in LoadSlots, Serve(s) \/ Answer(s) \/ LoadFails(s) PROVE LogsInv'
  <2>1. \A t \in LoadSlots : t # s => load'[t] = load[t]
    BY <1>4, LoadFields
  <2>2. CASE Served(s)
    BY <2>1, <2>2, LogsKept DEF Served
  <2>3. CASE Ended(s)
    <3>1. CASE ui'.logs = ui.logs /\ newest'["logs"] = newest["logs"]
      BY <2>1, <2>3, <3>1, LogsKept DEF Ended
    <3>2. CASE load[s].kind = "logs" /\ load[s].pc = "served" /\ ui'.logs = load[s].of
               /\ newest'["logs"].at = newest["logs"].at /\ (newest'["logs"].last <=> s = newest["logs"].at)
      BY <2>1, <2>3, <3>2 DEF Ended, LogsInv
    <3> QED
      BY <2>3, <3>1, <3>2 DEF Ended
  <2> QED
    BY <1>4, <2>2, <2>3, LoadFields
<1>5. ASSUME NEW p \in Requests, Serving(p) PROVE LogsInv'
  BY <1>5, ServingFields, LogsKept DEF Worked
<1>6. ASSUME NEW p \in Requests, Returning(p) PROVE LogsInv'
  BY <1>6, ReturningFields, LogsKept, ListAskedLogs DEF Back
<1> QED
  BY <1>1, <1>2, <1>3, <1>4, <1>5, <1>6 DEF Next

-----------------------------------------------------------------------------
(* The forms under way. *)

Creating(p, l) == Awaited(call[p]) /\ call[p].kind = Creates(l)

\* A form that is being saved has one call, and no other form has any.
OneEach ==
  /\ \A p \in Requests, l \in Lists : Creating(p, l) => l \in ui.saving
  /\ \A l \in Lists : l \in ui.saving => \E p \in Requests : Creating(p, l)
  /\ \A p, q \in Requests, l \in Lists : Creating(p, l) /\ Creating(q, l) => p = q

LEMMA FormsKept ==
  ASSUME OneEach, ui'.saving = ui.saving,
         \A p \in Requests : /\ call[p].pc = "free" <=> call'[p].pc = "free"
                          /\ call'[p].kind = call[p].kind /\ call'[p].lost = call[p].lost
  PROVE  OneEach'
<1>1. \A p \in Requests, l \in Lists : Creating(p, l) <=> Creating(p, l)'
  BY DEF Creating, Awaited
<1> QED
  BY <1>1 DEF OneEach

LEMMA FormsStep ==
  ASSUME PartsOK, Targets, RequestsMatch, OneEach, [Next]_vars
  PROVE  OneEach'
<1>1. CASE Moving
  BY <1>1, MovingFields, FormsKept DEF Moved
<1>2. CASE Mutating
  <2>1. PICK p \in Requests, k \in Kinds : Sent(p, k)
    BY <1>2, MutatingFields DEF Mutated
  <2>2. \A q \in Requests, l \in Lists : Creating(q, l)' <=> Creating(q, l) \/ (q = p /\ k = Creates(l))
    BY <2>1 DEF Sent, Creating, Awaited
  <2>3. \A l \in Lists : /\ l \in ui'.saving <=> l \in ui.saving \/ k = Creates(l)
                         /\ k = Creates(l) => l \notin ui.saving
    BY <2>1 DEF Sent
  <2>4. ASSUME NEW q \in Requests, NEW l \in Lists, Creating(q, l) PROVE k # Creates(l)
    BY <2>3, <2>4 DEF OneEach
  <2>5. \A q \in Requests, l \in Lists : Creating(q, l)' => l \in ui'.saving
    BY <2>2, <2>3 DEF OneEach
  <2>6. \A l \in Lists : l \in ui'.saving => \E q \in Requests : Creating(q, l)'
    BY <2>2, <2>3 DEF OneEach
  <2>7. ASSUME NEW q \in Requests, NEW r \in Requests, NEW l \in Lists, Creating(q, l)', Creating(r, l)' PROVE q = r
    <3>1. CASE k = Creates(l)
      BY <2>2, <2>4, <2>7, <3>1
    <3>2. CASE k # Creates(l)
      BY <2>2, <2>7, <3>2 DEF OneEach
    <3> QED
      BY <3>1, <3>2
  <2> QED
    BY <2>5, <2>6, <2>7 DEF OneEach
<1>3. CASE Others \/ Restart \/ UNCHANGED vars
  BY <1>3, ElsewhereFields, FormsKept DEF Survived
<1>4. ASSUME NEW s \in LoadSlots, Serve(s) \/ Answer(s) \/ LoadFails(s) PROVE OneEach'
  BY <1>4, LoadFields, FormsKept DEF Served, Ended
<1>5. ASSUME NEW p \in Requests, Serving(p) PROVE OneEach'
  BY <1>5, ServingFields, FormsKept DEF Worked
<1>6. ASSUME NEW p \in Requests, Returning(p) PROVE OneEach'
  <2>1. Back(p)
    BY <1>6, ReturningFields
  <2>2. ~Awaited(call'[p]) /\ \A q \in Requests : q # p => call'[q] = call[q]
    <3>1. call \in [Requests -> Call_]
      BY DEF PartsOK
    <3>2. CASE call' = [call EXCEPT ![p] = NoCall]
      BY <3>1, <3>2 DEF NoCall, Awaited
    <3>3. CASE call' = [call EXCEPT ![p].lost = TRUE]
      BY <3>1, <3>3 DEF Awaited, Call_
    <3> QED
      BY <2>1, <3>2, <3>3 DEF Back
  <2>3. \A q \in Requests, l \in Lists : Creating(q, l)' <=> Creating(q, l) /\ q # p
    BY <2>2 DEF Creating
  <2>4. \A l \in Lists : l \in ui'.saving <=> l \in ui.saving /\ ~Creating(p, l)
    BY <2>1 DEF Back, Creating
  <2> QED
    BY <2>3, <2>4 DEF OneEach
<1> QED
  BY <1>1, <1>2, <1>3, <1>4, <1>5, <1>6 DEF Next

-----------------------------------------------------------------------------
(* The lists on display. *)

OfList(l) == IF l = "keys" THEN Keys ELSE Hooks
Was(x) == IF x \in Keys THEN key[x] ELSE hook[x].there

\* What has been told or made has happened at the server, and so has what a done call did.
DoneOf(p) == call[p].pc = "done" =>
  /\ call[p].kind \in {"revokeKey", "deleteHook"} => Was(call[p].thing) = "gone"
  /\ call[p].kind \in {"createKey", "createHook"} => Was(call[p].thing) # "never"
Done ==
  /\ \A x \in told : Was(x) = "gone"
  /\ \A x \in made : Was(x) # "never"
  /\ \A p \in Requests : DoneOf(p)

\* A list shows, and a load of it carries, only what can be on it.
Sorted ==
  /\ \A l \in Lists : ui.shown[l] \subseteq OfList(l)
  /\ \A l \in Lists, s \in LoadSlots : load[s].kind = l => load[s].got \subseteq OfList(l)

\* The newest load of a list, once it is served, carries what OwnWritesShown wants shown.
FreshOf(l, s) == newest[l].at = s /\ load[s].pc = "served" /\ load[s].kind = l =>
  load[s].got \cap told = {} /\ made \cap Stored(l) \subseteq load[s].got
Fresh == \A l \in Lists, s \in LoadSlots : FreshOf(l, s)

OwnOf(l) == newest[l].last => ui.shown[l] \cap told = {} /\ made \cap Stored(l) \subseteq ui.shown[l]
Own == \A l \in Lists : OwnOf(l)

OInv == Done /\ Sorted /\ Fresh /\ Own

\* A key or hook is created once and removed once, and never comes back.
Forward == \A x \in Keys \cup Hooks :
  Was(x)' = Was(x) \/ (Was(x) = "never" /\ Was(x)' = "there") \/ (Was(x) = "there" /\ Was(x)' = "gone")

LEMMA HooksForward ==
  ASSUME HTypeOK, Loaded, [HNext]_hvars, NEW h \in Hooks
  PROVE  \/ hook'[h].there = hook[h].there
         \/ hook[h].there = "never" /\ hook'[h].there = "there"
         \/ hook[h].there = "there" /\ hook'[h].there = "gone"
<1>1. hook \in [Hooks -> Hook]
  BY DEF HTypeOK
<1>2. CASE UNCHANGED hook
  BY <1>2
<1>3. ASSUME NEW g \in Hooks, NEW w \in SUBSET Events, CreateHook(g, w)
      PROVE  hook'[h].there = hook[h].there \/ (hook[h].there = "never" /\ hook'[h].there = "there")
  BY <1>1, <1>3 DEF CreateHook
<1>4. ASSUME NEW g \in Hooks, UpdateHook(g)
      PROVE  hook'[h].there = hook[h].there
  BY <1>1, <1>4 DEF UpdateHook, Hook
<1>5. ASSUME NEW p \in Requests, DeleteHook(p)
      PROVE  hook'[h].there = hook[h].there \/ (hook[h].there = "there" /\ hook'[h].there = "gone")
  <2>1. PICK g \in Hooks : g = doomed[p]
    BY <1>5 DEF DeleteHook, HTypeOK
  <2>2. hook' = [hook EXCEPT ![g].there = "gone"] /\ hook[g].there # "never"
    BY <1>5, <2>1 DEF DeleteHook, Loaded
  <2> QED
    BY <1>1, <2>2 DEF Hook
<1>6. CASE HNext
  <2>1. CASE Manage
    BY <1>2, <1>3, <1>4, <1>5, <2>1 DEF Manage, StartDelete, DeleteFails
  <2>2. CASE Dispatch \/ Crash \/ Test
    BY <1>2, <2>2 DEF Dispatch, Dispatching, Publish, Call, Record, Finish, Crash,
                      Test, StartPing, PingRecorded, PingFails
  <2> QED
    BY <1>6, <2>1, <2>2 DEF HNext
<1> QED
  BY <1>2, <1>6 DEF hvars

\* Only the server's own steps change the keys.
LEMMA KeysStay ==
  ASSUME CInv, [Next]_vars
  PROVE  key' = key \/ \E p \in Requests : CreatesKey(p) \/ RevokesKey(p)
<1>1. CASE Moving \/ Mutating
  BY <1>1, MovingFields, MutatingFields DEF CInv, Moved, Mutated
<1>2. CASE Others \/ Restart \/ UNCHANGED vars
  BY <1>2, ElsewhereFields DEF CInv, Survived
<1>3. ASSUME NEW s \in LoadSlots, Serve(s) \/ Answer(s) \/ LoadFails(s) PROVE key' = key
  BY <1>3, LoadFields DEF CInv
<1>4. ASSUME NEW p \in Requests, Serving(p)
      PROVE  key' = key \/ CreatesKey(p) \/ RevokesKey(p)
  BY <1>4 DEF Serving, CreatesHook, Deleting, DeletesHook, Pinging, Pinged
<1>5. ASSUME NEW p \in Requests, Returning(p) PROVE key' = key
  BY <1>5, ReturningFields DEF CInv, Back
<1> QED
  BY <1>1, <1>2, <1>3, <1>4, <1>5 DEF Next

LEMMA GoesForward ==
  ASSUME CInv, [Next]_vars
  PROVE  Forward
<1>1. [HNext]_hvars /\ HTypeOK /\ Loaded
  BY StepIsHooks DEF CInv
<1>2. ASSUME NEW x \in Keys
      PROVE  key'[x] = key[x] \/ (key[x] = "never" /\ key'[x] = "there") \/ (key[x] = "there" /\ key'[x] = "gone")
  <2>1. key \in [Keys -> {"never", "there", "gone"}]
    BY DEF CInv, PartsOK
  <2> QED
    BY <2>1, KeysStay DEF CreatesKey, RevokesKey
<1> QED
  BY <1>1, <1>2, HooksForward DEF Forward, Was

LEMMA StoredIs ==
  ASSUME NEW l \in Lists
  PROVE  Stored(l) = {x \in OfList(l) : Was(x) = "there"}
BY DEF Stored, OfList, Was, There

LEMMA NextStoredIs ==
  ASSUME NEW l \in Lists
  PROVE  Stored(l)' = {x \in OfList(l) : Was(x)' = "there"}
BY DEF Stored, OfList, Was, There

LEMMA OwnIsShown == Own => OwnWritesShown
BY DEF Own, OwnOf, OwnWritesShown

\* Of what was made before, nothing is there that was not: it was created only once.
LEMMA NothingReturns ==
  ASSUME Forward, Done, NEW l \in Lists
  PROVE  made \cap Stored(l)' \subseteq Stored(l)
<1> SUFFICES ASSUME NEW x \in made, x \in Stored(l)' PROVE x \in Stored(l)
  OBVIOUS
<1>1. x \in OfList(l) /\ Was(x)' = "there" /\ Was(x) # "never"
  BY NextStoredIs DEF Done
<1>2. x \in Keys \cup Hooks
  BY <1>1 DEF OfList
<1> QED
  BY <1>1, <1>2, StoredIs DEF Forward

\* What is shown of a list is still what is wanted, if nothing of it was told or made since.
SameFor(l) == told' \cap OfList(l) \subseteq told /\ made' \cap OfList(l) \subseteq made

LEMMA OwnKept ==
  ASSUME Forward, Done, Sorted, NEW l \in Lists, OwnOf(l),
         newest'[l].last => newest[l].last /\ SameFor(l) /\ ui'.shown[l] = ui.shown[l]
  PROVE  OwnOf(l)'
<1> SUFFICES ASSUME newest'[l].last
             PROVE  ui'.shown[l] \cap told' = {} /\ made' \cap Stored(l)' \subseteq ui'.shown[l]
  BY DEF OwnOf
<1>1. /\ ui'.shown[l] = ui.shown[l] /\ ui.shown[l] \subseteq OfList(l)
      /\ ui.shown[l] \cap told = {} /\ made \cap Stored(l) \subseteq ui.shown[l]
  BY DEF Sorted, OwnOf
<1>2. Stored(l)' \subseteq OfList(l)
  BY NextStoredIs
<1> QED
  BY <1>1, <1>2, NothingReturns DEF SameFor

LEMMA FreshKept ==
  ASSUME Forward, Done, Sorted, NEW l \in Lists, NEW s \in LoadSlots, FreshOf(l, s),
         newest'[l].at = s /\ load'[s].pc = "served" /\ load'[s].kind = l =>
           newest[l].at = s /\ load'[s] = load[s] /\ SameFor(l)
  PROVE  FreshOf(l, s)'
<1> SUFFICES ASSUME newest'[l].at = s, load'[s].pc = "served", load'[s].kind = l
             PROVE  load'[s].got \cap told' = {} /\ made' \cap Stored(l)' \subseteq load'[s].got
  BY DEF FreshOf
<1>1. /\ load'[s] = load[s] /\ load[s].got \subseteq OfList(l)
      /\ load[s].got \cap told = {} /\ made \cap Stored(l) \subseteq load[s].got
  BY DEF Sorted, FreshOf
<1>2. Stored(l)' \subseteq OfList(l)
  BY NextStoredIs
<1> QED
  BY <1>1, <1>2, NothingReturns DEF SameFor

LEMMA SortedKept ==
  ASSUME Sorted, ui'.shown = ui.shown,
         \A s \in LoadSlots : load'[s] = load[s] \/ load'[s].got = {}
  PROVE  Sorted'
BY DEF Sorted

LEMMA DoneOfKept ==
  ASSUME Targets, Forward, NEW p \in Requests, DoneOf(p), call'[p].pc = "done" => call'[p] = call[p]
  PROVE  DoneOf(p)'
<1> SUFFICES ASSUME call'[p].pc = "done" PROVE DoneOf(p)'
  BY DEF DoneOf
<1>1. PICK c : c = call[p]
  OBVIOUS
<1>2. call'[p] = c /\ c.pc = "done"
  BY <1>1
<1>3. /\ c.kind \in {"revokeKey", "deleteHook"} => Was(c.thing) = "gone" /\ c.thing \in Keys \cup Hooks
      /\ c.kind \in {"createKey", "createHook"} => Was(c.thing) # "never" /\ c.thing \in Keys \cup Hooks
  BY <1>1, <1>2 DEF DoneOf, Targets
<1>4. PICK x : x = c.thing
  OBVIOUS
<1>5. /\ c.kind \in {"revokeKey", "deleteHook"} => Was(x)' = "gone"
      /\ c.kind \in {"createKey", "createHook"} => Was(x)' # "never"
  BY <1>3, <1>4 DEF Forward
<1> QED
  BY <1>2, <1>4, <1>5 DEF DoneOf, Was

LEMMA DoneKept ==
  ASSUME PartsOK, Targets, Forward, Done, UNCHANGED <<told, made>>,
         \A p \in Requests : call'[p].pc = "done" => call'[p] = call[p]
  PROVE  Done'
<1>1. \A x \in told : Was(x)' = "gone"
  BY DEF PartsOK, Done, Forward
<1>2. \A x \in made : Was(x)' # "never"
  BY DEF PartsOK, Done, Forward
<1>3. \A p \in Requests : DoneOf(p)'
  BY DoneOfKept DEF Done
<1> QED
  BY <1>1, <1>2, <1>3 DEF Done

\* A step that sends no GET, answers none, and tells and makes nothing.
Quiet ==
  /\ UNCHANGED <<newest, told, made>> /\ ui'.shown = ui.shown
  /\ \A s \in LoadSlots : load'[s] = load[s] \/ (load'[s].pc = "free" /\ load'[s].got = {})

LEMMA QuietKeeps ==
  ASSUME Forward, OInv, Quiet, Done'
  PROVE  OInv'
<1>1. \A l \in Lists : SameFor(l)
  BY DEF Quiet, SameFor
<1>2. Sorted'
  BY SortedKept DEF Quiet, OInv
<1>3. ASSUME NEW l \in Lists PROVE OwnOf(l)'
  BY <1>1, <1>3, OwnKept DEF Quiet, OInv, Own
<1>4. ASSUME NEW l \in Lists, NEW s \in LoadSlots PROVE FreshOf(l, s)'
  BY <1>1, <1>4, FreshKept DEF Quiet, OInv, Fresh
<1> QED
  BY <1>2, <1>3, <1>4 DEF OInv, Own, Fresh

\* A GET is sent: what is told or made meanwhile is of its list.
LEMMA AskedKeeps ==
  ASSUME PartsOK, Forward, OInv, Done', ui'.shown = ui.shown,
         NEW k \in {"keys", "hooks", "logs"}, NEW s \in LoadSlots, NEW h, Ask(s, k, h),
         \A l \in Lists : l # k => SameFor(l)
  PROVE  OInv'
<1>1. /\ load'[s].pc = "asked" /\ load'[s].got = {}
      /\ \A t \in LoadSlots : t # s => load'[t] = load[t]
      /\ newest'[k].at = s /\ ~newest'[k].last
      /\ \A j \in {"keys", "hooks", "logs"} : j # k => newest'[j] = newest[j]
  BY AskFields
<1>2. Sorted'
  BY <1>1, SortedKept DEF OInv
<1>3. ASSUME NEW l \in Lists PROVE OwnOf(l)'
  <2>1. CASE l = k
    BY <1>1, <2>1 DEF OwnOf
  <2>2. CASE l # k
    <3>1. newest'[l] = newest[l] /\ SameFor(l)
      BY <1>1, <2>2 DEF Lists
    <3> QED
      BY <3>1, OwnKept DEF OInv, Own
  <2> QED
    BY <2>1, <2>2
<1>4. ASSUME NEW l \in Lists, NEW t \in LoadSlots PROVE FreshOf(l, t)'
  <2>1. CASE t = s
    BY <1>1, <2>1 DEF FreshOf
  <2>2. CASE t # s /\ l = k
    BY <1>1, <2>2 DEF FreshOf
  <2>3. CASE t # s /\ l # k
    <3>1. newest'[l] = newest[l] /\ SameFor(l) /\ load'[t] = load[t]
      BY <1>1, <2>3 DEF Lists
    <3> QED
      BY <3>1, FreshKept DEF OInv, Fresh
  <2> QED
    BY <2>1, <2>2, <2>3
<1> QED
  BY <1>2, <1>3, <1>4 DEF OInv, Own, Fresh

\* A GET is served what is stored, and nothing told is stored.
LEMMA ServedKeeps ==
  ASSUME PartsOK, Targets, Forward, OInv, NEW s \in LoadSlots, Served(s),
         UNCHANGED <<hook, key, call, told, made>>, \A t \in LoadSlots : t # s => load'[t] = load[t]
  PROVE  OInv'
<1>1. Done'
  BY DoneKept DEF OInv
<1>2. ui'.shown = ui.shown /\ newest' = newest /\ \A l \in Lists : SameFor(l)
  BY DEF Served, SameFor
<1>3. \A l \in Lists : Stored(l)' = Stored(l) /\ Stored(l) \cap told = {} /\ Stored(l) \subseteq OfList(l)
  BY StoredIs, NextStoredIs DEF OInv, Done, Was
<1>4. \A l \in Lists : load'[s].kind = l => load'[s].pc = "served" /\ load'[s].got = Stored(l)
  BY DEF Served, Lists
<1>5. Sorted'
  BY <1>2, <1>3, <1>4 DEF OInv, Sorted
<1>6. ASSUME NEW l \in Lists PROVE OwnOf(l)'
  BY <1>2, <1>6, OwnKept DEF OInv, Own
<1>7. ASSUME NEW l \in Lists, NEW t \in LoadSlots PROVE FreshOf(l, t)'
  <2>1. CASE t = s
    BY <1>3, <1>4, <2>1 DEF FreshOf
  <2>2. CASE t # s
    BY <1>2, <1>7, <2>2, FreshKept DEF OInv, Fresh
  <2> QED
    BY <2>1, <2>2
<1> QED
  BY <1>1, <1>5, <1>6, <1>7 DEF OInv, Own, Fresh

\* A GET ends; if it is the newest of its list and is answered, what it carried is shown.
LEMMA EndedKeeps ==
  ASSUME PartsOK, Targets, Forward, OInv, NEW s \in LoadSlots, Ended(s),
         UNCHANGED <<hook, key, call, told, made>>, \A t \in LoadSlots : t # s => load'[t] = load[t]
  PROVE  OInv'
<1>1. Done'
  BY DoneKept DEF OInv
<1>2. \A l \in Lists : SameFor(l)
  BY DEF SameFor
<1>3. \A t \in LoadSlots : load'[t] = load[t] \/ (load'[t].pc = "free" /\ load'[t].got = {})
  BY DEF Ended
<1>4. CASE ui'.shown = ui.shown /\ newest' = newest
  BY <1>1, <1>3, <1>4, QuietKeeps DEF Quiet
<1>5. CASE /\ load[s].pc = "served"
           /\ \A l \in Lists : ui'.shown[l] = IF load[s].kind = l THEN load[s].got ELSE ui.shown[l]
           /\ \A l \in Lists :
                IF l = load[s].kind THEN newest'[l].at = newest[l].at /\ (newest'[l].last <=> s = newest[l].at)
                ELSE newest'[l] = newest[l]
  <2>1. Sorted'
    BY <1>3, <1>5 DEF OInv, Sorted
  <2>2. ASSUME NEW l \in Lists PROVE OwnOf(l)'
    <3>1. CASE l = load[s].kind
      <4>1. /\ ui'.shown[l] = load[s].got /\ load[s].got \subseteq OfList(l)
            /\ newest'[l].last => FreshOf(l, s) /\ newest[l].at = s
        BY <1>5, <3>1 DEF OInv, Sorted, Fresh
      <4>2. Stored(l)' = Stored(l)
        BY StoredIs, NextStoredIs DEF Was
      <4> QED
        BY <1>5, <3>1, <4>1, <4>2 DEF OwnOf, FreshOf
    <3>2. CASE l # load[s].kind
      <4>1. newest'[l] = newest[l] /\ ui'.shown[l] = ui.shown[l]
        BY <1>5, <3>2
      <4> QED
        BY <1>2, <4>1, OwnKept DEF OInv, Own
    <3> QED
      BY <3>1, <3>2
  <2>3. ASSUME NEW l \in Lists, NEW t \in LoadSlots PROVE FreshOf(l, t)'
    <3>1. load'[t].pc = "served" => load'[t] = load[t]
      BY <1>3
    <3>2. newest'[l].at = newest[l].at
      BY <1>5
    <3> QED
      BY <1>2, <3>1, <3>2, FreshKept DEF OInv, Fresh
  <2> QED
    BY <1>1, <2>1, <2>2, <2>3 DEF OInv, Own, Fresh
<1> QED
  BY <1>4, <1>5 DEF Ended, Lists

\* What the server does for a call is done at its end.
LEMMA ServingDone ==
  ASSUME CInv, Forward, Done, NEW p \in Requests, Serving(p)
  PROVE  Done'
<1>1. /\ call \in [Requests -> Call_] /\ UNCHANGED <<told, made>>
      /\ \A q \in Requests : q # p => call'[q] = call[q]
  BY ServingFields DEF CInv, PartsOK, Worked
<1>2. \A x \in told : Was(x)' = "gone"
  BY <1>1 DEF CInv, PartsOK, Done, Forward
<1>3. \A x \in made : Was(x)' # "never"
  BY <1>1 DEF CInv, PartsOK, Done, Forward
<1>4. ASSUME NEW q \in Requests, q # p PROVE DoneOf(q)'
  BY <1>1, <1>4, DoneOfKept DEF CInv, Done
<1>5. DoneOf(p)'
  <2>1. ASSUME NEW x \in Keys \cup Hooks, Was(x)' = "there", call'[p].thing = x,
               call'[p].kind \in {"createKey", "createHook"}
        PROVE  DoneOf(p)'
    BY <2>1 DEF DoneOf, Was
  <2>2. ASSUME NEW x \in Keys \cup Hooks, Was(x)' = "gone", call'[p].thing = x,
               call'[p].kind \in {"revokeKey", "deleteHook"}
        PROVE  DoneOf(p)'
    BY <2>2 DEF DoneOf, Was
  <2>3. CASE CreatesKey(p)
    <3>1. PICK k \in Keys :
            /\ call[p].kind = "createKey" /\ key' = [key EXCEPT ![k] = "there"]
            /\ call' = [call EXCEPT ![p].pc = "done", ![p].thing = k]
      BY <2>3 DEF CreatesKey
    <3>2. call'[p].kind = "createKey" /\ call'[p].thing = k
      BY <1>1, <3>1 DEF Call_
    <3>3. Was(k)' = "there"
      BY <3>1 DEF Was, CInv, PartsOK
    <3> QED
      BY <2>1, <3>2, <3>3
  <2>4. CASE CreatesHook(p)
    <3>1. PICK h \in Hooks, w \in SUBSET Events :
            /\ call[p].kind = "createHook" /\ CreateHook(h, w)
            /\ call' = [call EXCEPT ![p].pc = "done", ![p].thing = h]
      BY <2>4 DEF CreatesHook
    <3>2. call'[p].kind = "createHook" /\ call'[p].thing = h
      BY <1>1, <3>1 DEF Call_
    <3>3. Was(h)' = "there"
      BY <3>1 DEF Was, CInv, HTypeOK, CreateHook
    <3> QED
      BY <2>1, <3>2, <3>3
  <2>5. CASE RevokesKey(p)
    <3>1. PICK k \in Keys : k = call[p].thing
      BY <2>5 DEF RevokesKey, CInv, Targets
    <3>2. /\ call[p].kind = "revokeKey" /\ key' = [key EXCEPT ![k] = "gone"]
          /\ call' = [call EXCEPT ![p].pc = "done"]
      BY <2>5, <3>1 DEF RevokesKey, Step
    <3>3. call'[p].kind = "revokeKey" /\ call'[p].thing = k
      BY <1>1, <3>1, <3>2 DEF Call_
    <3>4. Was(k)' = "gone"
      BY <3>2 DEF Was, CInv, PartsOK
    <3> QED
      BY <2>2, <3>3, <3>4
  <2>6. CASE DeletesHook(p)
    <3>1. PICK h \in Hooks : h = call[p].thing
      BY <2>6 DEF DeletesHook, CInv, Targets
    <3>2. /\ call[p].kind = "deleteHook" /\ doomed[p] = h /\ DeleteHook(p)
          /\ call' = [call EXCEPT ![p].pc = "done"]
      BY <2>6, <3>1 DEF DeletesHook, Step, CInv, Targets, RequestsMatch
    <3>3. call'[p].kind = "deleteHook" /\ call'[p].thing = h
      BY <1>1, <3>1, <3>2 DEF Call_
    <3>4. hook' = [hook EXCEPT ![h].there = "gone"] /\ hook \in [Hooks -> Hook]
      BY <3>2 DEF DeleteHook, CInv, HTypeOK
    <3>5. Was(h)' = "gone"
      BY <3>4 DEF Was, Hook
    <3> QED
      BY <2>2, <3>3, <3>5
  <2>8. CASE Deleting(p)
    <3>1. call' = [call EXCEPT ![p].pc = "deleting"]
      BY <2>8 DEF Deleting, Step
    <3>2. call'[p].pc = "deleting"
      BY <1>1, <3>1 DEF Call_
    <3> QED
      BY <3>2 DEF DoneOf
  <2>7. CASE Pinging(p) \/ Pinged(p)
    <3>1. call[p].kind = "ping"
      BY <2>7 DEF Pinging, Pinged, CInv, Targets
    <3>2. call'[p].kind = "ping"
      BY <3>1, ServingFields DEF CInv, Worked
    <3> QED
      BY <3>2 DEF DoneOf
  <2> QED
    BY <2>3, <2>4, <2>5, <2>6, <2>7, <2>8 DEF Serving
<1> QED
  BY <1>1, <1>2, <1>3, <1>4, <1>5 DEF Done

\* What a call that returned did is told or made, as its kind says, and had happened.
LEMMA BackDone ==
  ASSUME CInv, Forward, Done, NEW p \in Requests, Back(p)
  PROVE  Done'
<1>1. \A q \in Requests : call'[q].pc = "done" => call'[q] = call[q]
  BY DEF CInv, PartsOK, Back, NoCall, Call_
<1>2. \A q \in Requests : DoneOf(q)'
  BY <1>1, DoneOfKept DEF CInv, Done
<1>3. ASSUME NEW x \in told' PROVE Was(x)' = "gone"
  <2>1. Was(x) = "gone"
    BY <1>3 DEF Back, Done, DoneOf, Removes
  <2>2. x \in Keys \cup Hooks
    BY <1>3 DEF CInv, PartsOK, Back, Targets, Removes
  <2> QED
    BY <2>1, <2>2 DEF Forward
<1>4. ASSUME NEW x \in made' PROVE Was(x)' # "never"
  <2>1. Was(x) # "never"
    BY <1>4 DEF Back, Done, DoneOf, Creates
  <2>2. x \in Keys \cup Hooks
    BY <1>4 DEF CInv, PartsOK, Back, Targets, Creates
  <2> QED
    BY <2>1, <2>2 DEF Forward
<1> QED
  BY <1>2, <1>3, <1>4 DEF Done

LEMMA BackKeeps ==
  ASSUME CInv, Forward, OInv, NEW p \in Requests, Back(p)
  PROVE  OInv'
<1>1. Done'
  BY BackDone DEF OInv
<1>2. CASE UNCHANGED <<load, newest, told, made>>
  BY <1>1, <1>2, QuietKeeps DEF Back, Quiet
<1>3. ASSUME NEW l \in Lists, NEW s \in LoadSlots, Ask(s, l, NoHook), call[p].pc = "done",
             \/ call[p].kind = Creates(l) /\ made' = made \cup {call[p].thing} /\ UNCHANGED told
             \/ call[p].kind = Removes(l) /\ told' = told \cup {call[p].thing} /\ UNCHANGED made
             \/ UNCHANGED <<told, made>>
      PROVE  OInv'
  <2>1. call[p].kind \in {Creates(l), Removes(l)} => call[p].thing \in OfList(l)
    BY <1>3 DEF CInv, Targets, Creates, Removes, OfList
  <2>2. \A j \in Lists : j # l => OfList(j) \cap OfList(l) = {}
    BY DEF OfList, Lists
  <2>3. \A j \in Lists : j # l => SameFor(j)
    BY <1>3, <2>1, <2>2 DEF SameFor
  <2>4. l \in {"keys", "hooks", "logs"} /\ ui'.shown = ui.shown /\ PartsOK
    BY DEF Lists, Back, CInv
  <2> QED
    BY <1>1, <1>3, <2>3, <2>4, AskedKeeps
<1> QED
  BY <1>2, <1>3 DEF Back

LEMMA OwnStep ==
  ASSUME CInv, OInv, [Next]_vars
  PROVE  OInv'
<1>1. Forward /\ PartsOK /\ Targets /\ RequestsMatch /\ Done
  BY GoesForward DEF CInv, OInv
<1>2. ASSUME UNCHANGED call, UNCHANGED <<told, made>> PROVE Done' /\ \A l \in Lists : SameFor(l)
  BY <1>1, <1>2, DoneKept DEF SameFor
<1>3. CASE Moving
  <2>1. Moved /\ Done' /\ \A l \in Lists : SameFor(l)
    BY <1>1, <1>2, <1>3, MovingFields DEF Moved
  <2>2. ASSUME NEW k \in {"keys", "hooks", "logs"}, NEW s \in LoadSlots, NEW h, Ask(s, k, h) PROVE OInv'
    BY <1>1, <2>1, <2>2, AskedKeeps DEF Moved
  <2>3. CASE UNCHANGED <<load, newest>>
    BY <1>1, <2>1, <2>3, QuietKeeps DEF Moved, Quiet
  <2>4. CASE AsksList
    BY <2>2, <2>4 DEF AsksList, Lists
  <2>5. ASSUME NEW s \in LoadSlots, Ask(s, "logs", ui'.logsOf) PROVE OInv'
    <3>1. PICK h : h = ui'.logsOf
      OBVIOUS
    <3> QED
      BY <2>2, <2>5, <3>1
  <2> QED
    BY <2>1, <2>3, <2>4, <2>5 DEF Moved
<1>4. CASE Mutating
  <2>1. PICK p \in Requests, k \in Kinds : Sent(p, k) /\ UNCHANGED <<load, newest, told, made>> /\ ui'.shown = ui.shown
    BY <1>1, <1>4, MutatingFields DEF Mutated
  <2>2. \A q \in Requests : call'[q].pc = "done" => call'[q] = call[q]
    BY <2>1 DEF Sent
  <2>3. Done'
    BY <1>1, <2>1, <2>2, DoneKept
  <2> QED
    BY <1>1, <2>1, <2>3, QuietKeeps DEF Quiet
<1>5. CASE Others \/ Restart \/ UNCHANGED vars
  <2>1. Survived
    BY <1>1, <1>5, ElsewhereFields
  <2>2. \A q \in Requests : call'[q].pc = "done" => call'[q] = call[q]
    BY <2>1 DEF Survived
  <2>3. Done'
    BY <1>1, <2>1, <2>2, DoneKept DEF Survived
  <2> QED
    BY <1>1, <2>1, <2>3, QuietKeeps DEF Survived, Quiet
<1>6. ASSUME NEW s \in LoadSlots, Serve(s) \/ Answer(s) \/ LoadFails(s) PROVE OInv'
  BY <1>1, <1>6, LoadFields, ServedKeeps, EndedKeeps
<1>7. ASSUME NEW p \in Requests, Serving(p) PROVE OInv'
  BY <1>1, <1>7, ServingDone, ServingFields, QuietKeeps DEF Worked, Quiet
<1>8. ASSUME NEW p \in Requests, Returning(p) PROVE OInv'
  BY <1>1, <1>8, ReturningFields, BackKeeps
<1> QED
  BY <1>3, <1>4, <1>5, <1>6, <1>7, <1>8 DEF Next

-----------------------------------------------------------------------------
(* The theorems. *)

LEMMA ConsoleInvariant == Spec => []CInv
<1>1. Init => CInv
  BY InitParts, InitHolds DEF Init, CInv, HInv
<1>2. CInv /\ [Next]_vars => CInv'
  <2> SUFFICES ASSUME CInv, [Next]_vars PROVE CInv'
    OBVIOUS
  <2>1. HTypeOK' /\ Loaded'
    BY StepIsHooks, TypeStep, LoadedStep DEF CInv
  <2> QED
    BY <2>1, PartsStep, MatchStep DEF CInv
<1> QED
  BY <1>1, <1>2, PTL DEF Spec

\* The modal, its calls and the webhooks keep their types, and the server executes a test ping
\* or a deletion exactly for the calls that are at that point, awaited or not, through
\* failures, lost connections and a restart.
THEOREM ConsoleTypes == Spec => []TypeOK
<1>1. CInv => TypeOK
  BY DEF CInv, PartsOK, RequestsMatch, TypeOK
<1> QED
  BY ConsoleInvariant, <1>1, PTL

\* The modal drives the webhooks only as their specification allows.
THEOREM ConsoleUsesHooks == Spec => HSpec
<1>1. CInv /\ [Next]_vars => [HNext]_hvars
  BY StepIsHooks DEF CInv
<1>2. Init => HInit
  BY DEF Init
<1> QED
  BY ConsoleInvariant, <1>1, <1>2, PTL DEF Spec, HSpec

\* So the delivery log is truthful under the modal, and the dispatch keeps its promises.
THEOREM ConsoleKeepsPromises == Spec => []LogTruthful /\ NotifySpec
  BY ConsoleUsesHooks, LogIsTruthful, DispatchImplementsNotify

\* A button that shows a test ping has one under way, whatever overlaps, fails or restarts.
THEOREM SpinnerIsTruthful == Spec => []SpinnerTruthful
<1>1. Init => SpinnerTruthful
  BY DEF Init, SpinnerTruthful
<1>2. CInv /\ SpinnerTruthful /\ [Next]_vars => SpinnerTruthful'
  BY SpinnerStep
<1> QED
  BY ConsoleInvariant, <1>1, <1>2, PTL DEF Spec

\* The deliveries on display are those of the webhook they are unfolded under, however often
\* it is unfolded and folded and whichever answer comes first.
THEOREM LogsAlwaysBelong == Spec => []LogsBelong
<1>1. Init => LogsInv
  BY DEF Init, LogsInv, NoLoad
<1>2. CInv /\ LogsInv /\ [Next]_vars => LogsInv'
  BY LogsStep DEF CInv
<1>3. LogsInv => LogsBelong
  BY DEF LogsInv, LogsBelong
<1> QED
  BY ConsoleInvariant, <1>1, <1>2, <1>3, PTL DEF Spec

\* The button of a form is disabled exactly while its one call is awaited, closed or not:
\* a form is never submitted twice at a time, and never stays disabled for nothing.
THEOREM SavingIsTruthful == Spec => []SavingTruthful
<1>1. Init => OneEach
  BY DEF Init, OneEach, Creating, Awaited, NoCall
<1>2. CInv /\ OneEach /\ [Next]_vars => OneEach'
  BY FormsStep DEF CInv
<1>3. ASSUME OneEach PROVE SavingTruthful
  <2> SUFFICES ASSUME NEW l \in Lists
               PROVE  Cardinality({p \in Requests : Creating(p, l)}) = IF l \in ui.saving THEN 1 ELSE 0
    BY DEF SavingTruthful, Creating, Creates
  <2> DEFINE forms == {p \in Requests : Creating(p, l)}
  <2>1. CASE l \in ui.saving
    <3>1. PICK p \in Requests : Creating(p, l)
      BY <1>3, <2>1 DEF OneEach
    <3>2. forms = {p}
      BY <1>3, <3>1 DEF OneEach
    <3> QED
      BY <2>1, <3>2, FS_Singleton
  <2>2. CASE l \notin ui.saving
    <3>1. forms = {}
      BY <1>3, <2>2 DEF OneEach
    <3> QED
      BY <2>2, <3>1, FS_EmptySet
  <2> QED
    BY <2>1, <2>2
<1> QED
  BY ConsoleInvariant, <1>1, <1>2, <1>3, PTL DEF Spec

\* Once the newest load of a list was the last to answer, what the user was told is deleted is
\* not on it and what was created, and is still there, is, whichever loads overlapped before.
THEOREM ConsoleShowsOwnWrites == Spec => []OwnWritesShown
<1>1. Init => OInv
  BY DEF Init, OInv, Done, DoneOf, Sorted, Fresh, FreshOf, Own, OwnOf, Lists, NoLoad, NoCall
<1>2. CInv /\ OInv /\ [Next]_vars => OInv'
  BY OwnStep
<1>3. OInv => OwnWritesShown
  BY OwnIsShown DEF OInv
<1> QED
  BY ConsoleInvariant, <1>1, <1>2, <1>3, PTL DEF Spec
=============================================================================
