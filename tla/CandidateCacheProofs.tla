------------------------ MODULE CandidateCacheProofs ------------------------
(***************************************************************************)
(* BoundedStaleness for every number of readers, writers and candidates,   *)
(* and whatever outages, crashes and races come.                           *)
(***************************************************************************)
EXTENDS CandidateCache, TLAPS

ReaderRec == [pc : {"idle", "query", "store", "storeMemory", "served"}, entry : Entries,
              ver : Nat, at : Nat, floor : SUBSET Nat, seen : [Tiers -> Nat]]
WriterRec == [pc : {"new", "webhooks", "scan", "delete", "memory", "answered", "failed"},
              cand : Candidates, pattern : Entries, found : BOOLEAN, mine : [Entries -> Nat]]

\* The commits of an entry are counted by a natural number.
LEMMA CurrentNat == ASSUME TypeOK, NEW k \in Entries PROVE Current(k) \in Nat
BY DEF TypeOK, Current

\* The acknowledged commits of an entry are numbers.
LEMMA AckedType == ASSUME TypeOK, NEW k \in Entries PROVE Acked(k) \in SUBSET Nat
BY DEF TypeOK, Acked

\* An idle reader is a reader, what it stores is an entry, and so is no entry.
LEMMA IdleType == Idle \in ReaderRec
BY DEF Idle, ReaderRec, Entries, Tiers

LEMMA GoneType == Gone \in Entry
BY DEF Gone, Entry

LEMMA StoredType ==
  ASSUME TypeOK, NEW r \in Readers, NEW t \in Tiers
  PROVE  Stored(r, t) \in Entry
<1>1. reader[r].ver \in Nat
  BY DEF TypeOK
<1>2. now + TTL \in Nat
  BY Durations DEF TypeOK
<1>3. QED
  BY <1>1, <1>2 DEF Stored, Entry

\* Serving a version of an entry keeps the readers well typed.
LEMMA ServeType ==
  ASSUME TypeOK, NEW r \in Readers, NEW k \in Entries, NEW v \in Nat, NEW f \in SUBSET Nat, Serve(r, k, v, f)
  PROVE  reader' \in [Readers -> ReaderRec]
<1>1. [Idle EXCEPT !.pc = "served", !.entry = k, !.ver = v, !.at = now, !.floor = f] \in ReaderRec
  BY IdleType DEF ReaderRec, TypeOK
<1>2. QED
  BY <1>1 DEF Serve, TypeOK, ReaderRec

\* The steps of a GET keep every variable well typed.
LEMMA GetType ==
  ASSUME TypeOK, NEW r \in Readers, Get(r)
  PROVE  TypeOK'
<1>1. reader \in [Readers -> ReaderRec]
  BY DEF TypeOK, ReaderRec
<1>2. ASSUME NEW t \in Tiers, Lookup(r, t) PROVE TypeOK'
  <2>1. PICK k \in Entries :
          IF Live(cache[t][k]) THEN Serve(r, k, cache[t][k].ver, Acked(k))
          ELSE reader' = [reader EXCEPT ![r] = [Idle EXCEPT !.pc = "query", !.entry = k, !.floor = Acked(k)]]
    BY <1>2 DEF Lookup
  <2>2. cache[t][k].ver \in Nat /\ Acked(k) \in SUBSET Nat
    BY AckedType DEF TypeOK, Entry
  <2>3. [Idle EXCEPT !.pc = "query", !.entry = k, !.floor = Acked(k)] \in ReaderRec
    BY <2>2, IdleType DEF ReaderRec
  <2>4. reader' \in [Readers -> ReaderRec]
    BY <1>1, <2>1, <2>2, <2>3, ServeType
  <2>5. QED
    BY <1>2, <2>4 DEF Lookup, TypeOK, ReaderRec
<1>3. CASE GetRedis(r)
  BY <1>2, <1>3 DEF GetRedis, Tiers
<1>4. CASE GetMemory(r)
  BY <1>2, <1>4 DEF GetMemory, Tiers
<1>5. CASE Query(r)
  <2>1. reader[r].entry \in Entries
    BY DEF TypeOK
  <2>2. [t \in Tiers |-> purges[t][reader[r].entry]] \in [Tiers -> Nat]
    BY <2>1 DEF TypeOK
  <2>3. [reader[r] EXCEPT !.pc = "store", !.ver = Current(reader[r].entry), !.at = now,
                          !.seen = [t \in Tiers |-> purges[t][reader[r].entry]]] \in ReaderRec
    <3>1. reader[r] \in ReaderRec /\ now \in Nat /\ Current(reader[r].entry) \in Nat
      BY <1>1, <2>1, CurrentNat DEF TypeOK
    <3>2. QED
      BY <3>1, <2>2 DEF ReaderRec
  <2>4. reader' \in [Readers -> ReaderRec]
    BY <1>1, <1>5, <2>3 DEF Query
  <2>5. QED
    BY <1>5, <2>4 DEF Query, TypeOK, ReaderRec
<1>6. CASE SetRedis(r)
  <2>1. reader' \in [Readers -> ReaderRec]
    BY <1>1, <1>6 DEF SetRedis, ReaderRec
  <2>2. cache' \in [Tiers -> [Entries -> Entry]]
    BY <1>6, StoredType DEF SetRedis, TypeOK, Tiers
  <2>3. QED
    BY <1>6, <2>1, <2>2 DEF SetRedis, TypeOK, ReaderRec
<1>7. CASE SetMemory(r)
  <2>1. reader' \in [Readers -> ReaderRec]
    BY <1>1, <1>7, ServeType DEF SetMemory, ReaderRec
  <2>2. cache' \in [Tiers -> [Entries -> Entry]]
    BY <1>7, StoredType DEF SetMemory, TypeOK, Tiers
  <2>3. QED
    BY <1>7, <2>1, <2>2 DEF SetMemory, TypeOK, ReaderRec
<1>8. CASE NextRequest(r)
  <2>1. reader' \in [Readers -> ReaderRec]
    BY <1>1, <1>8, IdleType DEF NextRequest
  <2>2. QED
    BY <1>8, <2>1 DEF NextRequest, TypeOK, ReaderRec
<1>9. QED
  BY <1>3, <1>4, <1>5, <1>6, <1>7, <1>8 DEF Get

\* The steps of a mutation keep every variable well typed.
LEMMA WriteType ==
  ASSUME TypeOK, NEW w \in Writers, Write(w)
  PROVE  TypeOK'
<1>1. writer \in [Writers -> WriterRec] /\ writer[w] \in WriterRec
  BY DEF TypeOK, WriterRec
<1>2. writer[w].cand \in Entries /\ writer[w].pattern \in Entries
  BY <1>1 DEF WriterRec, Entries
<1>3. \A ts, ps : Lost(ts, ps) => missed' \in [Tiers -> [Entries -> Nat]]
  BY CurrentNat DEF Lost, TypeOK
<1>4. \A t \in Tiers : [purges EXCEPT ![t][writer[w].pattern] = @ + 1] \in [Tiers -> [Entries -> Nat]]
  BY <1>2 DEF TypeOK
<1>5. CASE Commit(w)
  <2>1. commits' \in [Entries -> Seq(Nat)]
    <3>1. \A k \in Entries : commits[k] \in Seq(Nat) /\ Append(commits[k], now) \in Seq(Nat)
      BY DEF TypeOK
    <3>2. QED
      BY <1>5, <3>1 DEF Commit
  <2>2. [k \in Entries |-> IF k \in Affected(writer[w].cand) THEN Current(k) + 1 ELSE 0] \in [Entries -> Nat]
    BY CurrentNat
  <2>3. writer' \in [Writers -> WriterRec]
    BY <1>1, <1>5, <2>2 DEF Commit, WriterRec
  <2>4. QED
    BY <1>5, <2>1, <2>3 DEF Commit, TypeOK, WriterRec
<1>6. CASE FailAfterCommit(w)
  <2>1. writer' \in [Writers -> WriterRec]
    BY <1>1, <1>6 DEF FailAfterCommit, WriterRec
  <2>2. QED
    BY <1>3, <1>6, <2>1 DEF FailAfterCommit, TypeOK, WriterRec
<1>7. CASE Invalidate(w)
  <2>1. writer' \in [Writers -> WriterRec]
    BY <1>1, <1>7 DEF Invalidate, WriterRec
  <2>2. QED
    BY <1>7, <2>1 DEF Invalidate, TypeOK, WriterRec
<1>8. CASE ScanRedis(w)
  <2>1. writer' \in [Writers -> WriterRec]
    <3>1. Live(cache["redis"][writer[w].pattern]) \in BOOLEAN
      BY DEF Live
    <3>2. [writer[w] EXCEPT !.pc = "delete", !.found = Live(cache["redis"][writer[w].pattern])] \in WriterRec
      BY <1>1, <3>1 DEF WriterRec
    <3>3. QED
      BY <1>1, <1>8, <3>2 DEF ScanRedis
  <2>2. purges' \in [Tiers -> [Entries -> Nat]]
    BY <1>4, <1>8 DEF ScanRedis, Tiers
  <2>3. QED
    BY <1>8, <2>1, <2>2 DEF ScanRedis, TypeOK, WriterRec
<1>9. CASE DeleteRedis(w)
  <2>1. writer' \in [Writers -> WriterRec]
    BY <1>1, <1>9 DEF DeleteRedis, WriterRec
  <2>2. cache' \in [Tiers -> [Entries -> Entry]]
    BY <1>9, GoneType DEF DeleteRedis, TypeOK
  <2>3. QED
    BY <1>9, <2>1, <2>2 DEF DeleteRedis, TypeOK, WriterRec
<1>10. CASE SkipRedis(w)
  <2>1. writer' \in [Writers -> WriterRec]
    BY <1>1, <1>10 DEF SkipRedis, WriterRec
  <2>2. QED
    BY <1>3, <1>10, <2>1 DEF SkipRedis, TypeOK, WriterRec
<1>11. CASE DeleteMemory(w)
  <2>1. writer' \in [Writers -> WriterRec]
    BY <1>1, <1>2, <1>11 DEF DeleteMemory, WriterRec
  <2>2. cache' \in [Tiers -> [Entries -> Entry]]
    BY <1>11, GoneType DEF DeleteMemory, TypeOK
  <2>3. purges' \in [Tiers -> [Entries -> Nat]]
    BY <1>4, <1>11 DEF DeleteMemory, Tiers
  <2>4. QED
    BY <1>11, <2>1, <2>2, <2>3 DEF DeleteMemory, TypeOK, WriterRec
<1>12. QED
  BY <1>5, <1>6, <1>7, <1>8, <1>9, <1>10, <1>11 DEF Write

\* The cache keeps every variable's type.
THEOREM TypeCorrect == Spec => []TypeOK
<1>1. Init => TypeOK
  <2> SUFFICES ASSUME Init PROVE TypeOK
    OBVIOUS
  <2>1. \A c \in Candidates : Waiting(c) \in WriterRec
    BY DEF Waiting, WriterRec, Entries
  <2>2. writer \in [Writers -> WriterRec] /\ reader \in [Readers -> ReaderRec]
    BY <2>1, IdleType DEF Init
  <2>3. cache \in [Tiers -> [Entries -> Entry]] /\ commits \in [Entries -> Seq(Nat)]
    BY GoneType DEF Init
  <2>4. QED
    BY <2>2, <2>3, RedisIsKnown DEF Init, TypeOK, ReaderRec, WriterRec
<1>2. TypeOK /\ [Next]_vars => TypeOK'
  <2> SUFFICES ASSUME TypeOK, [Next]_vars PROVE TypeOK'
    OBVIOUS
  <2>1. CASE RedisFails \/ RedisReturns
    <3>1. outages' \in Nat
      BY <2>1, CacheBounds DEF RedisFails, RedisReturns, TypeOK
    <3>2. redisUp' \in BOOLEAN
      BY <2>1 DEF RedisFails, RedisReturns
    <3>3. UNCHANGED <<commits, cache, reader, writer, now, crashes, purges, missed>>
      BY <2>1 DEF RedisFails, RedisReturns
    <3>4. QED
      BY <3>1, <3>2, <3>3 DEF TypeOK
  <2>2. CASE Tick
    <3>1. \A t \in Tiers, k \in Entries : Expire(t, k) \in Entry
      BY GoneType DEF Expire, TypeOK
    <3>2. cache' \in [Tiers -> [Entries -> Entry]]
      BY <2>2, <3>1 DEF Tick
    <3>3. QED
      BY <2>2, <3>2 DEF Tick, TypeOK
  <2>3. CASE Crash
    <3>1. cache' \in [Tiers -> [Entries -> Entry]]
      BY <2>3, GoneType DEF Crash, TypeOK
    <3>2. reader' \in [Readers -> ReaderRec]
      BY <2>3, IdleType DEF Crash
    <3>3. writer' \in [Writers -> WriterRec]
      BY <2>3 DEF Crash, TypeOK, WriterRec
    <3>4. missed' \in [Tiers -> [Entries -> Nat]]
      BY <2>3, CurrentNat DEF Crash, Lost, TypeOK
    <3>5. crashes' \in Nat
      BY <2>3, CacheBounds DEF Crash, TypeOK
    <3>6. UNCHANGED <<commits, redisUp, now, outages, purges>>
      BY <2>3 DEF Crash
    <3>7. QED
      BY <3>1, <3>2, <3>3, <3>4, <3>5, <3>6 DEF TypeOK, ReaderRec, WriterRec
  <2>4. CASE UNCHANGED vars
    BY <2>4 DEF vars, TypeOK
  <2>5. QED
    BY <2>1, <2>2, <2>3, <2>4, GetType, WriteType DEF Next
<1>3. QED
  BY <1>1, <1>2, PTL DEF Spec

----------------------------------------------------------------------------
(* Ages is inductive. *)

\* The instant of a commit is a number.
LEMMA CommitNat ==
  ASSUME TypeOK, NEW k \in Entries, NEW v \in Nat, v < Current(k)
  PROVE  commits[k][v + 1] \in Nat /\ v + 1 \in 1..Current(k)
<1>1. commits[k] \in Seq(Nat) /\ Len(commits[k]) \in Nat
  BY DEF TypeOK
<1>2. v + 1 \in 1..Len(commits[k])
  BY <1>1 DEF Current
<1>3. QED
  BY <1>1, <1>2 DEF Current

\* A version outdated by t plus d is outdated by a greater bound too.
LEMMA Weaken ==
  ASSUME TypeOK, NEW k \in Entries, NEW v \in Nat, NEW t \in Nat, NEW d \in Nat, NEW u \in Nat, NEW e \in Nat,
         Outdated(k, v, t, d), u - e <= t - d
  PROVE  Outdated(k, v, u, e)
BY CommitNat DEF Outdated

\* Storing what was queried within MaxQuery keeps the ages of the entries.
LEMMA StoreAges ==
  ASSUME TypeOK, Ages, NEW r \in Readers, Storing(r), NEW t \in Tiers, UNCHANGED <<now, commits>>,
         cache' = [cache EXCEPT ![t][reader[r].entry] = Stored(r, t)]
  PROVE  EntryAges'
<1> DEFINE k == reader[r].entry
<1>1. /\ k \in Entries /\ reader[r].ver \in Nat /\ reader[r].at \in Nat /\ now \in Nat
      /\ Outdated(k, reader[r].ver, reader[r].at, 0) /\ now <= reader[r].at + MaxQuery
  BY DEF Ages, ReaderAges, TypeOK
<1>2. Outdated(k, reader[r].ver, now + TTL, TTL + MaxQuery)
  <2>1. now + TTL \in Nat /\ TTL + MaxQuery \in Nat /\ 0 \in Nat
    BY <1>1, Durations
  <2>2. (now + TTL) - (TTL + MaxQuery) <= reader[r].at - 0
    BY <1>1, Durations
  <2>3. QED
    BY <1>1, <2>1, <2>2, Weaken
<1>3. Stored(r, t).exp <= now + TTL /\ Outdated(k, Stored(r, t).ver, Stored(r, t).exp, TTL + MaxQuery)
  BY <1>1, <1>2, Durations DEF Stored
<1>4. \A s \in Tiers, j \in Entries : cache'[s][j] = cache[s][j] \/ (s = t /\ j = k /\ cache'[s][j] = Stored(r, t))
  BY <1>1 DEF TypeOK
<1>5. QED
  BY <1>3, <1>4 DEF Ages, EntryAges, Outdated, Current

\* A reader that serves a version old enough to be in the cache.
LEMMA ServeAges ==
  ASSUME TypeOK, Ages, NEW r \in Readers, NEW k \in Entries, NEW v \in Nat, NEW f, Serve(r, k, v, f),
         Outdated(k, v, now, TTL + MaxQuery), UNCHANGED <<now, commits>>
  PROVE  ReaderAges'
<1>1. \A x \in Readers \ {r} : reader'[x] = reader[x]
  BY DEF Serve, TypeOK
<1>2. reader'[r].pc = "served" /\ reader'[r].entry = k /\ reader'[r].ver = v /\ reader'[r].at = now
  BY DEF Serve, Idle, TypeOK
<1>3. now \in Nat
  BY DEF TypeOK
<1>4. QED
  BY <1>1, <1>2, <1>3 DEF Ages, ReaderAges, Storing, Outdated, Current

\* The steps of a GET keep the ages.
LEMMA GetAges ==
  ASSUME TypeOK, Ages, NEW r \in Readers, Get(r)
  PROVE  Ages'
<1>1. UNCHANGED <<now, commits>>
  BY DEF Get, GetRedis, GetMemory, Lookup, Query, SetRedis, SetMemory, NextRequest
<1>2. PastCommits'
  BY <1>1 DEF Ages, PastCommits, Current
<1>3. now \in Nat /\ reader[r].entry \in Entries /\ reader[r].ver \in Nat /\ reader[r].at \in Nat
  BY DEF TypeOK
<1>4. ASSUME UNCHANGED cache PROVE EntryAges'
  BY <1>1, <1>4 DEF Ages, EntryAges, Outdated, Current
<1>5. ASSUME reader'[r].pc \in {"idle", "query"}, reader'[r].at = 0,
             \A x \in Readers \ {r} : reader'[x] = reader[x]
      PROVE  ReaderAges'
  BY <1>1, <1>3, <1>5 DEF Ages, ReaderAges, Storing, Outdated, Current
<1>6. ASSUME NEW t \in Tiers, Lookup(r, t) PROVE Ages'
  <2>1. UNCHANGED cache
    BY <1>6 DEF Lookup
  <2>2. PICK k \in Entries :
          IF Live(cache[t][k]) THEN Serve(r, k, cache[t][k].ver, Acked(k))
          ELSE reader' = [reader EXCEPT ![r] = [Idle EXCEPT !.pc = "query", !.entry = k, !.floor = Acked(k)]]
    BY <1>6 DEF Lookup
  <2>3. CASE Live(cache[t][k])
    <3>1. cache[t][k].ver \in Nat /\ cache[t][k].exp \in Nat /\ now < cache[t][k].exp
      BY <2>3 DEF TypeOK, Entry, Live
    <3>2. cache[t][k] # Gone
      BY <1>3, <3>1 DEF Gone
    <3>3. Outdated(k, cache[t][k].ver, cache[t][k].exp, TTL + MaxQuery)
      BY <3>2 DEF Ages, EntryAges
    <3>4. Outdated(k, cache[t][k].ver, now, TTL + MaxQuery)
      BY <1>3, <3>1, <3>3, Weaken, Durations
    <3>5. QED
      BY <1>1, <1>2, <1>4, <2>1, <2>2, <2>3, <3>1, <3>4, ServeAges DEF Ages
  <2>4. CASE ~Live(cache[t][k])
    <3>1. reader' = [reader EXCEPT ![r] = [Idle EXCEPT !.pc = "query", !.entry = k, !.floor = Acked(k)]]
      BY <2>2, <2>4
    <3>2. /\ [Idle EXCEPT !.pc = "query", !.entry = k, !.floor = Acked(k)].pc = "query"
          /\ [Idle EXCEPT !.pc = "query", !.entry = k, !.floor = Acked(k)].at = 0
      BY DEF Idle
    <3>3. reader'[r].pc = "query" /\ reader'[r].at = 0 /\ \A x \in Readers \ {r} : reader'[x] = reader[x]
      BY <3>1, <3>2 DEF TypeOK
    <3>4. QED
      BY <1>2, <1>4, <1>5, <2>1, <3>3 DEF Ages
  <2>5. QED
    BY <2>3, <2>4
<1>7. CASE GetRedis(r) \/ GetMemory(r)
  BY <1>6, <1>7 DEF GetRedis, GetMemory, Tiers
<1>8. CASE Query(r)
  <2>1. /\ reader'[r].entry = reader[r].entry /\ reader'[r].ver = Current(reader[r].entry) /\ reader'[r].at = now
        /\ reader'[r].pc = "store"
        /\ \A x \in Readers \ {r} : reader'[x] = reader[x]
    BY <1>8 DEF Query, TypeOK
  <2>2. Current(reader[r].entry) \in Nat
    BY <1>3, CurrentNat
  <2>3. now <= now + MaxQuery
    BY <1>3, Durations
  <2>4. ReaderAges'
    BY <1>1, <1>3, <2>1, <2>2, <2>3 DEF Ages, ReaderAges, Storing, Outdated, Current
  <2>5. QED
    BY <1>2, <1>4, <1>8, <2>4 DEF Ages, Query
<1>9. CASE SetRedis(r)
  <2>1. EntryAges'
    BY <1>1, <1>4, <1>9, StoreAges DEF SetRedis, Storing, Tiers
  <2>2. \A x \in Readers : /\ reader'[x].entry = reader[x].entry /\ reader'[x].ver = reader[x].ver
                           /\ reader'[x].at = reader[x].at
                           /\ reader'[x].pc = reader[x].pc \/ (Storing(x) /\ reader'[x].pc = "storeMemory")
    BY <1>9 DEF SetRedis, Storing, TypeOK
  <2>3. ReaderAges'
    BY <1>1, <2>2 DEF Ages, ReaderAges, Storing, Outdated, Current
  <2>4. QED
    BY <1>2, <2>1, <2>3 DEF Ages
<1>10. CASE SetMemory(r)
  <2>1. Storing(r)
    BY <1>10 DEF SetMemory, Storing
  <2>2. EntryAges'
    BY <1>1, <1>10, <2>1, StoreAges DEF SetMemory, Tiers
  <2>3. Outdated(reader[r].entry, reader[r].ver, reader[r].at, 0) /\ now <= reader[r].at + MaxQuery
    BY <2>1 DEF Ages, ReaderAges
  <2>4. Outdated(reader[r].entry, reader[r].ver, now, TTL + MaxQuery)
    BY <1>3, <2>3, Weaken, Durations
  <2>5. QED
    BY <1>1, <1>2, <1>3, <1>10, <2>2, <2>4, ServeAges DEF Ages, SetMemory
<1>11. CASE NextRequest(r)
  <2>1. reader'[r].pc = "idle" /\ reader'[r].at = 0 /\ \A x \in Readers \ {r} : reader'[x] = reader[x]
    BY <1>11 DEF NextRequest, Idle, TypeOK
  <2>2. QED
    BY <1>2, <1>4, <1>5, <1>11, <2>1 DEF Ages, NextRequest
<1>12. QED
  BY <1>7, <1>8, <1>9, <1>10, <1>11 DEF Get

\* A commit now: what it outdates is younger than the bounds allow.
LEMMA CommitAges ==
  ASSUME TypeOK, Ages, NEW w \in Writers, Commit(w)
  PROVE  Ages'
<1>1. now \in Nat /\ now' = now /\ UNCHANGED <<cache, reader>>
  BY DEF Commit, TypeOK
<1>2. \A k \in Entries : /\ commits[k] \in Seq(Nat)
                         /\ commits'[k] = commits[k] \/ commits'[k] = Append(commits[k], now)
  BY DEF Commit, TypeOK
<1>3. \A k \in Entries : \/ commits'[k] = commits[k] /\ Len(commits'[k]) = Len(commits[k])
                         \/ /\ Len(commits'[k]) = Len(commits[k]) + 1
                            /\ commits'[k][Len(commits[k]) + 1] = now
                            /\ \A i \in 1..Len(commits[k]) : commits'[k][i] = commits[k][i]
  BY <1>1, <1>2
<1>4. \A k \in Entries : Len(commits[k]) \in Nat
  BY <1>2
<1>5. PastCommits'
  BY <1>1, <1>3, <1>4 DEF Ages, PastCommits, Current
<1>6. ASSUME NEW k \in Entries, NEW v \in Nat, NEW t \in Nat, NEW d \in Nat, Outdated(k, v, t, d), t <= now + d
      PROVE  Outdated(k, v, t, d)'
  <2>1. v <= Len(commits[k]) /\ (v < Len(commits[k]) => t <= commits[k][v + 1] + d)
    BY <1>6 DEF Outdated, Current
  <2>2. CASE commits'[k] = commits[k] /\ Len(commits'[k]) = Len(commits[k])
    BY <2>1, <2>2 DEF Outdated, Current
  <2>3. CASE /\ Len(commits'[k]) = Len(commits[k]) + 1
             /\ commits'[k][Len(commits[k]) + 1] = now
             /\ \A i \in 1..Len(commits[k]) : commits'[k][i] = commits[k][i]
    <3>1. CASE v < Len(commits[k])
      <4>1. v + 1 \in 1..Len(commits[k])
        BY <1>4, <3>1
      <4>2. QED
        BY <1>4, <2>1, <2>3, <3>1, <4>1 DEF Outdated, Current
    <3>2. CASE v = Len(commits[k])
      BY <1>4, <1>6, <2>3, <3>2 DEF Outdated, Current
    <3>3. QED
      BY <1>4, <2>1, <3>1, <3>2
  <2>4. QED
    BY <1>3, <2>2, <2>3
<1>7. EntryAges'
  <2> SUFFICES ASSUME NEW t \in Tiers, NEW k \in Entries, cache[t][k] # Gone
               PROVE  /\ cache[t][k].exp <= now + TTL
                      /\ Outdated(k, cache[t][k].ver, cache[t][k].exp, TTL + MaxQuery)'
    BY <1>1 DEF EntryAges, Outdated, Current
  <2>1. cache[t][k].exp \in Nat /\ cache[t][k].ver \in Nat
    BY DEF TypeOK, Entry
  <2>2. cache[t][k].exp <= now + TTL /\ Outdated(k, cache[t][k].ver, cache[t][k].exp, TTL + MaxQuery)
    BY DEF Ages, EntryAges
  <2>3. TTL + MaxQuery \in Nat /\ cache[t][k].exp <= now + (TTL + MaxQuery)
    BY <1>1, <2>1, <2>2, Durations
  <2>4. Outdated(k, cache[t][k].ver, cache[t][k].exp, TTL + MaxQuery)'
    BY <1>1, <1>6, <2>1, <2>2, <2>3
  <2>5. QED
    BY <2>2, <2>4
<1>8. ReaderAges'
  <2> SUFFICES ASSUME NEW r \in Readers
               PROVE  /\ reader[r].at <= now
                      /\ Storing(r) => /\ now <= reader[r].at + MaxQuery
                                       /\ Outdated(reader[r].entry, reader[r].ver, reader[r].at, 0)'
                      /\ reader[r].pc = "served" =>
                           Outdated(reader[r].entry, reader[r].ver, reader[r].at, TTL + MaxQuery)'
    BY <1>1 DEF ReaderAges, Storing, Outdated, Current
  <2>1. reader[r].entry \in Entries /\ reader[r].ver \in Nat /\ reader[r].at \in Nat
    BY DEF TypeOK
  <2>2. reader[r].at <= now
    BY DEF Ages, ReaderAges
  <2>3. ASSUME Storing(r)
        PROVE  /\ now <= reader[r].at + MaxQuery
               /\ Outdated(reader[r].entry, reader[r].ver, reader[r].at, 0)'
    <3>1. now <= reader[r].at + MaxQuery /\ Outdated(reader[r].entry, reader[r].ver, reader[r].at, 0)
      BY <2>3 DEF Ages, ReaderAges
    <3>2. reader[r].at <= now + 0 /\ 0 \in Nat
      BY <1>1, <2>1, <2>2
    <3>3. Outdated(reader[r].entry, reader[r].ver, reader[r].at, 0)'
      BY <1>1, <1>6, <2>1, <3>1, <3>2
    <3>4. QED
      BY <3>1, <3>3
  <2>4. ASSUME reader[r].pc = "served"
        PROVE  Outdated(reader[r].entry, reader[r].ver, reader[r].at, TTL + MaxQuery)'
    <3>1. Outdated(reader[r].entry, reader[r].ver, reader[r].at, TTL + MaxQuery)
      BY <2>4 DEF Ages, ReaderAges
    <3>2. reader[r].at <= now + (TTL + MaxQuery) /\ TTL + MaxQuery \in Nat
      BY <1>1, <2>1, <2>2, Durations
    <3>3. QED
      BY <1>1, <1>6, <2>1, <3>1, <3>2
  <2>5. QED
    BY <2>2, <2>3, <2>4
<1>9. QED
  BY <1>5, <1>7, <1>8 DEF Ages

\* The steps that neither commit nor store: entries may go, readers may be reset.
LEMMA QuietAges ==
  ASSUME TypeOK, Ages, UNCHANGED <<now, commits>>,
         \A t \in Tiers, k \in Entries : cache'[t][k] \in {cache[t][k], Gone},
         reader' = reader \/ reader' = [r \in Readers |-> Idle]
  PROVE  Ages'
<1>1. now \in Nat /\ Idle.at = 0 /\ Idle.pc = "idle"
  BY DEF TypeOK, Idle
<1>2. PastCommits'
  BY DEF Ages, PastCommits, Current
<1>3. EntryAges'
  BY DEF Ages, EntryAges, Outdated, Current
<1>4. ReaderAges'
  BY <1>1 DEF Ages, ReaderAges, Storing, Outdated, Current
<1>5. QED
  BY <1>2, <1>3, <1>4 DEF Ages

\* The other steps of a mutation only purge.
LEMMA WriteAges ==
  ASSUME TypeOK, Ages, NEW w \in Writers, Write(w)
  PROVE  Ages'
<1>1. CASE Commit(w)
  BY <1>1, CommitAges
<1>2. CASE ~Commit(w)
  <2>1. UNCHANGED <<now, commits, reader>>
    BY <1>2 DEF Write, FailAfterCommit, Invalidate, ScanRedis, DeleteRedis, SkipRedis, DeleteMemory
  <2>2. \A t \in Tiers, k \in Entries : cache'[t][k] \in {cache[t][k], Gone}
    <3>1. cache \in [Tiers -> [Entries -> Entry]]
      BY DEF TypeOK
    <3>2. CASE DeleteRedis(w)
      BY <3>1, <3>2 DEF DeleteRedis
    <3>3. CASE DeleteMemory(w)
      BY <3>1, <3>3 DEF DeleteMemory
    <3>4. CASE UNCHANGED cache
      BY <3>4
    <3>5. QED
      BY <1>2, <3>2, <3>3, <3>4 DEF Write, FailAfterCommit, Invalidate, ScanRedis, SkipRedis
  <2>3. QED
    BY <2>1, <2>2, QuietAges
<1>3. QED
  BY <1>1, <1>2

\* Time passes: nobody stores for longer than MaxQuery, and entries expire.
LEMMA TickAges ==
  ASSUME TypeOK, Ages, Tick
  PROVE  Ages'
<1>1. now \in Nat /\ now' = now + 1 /\ UNCHANGED <<commits, reader>>
  BY DEF Tick, TypeOK
<1>2. \A k \in Entries : commits[k] \in Seq(Nat)
  BY DEF TypeOK
<1>3. PastCommits'
  <2>1. \A k \in Entries : \A i \in 1..Len(commits[k]) : commits[k][i] \in Nat /\ commits[k][i] <= now
    BY <1>2 DEF Ages, PastCommits, Current
  <2>2. QED
    BY <1>1, <2>1 DEF PastCommits, Current
<1>4. EntryAges'
  <2> SUFFICES ASSUME NEW t \in Tiers, NEW k \in Entries, cache'[t][k] # Gone
               PROVE  /\ cache'[t][k].exp <= now + 1 + TTL
                      /\ Outdated(k, cache'[t][k].ver, cache'[t][k].exp, TTL + MaxQuery)
    BY <1>1 DEF EntryAges, Outdated, Current
  <2>1. cache'[t][k] = Expire(t, k)
    BY DEF Tick
  <2>2. cache'[t][k] = cache[t][k]
    BY <2>1 DEF Expire
  <2>3. cache[t][k].exp \in Nat
    BY DEF TypeOK, Entry
  <2>4. cache[t][k].exp <= now + TTL /\ Outdated(k, cache[t][k].ver, cache[t][k].exp, TTL + MaxQuery)
    BY <2>2 DEF Ages, EntryAges
  <2>5. QED
    BY <1>1, <2>2, <2>3, <2>4, Durations
<1>5. ReaderAges'
  <2> SUFFICES ASSUME NEW r \in Readers
               PROVE  /\ reader[r].at <= now + 1
                      /\ Storing(r) => /\ now + 1 <= reader[r].at + MaxQuery
                                       /\ Outdated(reader[r].entry, reader[r].ver, reader[r].at, 0)
                      /\ reader[r].pc = "served" =>
                           Outdated(reader[r].entry, reader[r].ver, reader[r].at, TTL + MaxQuery)
    BY <1>1 DEF ReaderAges, Storing, Outdated, Current
  <2>1. reader[r].at \in Nat
    BY DEF TypeOK
  <2>2. Storing(r) => now < reader[r].at + MaxQuery
    BY DEF Tick
  <2>3. QED
    BY <1>1, <2>1, <2>2, Durations DEF Ages, ReaderAges
<1>6. QED
  BY <1>3, <1>4, <1>5 DEF Ages

\* Every entry and every answer is young enough in every reachable state.
THEOREM AgesHold == Spec => [](TypeOK /\ Ages)
<1>1. Init => Ages
  <2> SUFFICES ASSUME Init PROVE Ages
    OBVIOUS
  <2>1. PastCommits
    BY DEF Init, PastCommits, Current
  <2>2. EntryAges
    BY DEF Init, EntryAges
  <2>3. ReaderAges
    BY DEF Init, ReaderAges, Idle, Storing
  <2>4. QED
    BY <2>1, <2>2, <2>3 DEF Ages
<1>2. TypeOK /\ Ages /\ [Next]_vars => Ages'
  <2> SUFFICES ASSUME TypeOK, Ages, [Next]_vars PROVE Ages'
    OBVIOUS
  <2>1. CASE RedisFails \/ RedisReturns \/ UNCHANGED vars
    <3>1. UNCHANGED <<now, commits, cache, reader>>
      BY <2>1 DEF RedisFails, RedisReturns, vars
    <3>2. QED
      BY <3>1, QuietAges
  <2>2. CASE Crash
    <3>1. UNCHANGED <<now, commits>> /\ reader' = [r \in Readers |-> Idle]
      BY <2>2 DEF Crash
    <3>2. \A t \in Tiers, k \in Entries : cache'[t][k] \in {cache[t][k], Gone}
      BY <2>2 DEF Crash, TypeOK
    <3>3. QED
      BY <3>1, <3>2, QuietAges
  <2>3. QED
    BY <2>1, <2>2, GetAges, WriteAges, TickAges DEF Next
<1>3. QED
  BY <1>1, <1>2, TypeCorrect, PTL DEF Spec

\* An answer is at most one TTL and one query older than what outdated it.
THEOREM StalenessIsBounded == Spec => []BoundedStaleness
<1>1. TypeOK /\ Ages => BoundedStaleness
  <2> SUFFICES ASSUME TypeOK, Ages, NEW r \in Readers, reader[r].pc = "served",
                      reader[r].ver < Current(reader[r].entry)
               PROVE  reader[r].at <= commits[reader[r].entry][reader[r].ver + 1] + TTL + MaxQuery
    BY DEF BoundedStaleness
  <2>1. reader[r].entry \in Entries /\ reader[r].ver \in Nat /\ reader[r].at \in Nat
    BY DEF TypeOK
  <2>2. commits[reader[r].entry][reader[r].ver + 1] \in Nat
    BY <2>1, CommitNat
  <2>3. reader[r].at <= commits[reader[r].entry][reader[r].ver + 1] + (TTL + MaxQuery)
    BY DEF Ages, ReaderAges, Outdated
  <2>4. QED
    BY <2>1, <2>2, <2>3, Durations
<1>2. QED
  BY <1>1, AgesHold, PTL

----------------------------------------------------------------------------
(* Why an entry is outdated. *)

\* If version v of entry k is outdated, and no invalidation of it was lost, one is on its way.
Covered(t, k, v) ==
  v < Current(k) /\ v >= missed[t][k] => \E w \in Writers : Coming(w, t, k)

\* No invalidation has come since the query of reader r: what it will store is covered.
Unraced(r, t) == Storing(r) /\ reader[r].seen[t] = purges[t][reader[r].entry]
ReadersCovered ==
  \A r \in Readers, t \in Tiers :
    /\ Storing(r) => reader[r].seen[t] <= purges[t][reader[r].entry]
    /\ Unraced(r, t) => Covered(t, reader[r].entry, reader[r].ver)

\* What was queried since a writer has scanned Redis will not need its delete.
DeleteClean ==
  \A w \in Writers, r \in Readers :
    writer[w].pc = "delete" /\ reader[r].entry = writer[w].pattern /\ Unraced(r, "redis") =>
      reader[r].ver >= Current(writer[w].pattern)

WritersInOrder ==
  \A w \in Writers :
    /\ writer[w].pc \in {"new", "webhooks"} => writer[w].pattern = "list"
    /\ writer[w].pattern \in Affected(writer[w].cand)

\* The inductive invariant behind StaleOnlyByRace.
SInv == StaleOnlyByRace /\ ReadersCovered /\ DeleteClean /\ WritersInOrder

LEMMA StaleIsUncovered ==
  StaleOnlyByRace <=>
    \A t \in Tiers, k \in Entries :
      Live(cache[t][k]) /\ ~cache[t][k].raced => Covered(t, k, cache[t][k].ver)
BY DEF StaleOnlyByRace, Covered

LEMMA StaleNextIsUncovered ==
  StaleOnlyByRace' <=>
    \A t \in Tiers, k \in Entries :
      Live(cache[t][k])' /\ ~cache'[t][k].raced => Covered(t, k, cache[t][k].ver)'
BY DEF StaleOnlyByRace, Covered

\* An invalidation on its way goes on, or is lost: then what was covered still is.
LEMMA CoveredKept ==
  ASSUME TypeOK, UNCHANGED commits, NEW t \in Tiers, NEW k \in Entries,
         missed'[t][k] \in {missed[t][k], Current(k)},
         \A w \in Writers : Coming(w, t, k) => Coming(w, t, k)' \/ missed'[t][k] = Current(k)
  PROVE  \A v \in Nat : Covered(t, k, v) => Covered(t, k, v)'
<1>1. Current(k)' = Current(k) /\ Current(k) \in Nat
  BY CurrentNat DEF Current
<1> SUFFICES ASSUME NEW v \in Nat, Covered(t, k, v), v < Current(k), v >= missed'[t][k]
             PROVE  \E w \in Writers : Coming(w, t, k)'
  BY <1>1 DEF Covered
<1>2. missed'[t][k] = missed[t][k] /\ missed'[t][k] # Current(k)
  BY <1>1
<1> QED
  BY <1>2 DEF Covered

----------------------------------------------------------------------------
(* The steps of a GET. *)

\* A reader queries, goes on with what it has queried, or is done; what it stores is covered.
LEMMA ReadKeeps ==
  ASSUME TypeOK, SInv, UNCHANGED <<commits, writer, purges, missed, now>>,
         \A r \in Readers :
           \/ ~Storing(r)'
           \/ /\ Storing(r) /\ reader'[r].entry = reader[r].entry
              /\ reader'[r].ver = reader[r].ver /\ reader'[r].seen = reader[r].seen
           \/ /\ reader'[r].entry \in Entries /\ reader'[r].ver = Current(reader'[r].entry)
              /\ \A t \in Tiers : reader'[r].seen[t] = purges[t][reader'[r].entry],
         \A t \in Tiers, k \in Entries :
           \/ cache'[t][k] = cache[t][k]
           \/ cache'[t][k].raced
           \/ Covered(t, k, cache'[t][k].ver)
  PROVE  SInv'
<1>1. \A t, k, v : Covered(t, k, v) <=> Covered(t, k, v)'
  BY DEF Covered, Current, Coming, Invalidating
<1>2. StaleOnlyByRace'
  <2> SUFFICES ASSUME NEW t \in Tiers, NEW k \in Entries, Live(cache[t][k])', ~cache'[t][k].raced
               PROVE  Covered(t, k, cache'[t][k].ver)
    BY <1>1, StaleNextIsUncovered
  <2> QED
    BY StaleIsUncovered DEF SInv, Live
<1>3. ReadersCovered'
  <2> SUFFICES ASSUME NEW r \in Readers, NEW t \in Tiers, Storing(r)'
               PROVE  /\ reader'[r].seen[t] <= purges[t][reader'[r].entry]
                      /\ reader'[r].seen[t] = purges[t][reader'[r].entry] =>
                           Covered(t, reader'[r].entry, reader'[r].ver)
    BY <1>1 DEF ReadersCovered, Unraced
  <2>1. CASE /\ Storing(r) /\ reader'[r].entry = reader[r].entry
             /\ reader'[r].ver = reader[r].ver /\ reader'[r].seen = reader[r].seen
    BY <2>1 DEF SInv, ReadersCovered, Unraced
  <2>2. CASE /\ reader'[r].entry \in Entries /\ reader'[r].ver = Current(reader'[r].entry)
             /\ \A u \in Tiers : reader'[r].seen[u] = purges[u][reader'[r].entry]
    <3>1. Current(reader'[r].entry) \in Nat /\ purges[t][reader'[r].entry] \in Nat
      BY <2>2, CurrentNat DEF TypeOK
    <3> QED
      BY <2>2, <3>1 DEF Covered
  <2> QED
    BY <2>1, <2>2
<1>4. DeleteClean'
  <2> SUFFICES ASSUME NEW w \in Writers, NEW r \in Readers, writer[w].pc = "delete",
                      reader'[r].entry = writer[w].pattern, Unraced(r, "redis")'
               PROVE  reader'[r].ver >= Current(writer[w].pattern)
    BY DEF DeleteClean, Current
  <2>1. Current(writer[w].pattern) \in Nat
    BY CurrentNat DEF TypeOK
  <2>2. CASE /\ Storing(r) /\ reader'[r].entry = reader[r].entry
             /\ reader'[r].ver = reader[r].ver /\ reader'[r].seen = reader[r].seen
    BY <2>2 DEF SInv, DeleteClean, Unraced
  <2> QED
    BY <2>1, <2>2 DEF Unraced
<1>5. WritersInOrder'
  BY DEF SInv, WritersInOrder, Affected
<1> QED
  BY <1>2, <1>3, <1>4, <1>5 DEF SInv

\* What a reader stores without a race is covered.
LEMMA StoredCovered ==
  ASSUME TypeOK, SInv, NEW r \in Readers, NEW t \in Tiers, Storing(r)
  PROVE  Stored(r, t).raced \/ Covered(t, reader[r].entry, Stored(r, t).ver)
<1> DEFINE e == Stored(r, t)
<1>1. e.ver = reader[r].ver /\ (~e.raced => purges[t][reader[r].entry] = reader[r].seen[t])
  BY DEF Stored
<1> QED
  BY <1>1 DEF SInv, ReadersCovered, Unraced

\* A lookup serves its reader or sends it to the database.
LEMMA LookupReads ==
  ASSUME TypeOK, NEW r \in Readers, NEW t \in Tiers, Lookup(r, t)
  PROVE  reader'[r].pc \in {"served", "query"} /\ \A x \in Readers : x # r => reader'[x] = reader[x]
<1>1. PICK k \in Entries :
        IF Live(cache[t][k]) THEN Serve(r, k, cache[t][k].ver, Acked(k))
        ELSE reader' = [reader EXCEPT ![r] = [Idle EXCEPT !.pc = "query", !.entry = k, !.floor = Acked(k)]]
  BY DEF Lookup
<1>2. CASE Live(cache[t][k])
  <2>1. PICK a : a = [Idle EXCEPT !.pc = "served", !.entry = k, !.ver = cache[t][k].ver, !.at = now,
                                  !.floor = Acked(k)]
    OBVIOUS
  <2>2. a.pc = "served"
    BY <2>1 DEF Idle
  <2>3. reader' = [reader EXCEPT ![r] = a]
    BY <1>1, <1>2, <2>1 DEF Serve
  <2> QED
    BY <2>2, <2>3 DEF TypeOK
<1>3. CASE ~Live(cache[t][k])
  <2>1. PICK a : a = [Idle EXCEPT !.pc = "query", !.entry = k, !.floor = Acked(k)]
    OBVIOUS
  <2>2. a.pc = "query"
    BY <2>1 DEF Idle
  <2>3. reader' = [reader EXCEPT ![r] = a]
    BY <1>1, <1>3, <2>1
  <2> QED
    BY <2>2, <2>3 DEF TypeOK
<1> QED
  BY <1>2, <1>3

\* The steps of a GET keep what is covered.
LEMMA GetCovers ==
  ASSUME TypeOK, SInv, NEW r \in Readers, Get(r)
  PROVE  SInv'
<1>1. UNCHANGED <<commits, writer, purges, missed, now>>
  BY DEF Get, GetRedis, GetMemory, Lookup, Query, SetRedis, SetMemory, NextRequest
<1>2. \A x \in Readers : x # r => reader'[x] = reader[x]
  <2>1. CASE GetRedis(r) \/ GetMemory(r)
    BY <2>1, LookupReads DEF GetRedis, GetMemory, TypeOK, Tiers
  <2>2. CASE Query(r) \/ SetRedis(r) \/ SetMemory(r) \/ NextRequest(r)
    BY <2>2 DEF Query, SetRedis, SetMemory, Serve, NextRequest, TypeOK
  <2> QED
    BY <2>1, <2>2 DEF Get
<1>3. ASSUME ~Storing(r)', UNCHANGED cache PROVE SInv'
  BY <1>1, <1>2, <1>3, ReadKeeps DEF Storing
<1>4. reader[r].entry \in Entries /\ cache \in [Tiers -> [Entries -> Entry]]
  BY DEF TypeOK
<1>5. CASE GetRedis(r) \/ GetMemory(r)
  <2>1. PICK t \in Tiers : Lookup(r, t)
    BY <1>5 DEF GetRedis, GetMemory, Tiers
  <2>2. reader'[r].pc \in {"served", "query"} /\ UNCHANGED cache
    BY <2>1, LookupReads DEF Lookup, TypeOK
  <2> QED
    BY <1>3, <2>2 DEF Storing
<1>6. CASE Query(r)
  <2>1. /\ reader'[r].entry = reader[r].entry /\ reader'[r].ver = Current(reader[r].entry)
        /\ \A t \in Tiers : reader'[r].seen[t] = purges[t][reader[r].entry]
        /\ UNCHANGED cache
    BY <1>6 DEF Query, TypeOK
  <2> QED
    BY <1>1, <1>2, <1>4, <2>1, ReadKeeps DEF Storing
<1>7. CASE SetRedis(r)
  <2>1. /\ Storing(r) /\ reader'[r].entry = reader[r].entry
        /\ reader'[r].ver = reader[r].ver /\ reader'[r].seen = reader[r].seen
    BY <1>7 DEF SetRedis, Storing, TypeOK
  <2>2. \A t \in Tiers, k \in Entries :
          \/ cache'[t][k] = cache[t][k]
          \/ k = reader[r].entry /\ cache'[t][k] = Stored(r, t)
    BY <1>4, <1>7 DEF SetRedis, Tiers
  <2> QED
    BY <1>1, <1>2, <2>1, <2>2, StoredCovered, ReadKeeps DEF Storing
<1>8. CASE SetMemory(r)
  <2>1. Storing(r) /\ ~Storing(r)'
    BY <1>8 DEF SetMemory, Storing, Serve, Idle, TypeOK
  <2>2. \A t \in Tiers, k \in Entries :
          \/ cache'[t][k] = cache[t][k]
          \/ k = reader[r].entry /\ cache'[t][k] = Stored(r, t)
    BY <1>4, <1>8 DEF SetMemory, Tiers
  <2> QED
    BY <1>1, <1>2, <2>1, <2>2, StoredCovered, ReadKeeps DEF Storing
<1>9. CASE NextRequest(r)
  <2>1. reader'[r].pc = "idle" /\ UNCHANGED cache
    BY <1>9 DEF NextRequest, Idle, TypeOK
  <2> QED
    BY <1>3, <2>1 DEF Storing
<1> QED
  BY <1>5, <1>6, <1>7, <1>8, <1>9 DEF Get

----------------------------------------------------------------------------
(* The other steps. *)

\* A step that stores nothing: what it leaves behind must still be covered.
LEMMA StepCovers ==
  ASSUME TypeOK, SInv, DeleteClean', WritersInOrder',
         \A t \in Tiers, k \in Entries :
           Live(cache[t][k])' => /\ Live(cache[t][k]) /\ cache'[t][k] = cache[t][k]
                                 /\ \A v \in Nat : Covered(t, k, v) => Covered(t, k, v)',
         \A r \in Readers : Storing(r)' => Storing(r) /\ reader'[r] = reader[r],
         \A t \in Tiers, k \in Entries : purges'[t][k] \in Nat /\ purges'[t][k] >= purges[t][k],
         \A r \in Readers, t \in Tiers :
           Unraced(r, t)' /\ Unraced(r, t) /\ Covered(t, reader[r].entry, reader[r].ver) =>
             Covered(t, reader[r].entry, reader[r].ver)'
  PROVE  SInv'
<1>1. StaleOnlyByRace'
  <2> SUFFICES ASSUME NEW t \in Tiers, NEW k \in Entries, Live(cache[t][k])', ~cache'[t][k].raced
               PROVE  Covered(t, k, cache[t][k].ver)'
    BY StaleNextIsUncovered
  <2>1. cache[t][k].ver \in Nat
    BY DEF TypeOK, Entry
  <2>2. Covered(t, k, cache[t][k].ver)
    BY StaleIsUncovered DEF SInv
  <2>3. PICK v \in Nat : v = cache[t][k].ver
    BY <2>1
  <2>4. Covered(t, k, v)' /\ cache'[t][k].ver = v
    BY <2>2, <2>3
  <2> QED
    BY <2>4 DEF Covered
<1>2. ReadersCovered'
  <2> SUFFICES ASSUME NEW r \in Readers, NEW t \in Tiers, Storing(r)'
               PROVE  /\ reader'[r].seen[t] <= purges'[t][reader'[r].entry]
                      /\ Unraced(r, t)' => Covered(t, reader[r].entry, reader[r].ver)'
    BY DEF ReadersCovered, Unraced
  <2>1. Storing(r) /\ reader'[r] = reader[r] /\ reader[r].entry \in Entries
    BY DEF TypeOK
  <2>2. reader[r].seen[t] \in Nat /\ purges[t][reader[r].entry] \in Nat
    BY DEF TypeOK
  <2>3. reader[r].seen[t] <= purges[t][reader[r].entry]
    BY <2>1 DEF SInv, ReadersCovered
  <2>4. reader'[r].seen[t] <= purges'[t][reader'[r].entry]
    BY <2>1, <2>2, <2>3
  <2>5. ASSUME Unraced(r, t)' PROVE Covered(t, reader[r].entry, reader[r].ver)'
    <3>1. Unraced(r, t)
      BY <2>1, <2>2, <2>3, <2>5 DEF Unraced
    <3> QED
      BY <2>5, <3>1 DEF SInv, ReadersCovered
  <2> QED
    BY <2>4, <2>5
<1> QED
  BY <1>1, <1>2 DEF SInv

\* Nothing is live in an entry that is gone.
LEMMA GoneIsDead == ASSUME NEW n \in Nat PROVE ~(n < Gone.exp)
BY DEF Gone

\* A commit outdates its entries, and their invalidation is on its way.
LEMMA CommitCovers ==
  ASSUME TypeOK, SInv, NEW w \in Writers, Commit(w)
  PROVE  SInv'
<1> DEFINE a == Affected(writer[w].cand)
<1>1. /\ UNCHANGED <<cache, reader, now, purges, missed>>
      /\ \A x \in Writers : x # w => writer'[x] = writer[x]
      /\ writer'[w].cand = writer[w].cand /\ writer'[w].pattern = writer[w].pattern
      /\ writer'[w].pc = "webhooks" /\ writer[w].pc = "new"
  BY DEF Commit, TypeOK
<1>2. \A x \in Writers : writer'[x].pc # "delete"
  BY <1>1 DEF Commit, LoopFree, Invalidating
<1>3. \A k \in Entries \ a : Current(k)' = Current(k)
  BY DEF Commit, Current
<1>4. \A t \in Tiers, k \in Entries, v \in Nat : Covered(t, k, v) => Covered(t, k, v)'
  <2> SUFFICES ASSUME NEW t \in Tiers, NEW k \in Entries, NEW v \in Nat, Covered(t, k, v) PROVE Covered(t, k, v)'
    OBVIOUS
  <2>1. CASE k \in a
    <3>1. Coming(w, t, k)'
      BY <1>1, <2>1 DEF Coming, Affected
    <3> QED
      BY <3>1 DEF Covered
  <2>2. CASE k \notin a
    <3>1. \A x \in Writers : Coming(x, t, k) => Coming(x, t, k)'
      BY <1>1 DEF Coming, Invalidating
    <3> QED
      BY <1>1, <1>3, <2>2, <3>1 DEF Covered
  <2> QED
    BY <2>1, <2>2
<1>5. DeleteClean'
  BY <1>2 DEF DeleteClean
<1>6. WritersInOrder'
  BY <1>1 DEF SInv, WritersInOrder, Affected
<1>7. \A t \in Tiers, k \in Entries : purges'[t][k] \in Nat /\ purges'[t][k] >= purges[t][k]
  BY <1>1 DEF TypeOK
<1>8. \A r \in Readers : reader[r].entry \in Entries /\ reader[r].ver \in Nat
  BY DEF TypeOK
<1> QED
  BY <1>1, <1>4, <1>5, <1>6, <1>7, <1>8, StepCovers DEF Live, Storing

\* The other steps of a mutation leave the commits alone.  An invalidation
\* reaches its entry, goes on, or is lost.
LEMMA PurgeCovers ==
  ASSUME TypeOK, SInv, UNCHANGED <<commits, reader, now>>, DeleteClean', WritersInOrder',
         \A t \in Tiers, k \in Entries :
           /\ cache'[t][k] \in {cache[t][k], Gone}
           /\ purges'[t][k] \in Nat /\ purges'[t][k] >= purges[t][k]
           /\ missed'[t][k] \in {missed[t][k], Current(k)}
           /\ \/ \A x \in Writers : Coming(x, t, k) => Coming(x, t, k)' \/ missed'[t][k] = Current(k)
              \/ /\ ~Live(cache'[t][k])
                 /\ \/ purges'[t][k] # purges[t][k]
                    \/ \A r \in Readers :
                         reader[r].entry = k /\ Unraced(r, t) => reader[r].ver >= Current(k)
  PROVE  SInv'
<1>1. \A t \in Tiers, k \in Entries :
        (\A x \in Writers : Coming(x, t, k) => Coming(x, t, k)' \/ missed'[t][k] = Current(k)) =>
          \A v \in Nat : Covered(t, k, v) => Covered(t, k, v)'
  BY CoveredKept
<1>2. now \in Nat /\ \A k \in Entries : Current(k)' = Current(k) /\ Current(k) \in Nat
  BY CurrentNat DEF TypeOK, Current
<1>3. ASSUME NEW t \in Tiers, NEW k \in Entries, Live(cache[t][k])'
      PROVE  /\ Live(cache[t][k]) /\ cache'[t][k] = cache[t][k]
             /\ \A v \in Nat : Covered(t, k, v) => Covered(t, k, v)'
  <2>1. Live(cache'[t][k]) /\ cache'[t][k] # Gone
    BY <1>2, <1>3, GoneIsDead DEF Live
  <2> QED
    BY <1>1, <2>1
<1>4. ASSUME NEW r \in Readers, NEW t \in Tiers, Unraced(r, t)', Unraced(r, t),
             Covered(t, reader[r].entry, reader[r].ver)
      PROVE  Covered(t, reader[r].entry, reader[r].ver)'
  <2>1. PICK k \in Entries, v \in Nat : k = reader[r].entry /\ v = reader[r].ver
    BY DEF TypeOK
  <2>2. purges'[t][k] = purges[t][k]
    BY <1>4, <2>1 DEF Unraced
  <2>3. Covered(t, k, v)'
    BY <1>1, <1>2, <1>4, <2>1, <2>2 DEF Covered
  <2>4. k = reader'[r].entry /\ v = reader'[r].ver
    BY <2>1
  <2> QED
    BY <2>3, <2>4 DEF Covered
<1> QED
  BY <1>3, <1>4, StepCovers DEF Storing

\* Other writers go on with what they do.
LEMMA OtherComing ==
  ASSUME NEW w \in Writers, \A x \in Writers : x # w => writer'[x] = writer[x], NEW t \in Tiers, NEW k \in Entries,
         NEW x \in Writers, x # w
  PROVE  Coming(x, t, k) => Coming(x, t, k)'
<1>1. writer'[x] = writer[x]
  OBVIOUS
<1> QED
  BY <1>1 DEF Coming, Invalidating

\* What the writer will invalidate is one of its two entries, the lists first.
LEMMA PatternAffected ==
  ASSUME TypeOK, SInv, NEW w \in Writers
  PROVE  /\ writer[w].cand \in Entries /\ writer[w].cand # "list" /\ writer[w].pattern \in Entries
         /\ writer[w].pattern \in {"list", writer[w].cand}
         /\ writer[w].pc \in {"new", "webhooks"} => writer[w].pattern = "list"
         /\ Affected(writer[w].cand) = {"list", writer[w].cand}
BY ListIsNoCandidate DEF TypeOK, SInv, WritersInOrder, Affected, Entries

\* The handler fails after its commit: nothing of it is coming any more.
LEMMA FailCovers ==
  ASSUME TypeOK, SInv, NEW w \in Writers, FailAfterCommit(w)
  PROVE  SInv'
<1>1. /\ UNCHANGED <<commits, reader, now, cache, purges>>
      /\ \A x \in Writers : x # w => writer'[x] = writer[x]
      /\ writer'[w].cand = writer[w].cand /\ writer'[w].pattern = writer[w].pattern
      /\ writer'[w].pc = "failed"
      /\ \A t \in Tiers, k \in Entries :
           missed'[t][k] = IF k \in Affected(writer[w].cand) THEN Current(k) ELSE missed[t][k]
  BY DEF FailAfterCommit, Lost, TypeOK
<1>2. DeleteClean'
  BY <1>1 DEF SInv, DeleteClean, Unraced, Storing, Current
<1>3. WritersInOrder'
  BY <1>1 DEF SInv, WritersInOrder, Affected
<1>4. \A t \in Tiers, k \in Entries, x \in Writers :
        Coming(x, t, k) => Coming(x, t, k)' \/ missed'[t][k] = Current(k)
  BY <1>1, OtherComing DEF Coming
<1>5. \A t \in Tiers, k \in Entries : purges[t][k] \in Nat
  BY DEF TypeOK
<1> QED
  BY <1>1, <1>2, <1>3, <1>4, <1>5, PurgeCovers

\* The handler is back from its await: its invalidation goes on.
LEMMA InvalidateCovers ==
  ASSUME TypeOK, SInv, NEW w \in Writers, Invalidate(w)
  PROVE  SInv'
<1>1. /\ UNCHANGED <<commits, reader, now, cache, purges, missed>>
      /\ \A x \in Writers : x # w => writer'[x] = writer[x]
      /\ writer'[w].cand = writer[w].cand /\ writer'[w].pattern = writer[w].pattern
      /\ writer[w].pc = "webhooks" /\ writer'[w].pc = "scan"
  BY DEF Invalidate, TypeOK
<1>2. DeleteClean'
  BY <1>1 DEF SInv, DeleteClean, Unraced, Storing, Current
<1>3. WritersInOrder'
  BY <1>1 DEF SInv, WritersInOrder, Affected
<1>4. \A t \in Tiers, k \in Entries, x \in Writers : Coming(x, t, k) => Coming(x, t, k)'
  BY <1>1, OtherComing, PatternAffected DEF Coming, Invalidating, Tiers
<1>5. \A t \in Tiers, k \in Entries : purges[t][k] \in Nat
  BY DEF TypeOK
<1> QED
  BY <1>1, <1>2, <1>3, <1>4, <1>5, PurgeCovers

\* The scan either finds the entry, and the delete is coming, or the entry is
\* not there; what was queried before it is raced.
LEMMA ScanCovers ==
  ASSUME TypeOK, SInv, NEW w \in Writers, ScanRedis(w)
  PROVE  SInv'
<1> DEFINE p == writer[w].pattern
<1>1. /\ UNCHANGED <<commits, reader, now, cache, missed>>
      /\ \A x \in Writers : x # w => writer'[x] = writer[x]
      /\ writer'[w].cand = writer[w].cand /\ writer'[w].pattern = writer[w].pattern
      /\ writer[w].pc = "scan" /\ writer'[w].pc = "delete"
  BY DEF ScanRedis, TypeOK
<1>2. writer'[w].found <=> Live(cache["redis"][p])
  BY DEF ScanRedis, TypeOK
<1>3. /\ p \in Entries
      /\ \A t \in Tiers, k \in Entries :
           /\ purges[t][k] \in Nat
           /\ purges'[t][k] = IF t = "redis" /\ k = p THEN purges[t][k] + 1 ELSE purges[t][k]
  BY PatternAffected DEF ScanRedis, TypeOK
<1>4. DeleteClean'
  <2> SUFFICES ASSUME NEW x \in Writers, NEW r \in Readers, writer'[x].pc = "delete",
                      reader[r].entry = writer'[x].pattern, Unraced(r, "redis")'
               PROVE  reader[r].ver >= Current(writer'[x].pattern)
    BY <1>1 DEF DeleteClean, Current
  <2>1. reader[r].entry \in Entries /\ "redis" \in Tiers
    BY DEF TypeOK, Tiers
  <2>2. /\ Storing(r) /\ reader[r].seen["redis"] = purges'["redis"][reader[r].entry]
        /\ reader[r].seen["redis"] <= purges["redis"][reader[r].entry]
    BY <1>1, <2>1 DEF Unraced, Storing, SInv, ReadersCovered
  <2>3. Unraced(r, "redis") /\ reader[r].entry # p
    BY <1>3, <2>1, <2>2 DEF Unraced
  <2>4. x # w
    BY <1>1, <2>3
  <2> QED
    BY <1>1, <2>3, <2>4 DEF SInv, DeleteClean
<1>5. WritersInOrder'
  BY <1>1 DEF SInv, WritersInOrder, Affected
<1>6. \A t \in Tiers, k \in Entries :
        \/ \A x \in Writers : Coming(x, t, k) => Coming(x, t, k)'
        \/ ~Live(cache[t][k]) /\ purges'[t][k] # purges[t][k]
  <2> SUFFICES ASSUME NEW t \in Tiers, NEW k \in Entries,
                      ~(~Live(cache[t][k]) /\ purges'[t][k] # purges[t][k]), Coming(w, t, k)
               PROVE  Coming(w, t, k)'
    BY <1>1, OtherComing
  <2>1. (t = "redis" /\ k = p) => writer'[w].found
    BY <1>2, <1>3
  <2> QED
    BY <1>1, <2>1, PatternAffected DEF Coming, Invalidating, Tiers
<1> QED
  BY <1>1, <1>3, <1>4, <1>5, <1>6, PurgeCovers

\* What the scan found is deleted; what it did not find was stored since from
\* a query that saw every commit.
LEMMA DeleteRedisCovers ==
  ASSUME TypeOK, SInv, NEW w \in Writers, DeleteRedis(w)
  PROVE  SInv'
<1> DEFINE p == writer[w].pattern
<1>1. /\ UNCHANGED <<commits, reader, now, purges, missed>>
      /\ \A x \in Writers : x # w => writer'[x] = writer[x]
      /\ writer'[w].cand = writer[w].cand /\ writer'[w].pattern = writer[w].pattern
      /\ writer[w].pc = "delete" /\ writer'[w].pc = "memory"
  BY DEF DeleteRedis, TypeOK
<1>2. /\ p \in Entries
      /\ \A t \in Tiers, k \in Entries :
           cache'[t][k] = IF writer[w].found /\ t = "redis" /\ k = p THEN Gone ELSE cache[t][k]
  <2>1. p \in Entries /\ cache \in [Tiers -> [Entries -> Entry]]
    BY PatternAffected DEF TypeOK
  <2>2. CASE writer[w].found
    <3>1. cache' = [cache EXCEPT !["redis"][p] = Gone]
      BY <2>2 DEF DeleteRedis
    <3> QED
      BY <2>1, <2>2, <3>1
  <2>3. CASE ~writer[w].found
    <3>1. cache' = cache
      BY <2>3 DEF DeleteRedis
    <3> QED
      BY <2>1, <2>3, <3>1
  <2> QED
    BY <2>2, <2>3
<1>3. DeleteClean'
  BY <1>1 DEF SInv, DeleteClean, Unraced, Storing, Current
<1>4. WritersInOrder'
  BY <1>1 DEF SInv, WritersInOrder, Affected
<1>5. \A t \in Tiers, k \in Entries :
        \/ \A x \in Writers : Coming(x, t, k) => Coming(x, t, k)'
        \/ /\ ~Live(cache'[t][k])
           /\ \A r \in Readers : reader[r].entry = k /\ Unraced(r, t) => reader[r].ver >= Current(k)
  <2> SUFFICES ASSUME NEW t \in Tiers, NEW k \in Entries
               PROVE  \/ Coming(w, t, k) => Coming(w, t, k)'
                      \/ /\ ~Live(cache'[t][k])
                         /\ \A r \in Readers : reader[r].entry = k /\ Unraced(r, t) => reader[r].ver >= Current(k)
    BY <1>1, OtherComing
  <2>1. CASE writer[w].found /\ t = "redis" /\ k = p
    <3>1. ~Live(cache'[t][k])
      BY <1>2, <2>1, GoneIsDead DEF Live, TypeOK
    <3>2. \A r \in Readers : reader[r].entry = k /\ Unraced(r, t) => reader[r].ver >= Current(k)
      BY <1>1, <2>1 DEF SInv, DeleteClean
    <3> QED
      BY <3>1, <3>2
  <2>2. CASE ~(writer[w].found /\ t = "redis" /\ k = p)
    <3>1. Coming(w, t, k) => Coming(w, t, k)'
      BY <1>1, <2>2, PatternAffected DEF Coming, Invalidating, Tiers
    <3> QED
      BY <3>1
  <2> QED
    BY <2>1, <2>2
<1>6. \A t \in Tiers, k \in Entries : purges[t][k] \in Nat
  BY DEF TypeOK
<1> QED
  BY <1>1, <1>2, <1>3, <1>4, <1>5, <1>6, PurgeCovers

\* Redis is away: its invalidation is lost, that of the memory tier goes on.
LEMMA SkipCovers ==
  ASSUME TypeOK, SInv, NEW w \in Writers, SkipRedis(w)
  PROVE  SInv'
<1> DEFINE p == writer[w].pattern
<1>1. /\ UNCHANGED <<commits, reader, now, cache, purges>>
      /\ \A x \in Writers : x # w => writer'[x] = writer[x]
      /\ writer'[w].cand = writer[w].cand /\ writer'[w].pattern = writer[w].pattern
      /\ writer[w].pc \in {"scan", "delete"} /\ writer'[w].pc = "memory"
      /\ \A t \in Tiers, k \in Entries :
           missed'[t][k] = IF t = "redis" /\ k = p THEN Current(k) ELSE missed[t][k]
  BY DEF SkipRedis, Lost, TypeOK
<1>2. DeleteClean'
  BY <1>1 DEF SInv, DeleteClean, Unraced, Storing, Current
<1>3. WritersInOrder'
  BY <1>1 DEF SInv, WritersInOrder, Affected
<1>4. \A t \in Tiers, k \in Entries, x \in Writers :
        Coming(x, t, k) => Coming(x, t, k)' \/ missed'[t][k] = Current(k)
  <2> SUFFICES ASSUME NEW t \in Tiers, NEW k \in Entries, Coming(w, t, k), missed'[t][k] # Current(k)
               PROVE  Coming(w, t, k)'
    BY <1>1, OtherComing
  <2>1. ~(t = "redis" /\ k = p)
    BY <1>1
  <2> QED
    BY <1>1, <2>1, PatternAffected DEF Coming, Invalidating, Tiers
<1>5. \A t \in Tiers, k \in Entries : purges[t][k] \in Nat
  BY DEF TypeOK
<1> QED
  BY <1>1, <1>2, <1>3, <1>4, <1>5, PurgeCovers

\* The memory tier loses the entry; after the lists the candidate is to come.
LEMMA DeleteMemoryCovers ==
  ASSUME TypeOK, SInv, NEW w \in Writers, DeleteMemory(w)
  PROVE  SInv'
<1> DEFINE p == writer[w].pattern
<1>1. /\ UNCHANGED <<commits, reader, now, missed>>
      /\ \A x \in Writers : x # w => writer'[x] = writer[x]
      /\ writer'[w].cand = writer[w].cand /\ writer[w].pc = "memory"
      /\ p = "list" => writer'[w].pc = "scan" /\ writer'[w].pattern = writer[w].cand
      /\ p # "list" => writer'[w].pc = "answered" /\ writer'[w].pattern = p
  BY DEF DeleteMemory, TypeOK
<1>2. /\ p \in Entries
      /\ \A t \in Tiers, k \in Entries :
           /\ cache'[t][k] = IF t = "memory" /\ k = p THEN Gone ELSE cache[t][k]
           /\ purges[t][k] \in Nat
           /\ purges'[t][k] = IF t = "memory" /\ k = p THEN purges[t][k] + 1 ELSE purges[t][k]
  BY PatternAffected DEF DeleteMemory, TypeOK
<1>3. DeleteClean'
  <2> SUFFICES ASSUME NEW x \in Writers, NEW r \in Readers, writer'[x].pc = "delete",
                      reader[r].entry = writer'[x].pattern, Unraced(r, "redis")'
               PROVE  reader[r].ver >= Current(writer'[x].pattern)
    BY <1>1 DEF DeleteClean, Current
  <2>1. reader[r].entry \in Entries /\ "redis" \in Tiers
    BY DEF TypeOK, Tiers
  <2>2. purges'["redis"][reader[r].entry] = purges["redis"][reader[r].entry]
    BY <1>2, <2>1
  <2>3. Unraced(r, "redis") /\ x # w
    BY <1>1, <2>2 DEF Unraced, Storing
  <2> QED
    BY <1>1, <2>3 DEF SInv, DeleteClean
<1>4. WritersInOrder'
  BY <1>1, PatternAffected DEF SInv, WritersInOrder, Affected
<1>5. \A t \in Tiers, k \in Entries :
        \/ \A x \in Writers : Coming(x, t, k) => Coming(x, t, k)'
        \/ ~Live(cache'[t][k]) /\ purges'[t][k] # purges[t][k]
  <2> SUFFICES ASSUME NEW t \in Tiers, NEW k \in Entries
               PROVE  \/ Coming(w, t, k) => Coming(w, t, k)'
                      \/ ~Live(cache'[t][k]) /\ purges'[t][k] # purges[t][k]
    BY <1>1, OtherComing
  <2>1. CASE t = "memory" /\ k = p
    BY <1>2, <2>1, GoneIsDead DEF Live, TypeOK
  <2>2. CASE ~(t = "memory" /\ k = p)
    <3>1. Coming(w, t, k) => Coming(w, t, k)'
      BY <1>1, <2>2, PatternAffected DEF Coming, Invalidating, Tiers
    <3> QED
      BY <3>1
  <2> QED
    BY <2>1, <2>2
<1> QED
  BY <1>1, <1>2, <1>3, <1>4, <1>5, PurgeCovers

\* Time passes: an entry is as it was, or has expired.
LEMMA TickCovers ==
  ASSUME TypeOK, SInv, Tick
  PROVE  SInv'
<1>1. UNCHANGED <<commits, reader, writer, purges, missed>> /\ now' = now + 1 /\ now \in Nat
  BY DEF Tick, TypeOK
<1>2. \A t, k, v : Covered(t, k, v) <=> Covered(t, k, v)'
  BY <1>1 DEF Covered, Current, Coming, Invalidating
<1>3. \A t \in Tiers, k \in Entries : Live(cache[t][k])' => Live(cache[t][k]) /\ cache'[t][k] = cache[t][k]
  <2> SUFFICES ASSUME NEW t \in Tiers, NEW k \in Entries, now + 1 < cache'[t][k].exp
               PROVE  now < cache[t][k].exp /\ cache'[t][k] = cache[t][k]
    BY <1>1 DEF Live
  <2>1. cache'[t][k] = Expire(t, k) /\ cache[t][k].exp \in Nat
    BY DEF Tick, TypeOK, Entry
  <2>2. now + 1 \in Nat
    BY <1>1
  <2>3. now + 1 < cache[t][k].exp
    BY <2>1, <2>2, GoneIsDead DEF Expire
  <2> QED
    BY <1>1, <2>1, <2>3 DEF Expire
<1>4. DeleteClean' /\ WritersInOrder'
  BY <1>1 DEF SInv, DeleteClean, WritersInOrder, Unraced, Storing, Current, Affected
<1>5. \A t \in Tiers, k \in Entries : purges[t][k] \in Nat
  BY DEF TypeOK
<1> QED
  BY <1>1, <1>2, <1>3, <1>4, <1>5, StepCovers DEF Storing

\* A crash takes the memory tier and every reader, and loses the invalidations of Redis.
LEMMA CrashCovers ==
  ASSUME TypeOK, SInv, Crash
  PROVE  SInv'
<1>1. UNCHANGED <<commits, now, purges>> /\ now \in Nat
  BY DEF Crash, TypeOK
<1>2. \A r \in Readers : ~Storing(r)'
  BY DEF Crash, Storing, Idle
<1>3. \A x \in Writers : /\ writer'[x].cand = writer[x].cand /\ writer'[x].pattern = writer[x].pattern
                         /\ writer'[x].pc \in {writer[x].pc, "failed"}
                         /\ ~Pending(x) => writer'[x] = writer[x]
  BY DEF Crash, TypeOK
<1>4. DeleteClean'
  BY <1>2 DEF DeleteClean, Unraced
<1>5. WritersInOrder'
  BY <1>3 DEF SInv, WritersInOrder, Affected
<1>6. \A t \in Tiers, k \in Entries : purges[t][k] \in Nat
  BY DEF TypeOK
<1>7. ASSUME NEW t \in Tiers, NEW k \in Entries, Live(cache[t][k])'
      PROVE  /\ Live(cache[t][k]) /\ cache'[t][k] = cache[t][k]
             /\ \A v \in Nat : Covered(t, k, v) => Covered(t, k, v)'
  <2>1. t = "redis" /\ cache'[t][k] = cache[t][k]
    <3>1. t = "memory" => cache'[t][k] = Gone
      BY DEF Crash, TypeOK
    <3>2. t # "memory"
      BY <1>1, <1>7, <3>1, GoneIsDead DEF Live
    <3>3. t # "memory" => cache'[t][k] = cache[t][k]
      BY DEF Crash, TypeOK
    <3> QED
      BY <3>2, <3>3 DEF Tiers
  <2>2. missed'[t][k] \in {missed[t][k], Current(k)}
    BY DEF Crash, Lost
  <2>3. \A x \in Writers : Coming(x, t, k) => Coming(x, t, k)' \/ missed'[t][k] = Current(k)
    <3> SUFFICES ASSUME NEW x \in Writers, Coming(x, t, k), missed'[t][k] # Current(k)
                 PROVE  FALSE
      OBVIOUS
    <3>1. Pending(x) /\ k \in Affected(writer[x].cand)
      BY DEF Coming, Pending, Invalidating
    <3>2. k \in UNION {Affected(writer[y].cand) : y \in {z \in Writers : Pending(z)}}
      BY <3>1
    <3> QED
      BY <2>1, <3>2 DEF Crash, Lost
  <2>4. \A v \in Nat : Covered(t, k, v) => Covered(t, k, v)'
    BY <1>1, <2>2, <2>3, CoveredKept
  <2> QED
    BY <1>1, <1>7, <2>1, <2>4 DEF Live
<1> QED
  BY <1>1, <1>2, <1>4, <1>5, <1>6, <1>7, StepCovers DEF Unraced

\* An outdated entry has one of its four reasons, for any number of readers,
\* writers and candidates: the invalidation of l.120-144 misses nothing else.
THEOREM StaleOnlyByRaceHolds == Spec => []StaleOnlyByRace
<1>1. Init => SInv
  <2> SUFFICES ASSUME Init PROVE SInv
    OBVIOUS
  <2>1. StaleOnlyByRace
    BY DEF Init, StaleOnlyByRace, Live, Gone
  <2>2. ReadersCovered /\ DeleteClean
    BY DEF Init, ReadersCovered, DeleteClean, Unraced, Storing, Idle
  <2>3. \A w \in Writers : writer[w].pattern = "list"
    BY DEF Init, Waiting
  <2>4. WritersInOrder
    BY <2>3 DEF WritersInOrder, Affected
  <2> QED
    BY <2>1, <2>2, <2>4 DEF SInv
<1>2. TypeOK /\ SInv /\ [Next]_vars => SInv'
  <2> SUFFICES ASSUME TypeOK, SInv, [Next]_vars PROVE SInv'
    OBVIOUS
  <2>1. CASE RedisFails \/ RedisReturns \/ UNCHANGED vars
    <3>1. UNCHANGED <<commits, cache, reader, writer, now, purges, missed>>
      BY <2>1 DEF RedisFails, RedisReturns, vars
    <3>2. DeleteClean' /\ WritersInOrder'
      BY <3>1 DEF SInv, DeleteClean, WritersInOrder, Unraced, Storing, Current, Affected
    <3>3. \A t, k, v : Covered(t, k, v) <=> Covered(t, k, v)'
      BY <3>1 DEF Covered, Current, Coming, Invalidating
    <3>4. \A t \in Tiers, k \in Entries : purges[t][k] \in Nat
      BY DEF TypeOK
    <3> QED
      BY <3>1, <3>2, <3>3, <3>4, StepCovers DEF Live, Storing
  <2>2. ASSUME NEW w \in Writers, Write(w) PROVE SInv'
    BY <2>2, CommitCovers, FailCovers, InvalidateCovers, ScanCovers, DeleteRedisCovers, SkipCovers,
       DeleteMemoryCovers DEF Write
  <2> QED
    BY <2>1, <2>2, GetCovers, TickCovers, CrashCovers DEF Next
<1>3. SInv => StaleOnlyByRace
  BY DEF SInv
<1> QED
  BY <1>1, <1>2, <1>3, TypeCorrect, PTL DEF Spec

=============================================================================
