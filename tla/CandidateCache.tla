--------------------------- MODULE CandidateCache ---------------------------
(***************************************************************************)
(* The cache-aside reads and the invalidating writes of candidates:        *)
(* CacheManager (backend/app/cache.py) as routers/candidates.py calls it.  *)
(*                                                                         *)
(* GET handlers are plain functions: each runs in a thread of its own and  *)
(* interleaves with everything.  Mutating handlers run on the event loop:  *)
(* commit, await the webhooks, then invalidate, without another await, so  *)
(* one writer at a time is inside invalidate_candidate_caches.             *)
(*                                                                         *)
(* An entry is a cached query: "list" stands for the keys                  *)
(* candidates:list:*, a candidate for its keys candidates:detail:*:cid=... *)
(* The value of an entry is the number of commits that its query had seen; *)
(* an entry that has expired is the same as one that is not there.         *)
(***************************************************************************)
EXTENDS Integers, Sequences, FiniteSets

CONSTANTS Candidates, Readers, Writers,
          HasRedis,     \* whether the ping of _init_redis (l.45) succeeded
          TTL,          \* lifetime of an entry (ttl=60)
          MaxQuery,     \* assumption: longest time from a query to the end of its cache.set
          MaxTime,      \* bound: the last instant
          MaxOutages,   \* bound: how often Redis goes away
          MaxCrashes    \* bound: crashes of the process

ASSUME ListIsNoCandidate == "list" \notin Candidates
ASSUME RedisIsKnown == HasRedis \in BOOLEAN
ASSUME Durations == TTL \in Nat \ {0} /\ MaxQuery \in Nat
ASSUME CacheBounds == MaxTime \in Nat /\ MaxOutages \in Nat /\ MaxCrashes \in Nat

Entries == {"list"} \cup Candidates

VARIABLES
  commits,   \* per entry, the instants of the commits that changed its answer
  cache,     \* per tier and entry, what Redis and _memory_cache hold
  reader,    \* the GET that each reader thread runs
  writer,    \* the mutation that each writer runs
  redisUp, now, outages, crashes,
  purges,    \* history: invalidations made, per tier and entry
  missed     \* history: commits of the entry when an invalidation of it was last lost

vars == <<commits, cache, reader, writer, redisUp, now, outages, crashes, purges, missed>>

Tiers == {"redis", "memory"}

\* raced is history: an invalidation came between the query and the store.
Entry == [ver : Nat, exp : Nat, raced : BOOLEAN]
Gone  == [ver |-> 0, exp |-> 0, raced |-> FALSE]

Current(k) == Len(commits[k])
Live(e)    == now < e.exp

\* The entries whose answer a change of candidate c changes.
Affected(c) == {"list", c}

\* floor is history: the commits whose requests were answered before the GET
\* came in; seen: the purges of its entry when it made its query.
Idle == [pc |-> "idle", entry |-> "list", ver |-> 0, at |-> 0, floor |-> {},
         seen |-> [t \in Tiers |-> 0]]

\* mine is history: the number of the writer's own commit, per entry.
Waiting(c) == [pc |-> "new", cand |-> c, pattern |-> "list", found |-> FALSE,
               mine |-> [k \in Entries |-> 0]]

Init ==
  /\ commits = [k \in Entries |-> <<>>]
  /\ cache = [t \in Tiers |-> [k \in Entries |-> Gone]]
  /\ reader = [r \in Readers |-> Idle]
  /\ writer \in [Writers -> {Waiting(c) : c \in Candidates}]
  /\ redisUp = HasRedis
  /\ now = 0 /\ outages = 0 /\ crashes = 0
  /\ purges = [t \in Tiers |-> [k \in Entries |-> 0]]
  /\ missed = [t \in Tiers |-> [k \in Entries |-> 0]]

----------------------------------------------------------------------------
(* A GET: list_candidates or get_candidate. *)

Acked(k) == {writer[w].mine[k] : w \in {x \in Writers : writer[x].pc = "answered"}}

Serve(r, k, v, floor) ==
  reader' = [reader EXCEPT ![r] = [Idle EXCEPT !.pc = "served", !.entry = k, !.ver = v,
                                               !.at = now, !.floor = floor]]

\* cache.get on the tier that answers: a hit is served, a miss goes on to the
\* database.
Lookup(r, t) ==
  /\ reader[r].pc = "idle"
  /\ \E k \in Entries :
       IF Live(cache[t][k]) THEN Serve(r, k, cache[t][k].ver, Acked(k))
       ELSE reader' = [reader EXCEPT ![r] = [Idle EXCEPT !.pc = "query", !.entry = k, !.floor = Acked(k)]]
  /\ UNCHANGED <<commits, cache, writer, redisUp, now, outages, crashes, purges, missed>>

\* l.54-62: Redis answers, also that it has nothing.
GetRedis(r) == redisUp /\ Lookup(r, "redis")

\* l.63-79: there is no client, or its call raised.
GetMemory(r) == ~redisUp /\ Lookup(r, "memory")

(* Operators named ..._bug are mutants of the definition they precede. *)
\* The service reads the database.
Query(r) ==
  /\ reader[r].pc = "query"
  /\ LET k == reader[r].entry IN
     reader' = [reader EXCEPT ![r] = [@ EXCEPT !.pc = "store", !.ver = Current(k), !.at = now,
                                               !.seen = [t \in Tiers |-> purges[t][k]]]]
  /\ UNCHANGED <<commits, cache, writer, redisUp, now, outages, crashes, purges, missed>>

Stored_noTTL_bug(r, t) == LET k == reader[r].entry IN
  [ver |-> reader[r].ver, exp |-> now + TTL + MaxTime, raced |-> purges[t][k] # reader[r].seen[t]]

Stored(r, t) == LET k == reader[r].entry IN
  [ver |-> reader[r].ver, exp |-> now + TTL, raced |-> purges[t][k] # reader[r].seen[t]]

\* cache.set, l.91-96: an error is swallowed.
SetRedis(r) ==
  /\ reader[r].pc = "store"
  /\ cache' = IF redisUp THEN [cache EXCEPT !["redis"][reader[r].entry] = Stored(r, "redis")] ELSE cache
  /\ reader' = [reader EXCEPT ![r] = [@ EXCEPT !.pc = "storeMemory"]]
  /\ UNCHANGED <<commits, writer, redisUp, now, outages, crashes, purges, missed>>

\* l.98-104, and the answer with X-Cache-Status MISS.
SetMemory(r) ==
  /\ reader[r].pc = "storeMemory"
  /\ cache' = [cache EXCEPT !["memory"][reader[r].entry] = Stored(r, "memory")]
  /\ Serve(r, reader[r].entry, reader[r].ver, reader[r].floor)
  /\ UNCHANGED <<commits, writer, redisUp, now, outages, crashes, purges, missed>>

\* The thread takes the next request.
NextRequest(r) ==
  /\ reader[r].pc = "served"
  /\ reader' = [reader EXCEPT ![r] = Idle]
  /\ UNCHANGED <<commits, cache, writer, redisUp, now, outages, crashes, purges, missed>>

----------------------------------------------------------------------------
(* A mutation: POST, PATCH, DELETE, a score or a summary. *)

Invalidating(w) == writer[w].pc \in {"scan", "delete", "memory"}
LoopFree == \A w \in Writers : ~Invalidating(w)

\* db.commit() of the service, which then awaits the webhooks.
Commit(w) ==
  /\ writer[w].pc = "new" /\ LoopFree
  /\ LET a == Affected(writer[w].cand) IN
     /\ commits' = [k \in Entries |-> IF k \in a THEN Append(commits[k], now) ELSE commits[k]]
     /\ writer' = [writer EXCEPT ![w] = [@ EXCEPT !.pc = "webhooks",
                     !.mine = [k \in Entries |-> IF k \in a THEN Current(k) + 1 ELSE 0]]]
  /\ UNCHANGED <<cache, reader, redisUp, now, outages, crashes, purges, missed>>

\* The invalidations of p that will not come.
Lost(ts, ps) ==
  missed' = [t \in Tiers |-> [k \in Entries |-> IF t \in ts /\ k \in ps THEN Current(k) ELSE missed[t][k]]]

\* Something after the commit raises: a 500, and no invalidation.
FailAfterCommit(w) ==
  /\ writer[w].pc = "webhooks"
  /\ writer' = [writer EXCEPT ![w] = [@ EXCEPT !.pc = "failed"]]
  /\ Lost(Tiers, Affected(writer[w].cand))
  /\ UNCHANGED <<commits, cache, reader, redisUp, now, outages, crashes, purges>>

\* The handler is back from its await and calls invalidate_candidate_caches.
Invalidate(w) ==
  /\ writer[w].pc = "webhooks" /\ LoopFree
  /\ writer' = [writer EXCEPT ![w] = [@ EXCEPT !.pc = "scan"]]
  /\ UNCHANGED <<commits, cache, reader, redisUp, now, outages, crashes, purges, missed>>

\* delete_pattern, l.126-131: collect the keys that match now.
ScanRedis(w) ==
  /\ writer[w].pc = "scan" /\ redisUp
  /\ LET p == writer[w].pattern IN
     /\ writer' = [writer EXCEPT ![w] = [@ EXCEPT !.pc = "delete", !.found = Live(cache["redis"][p])]]
     /\ purges' = [purges EXCEPT !["redis"][p] = @ + 1]
  /\ UNCHANGED <<commits, cache, reader, redisUp, now, outages, crashes, missed>>

\* l.131-133
DeleteRedis(w) ==
  /\ writer[w].pc = "delete" /\ redisUp
  /\ cache' = IF writer[w].found THEN [cache EXCEPT !["redis"][writer[w].pattern] = Gone] ELSE cache
  /\ writer' = [writer EXCEPT ![w] = [@ EXCEPT !.pc = "memory"]]
  /\ UNCHANGED <<commits, reader, redisUp, now, outages, crashes, purges, missed>>

\* l.134-135: the scan or the delete raised; or there is no client.
SkipRedis(w) ==
  /\ writer[w].pc \in {"scan", "delete"} /\ ~redisUp
  /\ writer' = [writer EXCEPT ![w] = [@ EXCEPT !.pc = "memory"]]
  /\ Lost({"redis"}, {writer[w].pattern})
  /\ UNCHANGED <<commits, cache, reader, redisUp, now, outages, crashes, purges>>

DeleteMemory_listsOnly_bug(w) ==
  /\ writer[w].pc = "memory"
  /\ cache' = [cache EXCEPT !["memory"][writer[w].pattern] = Gone]
  /\ purges' = [purges EXCEPT !["memory"][writer[w].pattern] = @ + 1]
  /\ writer' = [writer EXCEPT ![w] = [@ EXCEPT !.pc = "answered"]]
  /\ UNCHANGED <<commits, reader, redisUp, now, outages, crashes, missed>>

\* l.137-144: after the lists come the detail keys of the candidate (l.194-199),
\* and after those the answer.
DeleteMemory(w) ==
  /\ writer[w].pc = "memory"
  /\ LET p == writer[w].pattern IN
     /\ cache' = [cache EXCEPT !["memory"][p] = Gone]
     /\ purges' = [purges EXCEPT !["memory"][p] = @ + 1]
     /\ writer' = [writer EXCEPT ![w] =
          IF p = "list" THEN [@ EXCEPT !.pc = "scan", !.pattern = writer[w].cand, !.found = FALSE]
                        ELSE [@ EXCEPT !.pc = "answered"]]
  /\ UNCHANGED <<commits, reader, redisUp, now, outages, crashes, missed>>

----------------------------------------------------------------------------
(* The environment. *)

RedisFails ==
  /\ redisUp /\ outages < MaxOutages
  /\ redisUp' = FALSE /\ outages' = outages + 1
  /\ UNCHANGED <<commits, cache, reader, writer, now, crashes, purges, missed>>

RedisReturns ==
  /\ HasRedis /\ ~redisUp /\ redisUp' = TRUE
  /\ UNCHANGED <<commits, cache, reader, writer, now, outages, crashes, purges, missed>>

\* Expired entries are as good as gone: Redis drops them, and the lookup of
\* l.72-76 does.
Expire(t, k) == IF now + 1 < cache[t][k].exp THEN cache[t][k] ELSE Gone

Storing(r) == reader[r].pc \in {"store", "storeMemory"}

Tick ==
  /\ now < MaxTime
  /\ \A r \in Readers : Storing(r) => now < reader[r].at + MaxQuery
  /\ now' = now + 1
  /\ cache' = [t \in Tiers |-> [k \in Entries |-> Expire(t, k)]]
  /\ UNCHANGED <<commits, reader, writer, redisUp, outages, crashes, purges, missed>>

\* The process dies with its threads, its handlers and its memory tier.
Pending(w) == writer[w].pc = "webhooks" \/ Invalidating(w)
Crash ==
  /\ crashes < MaxCrashes /\ crashes' = crashes + 1
  /\ cache' = [cache EXCEPT !["memory"] = [k \in Entries |-> Gone]]
  /\ reader' = [r \in Readers |-> Idle]
  /\ writer' = [w \in Writers |-> IF Pending(w) THEN [writer[w] EXCEPT !.pc = "failed"] ELSE writer[w]]
  /\ Lost({"redis"}, UNION {Affected(writer[w].cand) : w \in {x \in Writers : Pending(x)}})
  /\ UNCHANGED <<commits, redisUp, now, outages, purges>>

Get(r)   == GetRedis(r) \/ GetMemory(r) \/ Query(r) \/ SetRedis(r) \/ SetMemory(r) \/ NextRequest(r)
Write(w) == Commit(w) \/ FailAfterCommit(w) \/ Invalidate(w) \/ ScanRedis(w) \/ DeleteRedis(w)
              \/ SkipRedis(w) \/ DeleteMemory(w)

Next ==
  \/ \E r \in Readers : Get(r)
  \/ \E w \in Writers : Write(w)
  \/ RedisFails \/ RedisReturns \/ Tick \/ Crash

Spec == Init /\ [][Next]_vars

----------------------------------------------------------------------------
(* Properties. *)

TypeOK ==
  /\ commits \in [Entries -> Seq(Nat)]
  /\ cache \in [Tiers -> [Entries -> Entry]]
  /\ reader \in [Readers -> [pc : {"idle", "query", "store", "storeMemory", "served"}, entry : Entries,
                             ver : Nat, at : Nat, floor : SUBSET Nat, seen : [Tiers -> Nat]]]
  /\ writer \in [Writers -> [pc : {"new", "webhooks", "scan", "delete", "memory", "answered", "failed"},
                             cand : Candidates, pattern : Entries, found : BOOLEAN,
                             mine : [Entries -> Nat]]]
  /\ redisUp \in BOOLEAN
  /\ now \in Nat /\ outages \in Nat /\ crashes \in Nat
  /\ purges \in [Tiers -> [Entries -> Nat]]
  /\ missed \in [Tiers -> [Entries -> Nat]]

\* Whatever Redis, crashes, failing handlers and races do, an answer is at
\* most one TTL and one query behind: the commit that outdated it is not older
\* than that (ex=ttl, l.93, and now < expires_at, l.72).
BoundedStaleness ==
  \A r \in Readers : LET a == reader[r] IN
    (a.pc = "served" /\ a.ver < Current(a.entry)) => a.at <= commits[a.entry][a.ver + 1] + TTL + MaxQuery

(* The inductive invariant behind BoundedStaleness. *)

\* Nothing was committed in the future.
PastCommits == \A k \in Entries : \A i \in 1..Current(k) : commits[k][i] <= now

\* v is a version of k, and if it is outdated, t is at most d after that.
Outdated(k, v, t, d) == v <= Current(k) /\ (v < Current(k) => t <= commits[k][v + 1] + d)

\* A cached entry lives no longer than TTL from now and than TTL and one query
\* from the commit that outdated it.
EntryAges ==
  \A t \in Tiers, k \in Entries : LET e == cache[t][k] IN
    e = Gone \/ (e.exp <= now + TTL /\ Outdated(k, e.ver, e.exp, TTL + MaxQuery))

\* What a reader is about to store was current when it made its query.
ReaderAges ==
  \A r \in Readers : LET a == reader[r] IN
    /\ a.at <= now
    /\ Storing(r) => now <= a.at + MaxQuery /\ Outdated(a.entry, a.ver, a.at, 0)
    /\ a.pc = "served" => Outdated(a.entry, a.ver, a.at, TTL + MaxQuery)

Ages == PastCommits /\ EntryAges /\ ReaderAges

\* The invalidation of writer w has not reached entry k in tier t yet.
Coming(w, t, k) ==
  /\ k \in Affected(writer[w].cand)
  /\ \/ writer[w].pc = "webhooks"
     \/ Invalidating(w) /\ writer[w].pattern = "list" /\ k # "list"
     \/ writer[w].pattern = k /\ t = "memory" /\ Invalidating(w)
     \/ /\ writer[w].pattern = k /\ t = "redis"
        /\ writer[w].pc = "scan" \/ (writer[w].pc = "delete" /\ writer[w].found)

\* An outdated entry has one of four reasons: the writer that outdated it is
\* still on its way to it, its query ran before an invalidation and its store
\* after it, the invalidation was lost with Redis, a failed handler or a
\* crash, or the entry has expired.  Nothing else leaves one behind.
StaleOnlyByRace ==
  \A t \in Tiers, k \in Entries : LET e == cache[t][k] IN
    (Live(e) /\ e.ver < Current(k) /\ ~e.raced /\ e.ver >= missed[t][k]) => \E w \in Writers : Coming(w, t, k)

\* README l.363 ("Next GET is guaranteed fresh") and l.395: a GET that comes in after a mutation was answered
\* shows it.
ReadYourWrites ==
  \A r \in Readers : reader[r].pc = "served" => \A n \in reader[r].floor : reader[r].ver >= n

============================================================================
