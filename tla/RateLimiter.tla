----------------------------- MODULE RateLimiter -----------------------------
(***************************************************************************)
(* RateLimitMiddleware, its registry and its token buckets                 *)
(* (backend/app/rate_limiter.py).  From get_bucket to consume, dispatch    *)
(* has no await: a request is one action.                                  *)
(*                                                                         *)
(* Tokens are counted in parts, of which every bucket gains one per tick   *)
(* of the clock: a request takes Cost[k] parts from bucket k (one token),  *)
(* Capacity[k] parts fill it.  With a tick of one second an auth bucket    *)
(* (10 tokens, 5 a minute) has a cost of 12 and a capacity of 120, a       *)
(* standard one (60 tokens, 60 a minute) 1 and 60.                         *)
(***************************************************************************)
EXTENDS Integers, FiniteSets

CONSTANTS Clients,
          Buckets,      \* bucket keys: a policy name and a client identity
          BucketOf,     \* the bucket that get_client_identity (l.103-128) gives a client
          Capacity, Cost,
          Second,       \* ticks per second
          IdleLimit,    \* age in ticks at which a bucket is stale (900 s, l.92)
          MaxBuckets,   \* registry size above which stale buckets go (5000, l.83)
          MaxTicks,     \* bound: ticks in a behaviour
          MaxSteps,     \* bound: times the wall clock is set back
          MaxRestarts   \* bound: restarts of the process

ASSUME BucketType == BucketOf \in [Clients -> Buckets]
ASSUME Tokens == /\ Capacity \in [Buckets -> Nat] /\ Cost \in [Buckets -> Nat \ {0}]
                 /\ \A k \in Buckets : Cost[k] <= Capacity[k]
ASSUME SecondIsSome == Second \in Nat \ {0}
ASSUME Limits == IdleLimit \in Nat /\ MaxBuckets \in Nat /\ MaxRestarts \in Nat
\* l.82 and l.92: what is 15 minutes old would be full: 120 and 60 parts < 900.
ASSUME StaleIsFull == \A k \in Buckets : Capacity[k] <= IdleLimit

VARIABLES
  registry,  \* the keys of _buckets
  tokens,    \* parts in each bucket at its last request
  last,      \* last_refill of each bucket, which is also its last_seen
  clock,     \* time.time()
  ticks,     \* history: real time
  asked,     \* history: real time of each bucket's last request
  steps, restarts,
  granted,   \* history: parts ever taken from each bucket
  owed,      \* history: the requests each client was last told it has left
  hint       \* what the last answer said of its bucket: when to retry, when it is full

vars == <<registry, tokens, last, clock, ticks, asked, steps, restarts, granted, owed, hint>>

NoHint == [kind |-> "none", at |-> 0]

Least(a, b)    == IF a <= b THEN a ELSE b
Greatest(a, b) == IF a >= b THEN a ELSE b
CeilDiv(a, b)  == (a + b - 1) \div b

Init ==
  /\ registry = {}
  /\ tokens = [k \in Buckets |-> 0]
  /\ last = [k \in Buckets |-> 0]
  /\ clock = 0 /\ ticks = 0 /\ steps = 0 /\ restarts = 0
  /\ asked = [k \in Buckets |-> 0]
  /\ granted = [k \in Buckets |-> 0]
  /\ owed = [c \in Clients |-> Capacity[BucketOf[c]] \div Cost[BucketOf[c]]]
  /\ hint = [k \in Buckets |-> NoHint]

----------------------------------------------------------------------------

(* Operators named ..._bug are mutants of the definition they precede. *)
Level_noFloor_bug(k) ==
  IF k \in registry THEN Least(Capacity[k], tokens[k] + (clock - last[k])) ELSE Capacity[k]

\* l.34-40: what is in the bucket now; a bucket that is not there starts full.
Level(k) ==
  IF k \in registry THEN Least(Capacity[k], tokens[k] + Greatest(0, clock - last[k])) ELSE Capacity[k]

Stale_any_bug(k) == clock - last[k] > 0

\* l.90-94
Stale(k) == clock - last[k] > IdleLimit

\* l.76-88: the registry once a request for bucket k has it.
RegistryWith(k) ==
  IF k \notin registry /\ Cardinality(registry) > MaxBuckets
  THEN {j \in registry : ~Stale(j)} \cup {k}
  ELSE registry \cup {k}

Seconds_floor_bug(parts) == Second * Greatest(1, parts \div Second)
Seconds_plusOne_bug(parts) == Second * (1 + CeilDiv(parts, Second))

\* Whole seconds, at least one, as ticks (l.47, l.52).
Seconds(parts) == Second * Greatest(1, CeilDiv(parts, Second))

\* l.154-155
BucketFor(c) == BucketOf[c]

\* l.42-48, with X-RateLimit-Remaining of l.44 and l.179
Admit(c) == LET k == BucketFor(c) IN
  /\ Level(k) >= Cost[k]
  /\ tokens' = [tokens EXCEPT ![k] = Level(k) - Cost[k]]
  /\ granted' = [granted EXCEPT ![k] = @ + Cost[k]]
  /\ owed' = [owed EXCEPT ![c] = (Level(k) - Cost[k]) \div Cost[k]]
  /\ hint' = [hint EXCEPT ![k] = [kind |-> "reset",
                                  at |-> clock + Seconds(Capacity[k] - (Level(k) - Cost[k]))]]

\* l.49-53: no request is left; a client that has been told when to retry holds on to it.
Refuse(c) == LET k == BucketFor(c) IN
  /\ Level(k) < Cost[k]
  /\ tokens' = [tokens EXCEPT ![k] = Level(k)]
  /\ owed' = [owed EXCEPT ![c] = 0]
  /\ hint' = IF hint[k].kind = "retry" THEN hint
             ELSE [hint EXCEPT ![k] = [kind |-> "retry", at |-> clock + Seconds(Cost[k] - Level(k))]]
  /\ UNCHANGED granted

\* dispatch, l.154-173
Request(c) ==
  /\ registry' = RegistryWith(BucketFor(c))
  /\ last' = [last EXCEPT ![BucketFor(c)] = clock]
  /\ asked' = [asked EXCEPT ![BucketFor(c)] = ticks]
  /\ Admit(c) \/ Refuse(c)
  /\ UNCHANGED <<clock, ticks, steps, restarts>>

Tick ==
  /\ ticks < MaxTicks
  /\ ticks' = ticks + 1 /\ clock' = clock + 1
  /\ UNCHANGED <<registry, tokens, last, asked, steps, restarts, granted, owed, hint>>

\* The wall clock is set back: what max(0.0, ...) of l.36 is there for.  What
\* clients were told is void.
StepBack ==
  /\ steps < MaxSteps /\ steps' = steps + 1
  /\ clock > 0 /\ clock' = clock - 1
  /\ hint' = [k \in Buckets |-> NoHint]
  /\ UNCHANGED <<registry, tokens, last, ticks, asked, restarts, granted, owed>>

\* The process is restarted: the registry is in its memory only.
Restart ==
  /\ restarts < MaxRestarts /\ restarts' = restarts + 1
  /\ registry' = {}
  /\ hint' = [k \in Buckets |-> NoHint]
  /\ UNCHANGED <<tokens, last, clock, ticks, asked, steps, granted, owed>>

Next == (\E c \in Clients : Request(c)) \/ Tick \/ StepBack \/ Restart

Spec == Init /\ [][Next]_vars

----------------------------------------------------------------------------
(* Properties. *)

TypeOK ==
  /\ registry \subseteq Buckets
  /\ tokens \in [Buckets -> Nat]
  /\ last \in [Buckets -> Nat]
  /\ clock \in Nat /\ ticks \in Nat /\ steps \in Nat /\ restarts \in Nat
  /\ asked \in [Buckets -> Nat] /\ granted \in [Buckets -> Nat]
  /\ owed \in [Clients -> Nat]
  /\ hint \in [Buckets -> [kind : {"none", "retry", "reset"}, at : Nat]]

\* A bucket lets through its capacity and what real time refills, and once
\* more its capacity per restart, however often stale buckets are pruned and
\* recreated full and the wall clock is set back (l.34-53 with l.74-94).
AdmissionBound ==
  \A k \in Buckets : granted[k] <= (restarts + 1) * Capacity[k] + ticks

\* Retry-After (l.171) keeps its word: once the seconds it named are over, the
\* next request is admitted if none was in between, also when the bucket was
\* pruned meanwhile; and X-RateLimit-Reset of an admitted request (l.180)
\* names seconds after which the bucket is full if it is left alone.
HintsKept ==
  \A k \in Buckets :
    /\ hint[k].kind = "retry" /\ clock >= hint[k].at => Level(k) >= Cost[k]
    /\ hint[k].kind = "reset" /\ clock >= hint[k].at => Level(k) = Capacity[k]

\* Retry-After is not longer than the next whole second: a second before it
\* the request would still be refused.
RetryNotTooLong ==
  \A k \in Buckets :
    (hint[k].kind = "retry" /\ clock + Second <= hint[k].at) => Level(k) < Cost[k]

Alone(c) == \A d \in Clients \ {c} : BucketOf[d] # BucketOf[c]

\* X-RateLimit-Remaining (l.44, l.179) keeps its word: a client that shares its
\* bucket with no other finds tokens for at least as many requests as its last
\* answer said it had left, and for a full burst before its first.  Neither the
\* requests of others, nor the pruning of a bucket, nor a restart, nor a wall
\* clock that is set back takes tokens from a bucket (l.36-40, l.76-94).
RemainingKept ==
  \A c \in Clients : Alone(c) => owed[c] * Cost[BucketOf[c]] <= Level(BucketOf[c])

\* What was taken from a bucket and what is in it do not exceed what it had
\* gained by its last request, and a bucket that is not there can start full
\* without exceeding it.
Ledger ==
  \A k \in Buckets :
    /\ asked[k] <= ticks
    /\ k \in registry =>
         /\ tokens[k] <= Capacity[k]
         /\ clock - last[k] <= ticks - asked[k]
         /\ granted[k] + tokens[k] <= (restarts + 1) * Capacity[k] + asked[k]
    /\ k \notin registry => granted[k] <= restarts * Capacity[k] + ticks

\* A hint is about the bucket as its last request left it, or about one that
\* has been idle long enough to be pruned.
Promises ==
  \A k \in Buckets : LET then == tokens[k] + (hint[k].at - last[k]) IN
    /\ hint[k].kind # "none" => last[k] <= clock /\ (k \notin registry => clock - last[k] > IdleLimit)
    /\ hint[k].kind = "reset" => then >= Capacity[k]
    /\ hint[k].kind = "retry" => Cost[k] <= then /\ then < Cost[k] + Second

\* What a client alone on its bucket is owed was in it after its last request,
\* and a full bucket covers it.
Owed ==
  \A c \in Clients : LET k == BucketOf[c] IN
    Alone(c) => /\ owed[c] * Cost[k] <= Capacity[k]
                /\ k \in registry => owed[c] * Cost[k] <= tokens[k]

\* The inductive invariant behind the other four.
IInv == Ledger /\ Promises /\ Owed

============================================================================
