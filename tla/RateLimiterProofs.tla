-------------------------- MODULE RateLimiterProofs --------------------------
(***************************************************************************)
(* What RateLimiter promises for any number of clients, buckets, restarts  *)
(* and clock steps, and any policy in which a stale bucket would be full.  *)
(***************************************************************************)
EXTENDS RateLimiter, TLAPS

\* Rounding up to whole seconds: never short, and by less than a second.
LEMMA CeilDivBounds ==
  ASSUME NEW a \in Nat, NEW b \in Nat \ {0}
  PROVE  /\ CeilDiv(a, b) \in Nat
         /\ b * CeilDiv(a, b) >= a
         /\ b * CeilDiv(a, b) < a + b
<1> DEFINE q == (a + b - 1) \div b
           r == (a + b - 1) % b
<1>1. a + b - 1 \in Nat
  OBVIOUS
<1>2. q \in Int /\ r \in 0 .. b - 1 /\ a + b - 1 = b * q + r
  BY <1>1
<1>3. q \in Nat
  BY <1>1
<1> QED
  BY <1>2, <1>3 DEF CeilDiv

\* Rounding down to whole tokens: never more than there is.
LEMMA WholeTokens ==
  ASSUME NEW parts \in Nat, NEW cost \in Nat \ {0}
  PROVE  parts \div cost \in Nat /\ (parts \div cost) * cost <= parts
<1> DEFINE q == parts \div cost
           r == parts % cost
<1>1. q \in Int /\ r \in 0 .. cost - 1 /\ parts = cost * q + r
  OBVIOUS
<1>2. q \in Nat
  OBVIOUS
<1>3. q * cost = cost * q /\ q * cost \in Nat
  BY <1>2
<1> QED
  BY <1>1, <1>2, <1>3

USE DEF Least, Greatest, BucketFor

LEMMA SecondsBounds ==
  ASSUME NEW parts \in Nat
  PROVE  /\ Seconds(parts) \in Nat
         /\ Seconds(parts) >= parts
         /\ parts > 0 => Seconds(parts) < parts + Second
<1>1. /\ CeilDiv(parts, Second) \in Nat
      /\ Second * CeilDiv(parts, Second) >= parts
      /\ Second * CeilDiv(parts, Second) < parts + Second
  BY CeilDivBounds, SecondIsSome
<1>2. CASE CeilDiv(parts, Second) >= 1
  <2>1. Seconds(parts) = Second * CeilDiv(parts, Second)
    BY <1>1, <1>2 DEF Seconds
  <2>2. Second * CeilDiv(parts, Second) \in Nat
    BY <1>1, SecondIsSome
  <2> QED
    BY <1>1, <2>1, <2>2
<1>3. CASE CeilDiv(parts, Second) = 0
  <2>1. Seconds(parts) = Second
    BY <1>3, SecondIsSome DEF Seconds
  <2>2. parts = 0
    BY <1>1, <1>3, SecondIsSome
  <2> QED
    BY <2>1, <2>2, SecondIsSome
<1> QED
  BY <1>1, <1>2, <1>3

LEMMA LevelBounds ==
  ASSUME TypeOK, NEW k \in Buckets
  PROVE  /\ Level(k) \in Nat
         /\ Level(k) <= Capacity[k]
         /\ k \notin registry => Level(k) = Capacity[k]
         /\ k \in registry => /\ Level(k) <= tokens[k] + Greatest(0, clock - last[k])
                             /\ \/ Level(k) = Capacity[k]
                                \/ Level(k) = tokens[k] + Greatest(0, clock - last[k])
<1>1. Capacity[k] \in Nat /\ tokens[k] \in Nat /\ last[k] \in Nat /\ clock \in Nat
  BY Tokens DEF TypeOK
<1> QED
  BY <1>1 DEF Level

\* What a request does to its own bucket and to the registry.
LEMMA RequestEffect ==
  ASSUME TypeOK, NEW c \in Clients, Request(c), NEW k, k = BucketOf[c]
  PROVE  /\ k \in Buckets /\ k \in registry' /\ last'[k] = clock /\ asked'[k] = ticks
         /\ registry' \subseteq registry \cup {k}
         /\ \A j \in Buckets \ {k} :
              /\ tokens'[j] = tokens[j] /\ last'[j] = last[j] /\ asked'[j] = asked[j]
              /\ granted'[j] = granted[j] /\ hint'[j] = hint[j]
              /\ j \in registry /\ j \notin registry' => clock - last[j] > IdleLimit
         /\ tokens'[k] \in Nat /\ granted'[k] \in Nat
         /\ tokens'[k] <= Level(k) /\ tokens'[k] + granted'[k] = Level(k) + granted[k]
<1>1. k \in Buckets
  BY BucketType
<1>2. Level(k) \in Nat /\ Cost[k] \in Nat /\ granted[k] \in Nat
  BY <1>1, LevelBounds, Tokens DEF TypeOK
<1>3. registry' = RegistryWith(k) /\ last' = [last EXCEPT ![k] = clock] /\ asked' = [asked EXCEPT ![k] = ticks]
  BY DEF Request
<1>4. k \in registry' /\ last'[k] = clock /\ asked'[k] = ticks /\ registry' \subseteq registry \cup {k}
  BY <1>1, <1>3 DEF RegistryWith, TypeOK
<1>5. \A j \in Buckets \ {k} : /\ last'[j] = last[j] /\ asked'[j] = asked[j]
                               /\ j \in registry /\ j \notin registry' => clock - last[j] > IdleLimit
  BY <1>3 DEF RegistryWith, Stale, TypeOK
<1>6. CASE Admit(c)
  <2>1. tokens'[k] = Level(k) - Cost[k] /\ granted'[k] = granted[k] + Cost[k] /\ Level(k) >= Cost[k]
    BY <1>1, <1>6 DEF Admit, TypeOK
  <2>2. \A j \in Buckets \ {k} : tokens'[j] = tokens[j] /\ granted'[j] = granted[j] /\ hint'[j] = hint[j]
    BY <1>6 DEF Admit, TypeOK
  <2> QED
    BY <1>1, <1>2, <1>4, <1>5, <2>1, <2>2
<1>7. CASE Refuse(c)
  <2>1. tokens'[k] = Level(k) /\ granted'[k] = granted[k]
    BY <1>1, <1>7 DEF Refuse, TypeOK
  <2>2. \A j \in Buckets \ {k} : tokens'[j] = tokens[j] /\ granted'[j] = granted[j] /\ hint'[j] = hint[j]
    BY <1>7 DEF Refuse, TypeOK
  <2> QED
    BY <1>1, <1>2, <1>4, <1>5, <2>1, <2>2
<1> QED
  BY <1>6, <1>7 DEF Request

----------------------------------------------------------------------------
(* Types. *)

LEMMA RequestTypes == ASSUME TypeOK, NEW c \in Clients, Request(c) PROVE TypeOK'
<1> DEFINE k == BucketOf[c]
           Hint == [kind : {"none", "retry", "reset"}, at : Nat]
<1>1. k \in Buckets /\ Level(k) \in Nat /\ Level(k) <= Capacity[k] /\ Cost[k] \in Nat \ {0} /\ Capacity[k] \in Nat
  BY BucketType, LevelBounds, Tokens
<1>2. registry' \subseteq Buckets /\ last' \in [Buckets -> Nat] /\ asked' \in [Buckets -> Nat]
  BY <1>1 DEF Request, RegistryWith, TypeOK
<1>3. CASE Admit(c)
  <2>1. Level(k) - Cost[k] \in Nat /\ Capacity[k] - (Level(k) - Cost[k]) \in Nat
    BY <1>1, <1>3 DEF Admit
  <2>2. clock + Seconds(Capacity[k] - (Level(k) - Cost[k])) \in Nat
    BY <2>1, SecondsBounds DEF TypeOK
  <2>3. [kind |-> "reset", at |-> clock + Seconds(Capacity[k] - (Level(k) - Cost[k]))] \in Hint
    BY <2>2
  <2>4. hint' \in [Buckets -> Hint]
    BY <1>1, <1>3, <2>3 DEF Admit, TypeOK
  <2>5. tokens' \in [Buckets -> Nat] /\ granted' \in [Buckets -> Nat]
    BY <1>1, <1>3, <2>1 DEF Admit, TypeOK
  <2>6. owed' \in [Clients -> Nat]
    BY <1>1, <1>3, <2>1, WholeTokens DEF Admit, TypeOK
  <2> QED
    BY <1>2, <1>3, <2>4, <2>5, <2>6 DEF Request, Admit, TypeOK
<1>4. CASE Refuse(c)
  <2>1. Cost[k] - Level(k) \in Nat
    BY <1>1, <1>4 DEF Refuse
  <2>2. clock + Seconds(Cost[k] - Level(k)) \in Nat
    BY <2>1, SecondsBounds DEF TypeOK
  <2>3. [kind |-> "retry", at |-> clock + Seconds(Cost[k] - Level(k))] \in Hint
    BY <2>2
  <2>4. hint' \in [Buckets -> Hint]
    BY <1>1, <1>4, <2>3 DEF Refuse, TypeOK
  <2>5. tokens' \in [Buckets -> Nat]
    BY <1>1, <1>4 DEF Refuse, TypeOK
  <2> QED
    BY <1>2, <1>4, <2>4, <2>5 DEF Request, Refuse, TypeOK
<1> QED
  BY <1>3, <1>4 DEF Request

LEMMA OtherTypes == ASSUME TypeOK, Tick \/ StepBack \/ Restart \/ UNCHANGED vars PROVE TypeOK'
<1>1. NoHint \in [kind : {"none", "retry", "reset"}, at : Nat]
  BY DEF NoHint
<1>2. CASE Tick
  BY <1>2 DEF Tick, TypeOK
<1>3. CASE StepBack
  BY <1>1, <1>3 DEF StepBack, TypeOK
<1>4. CASE Restart
  BY <1>1, <1>4 DEF Restart, TypeOK
<1>5. CASE UNCHANGED vars
  BY <1>5 DEF vars, TypeOK
<1> QED
  BY <1>2, <1>3, <1>4, <1>5

LEMMA InitTypes == ASSUME Init PROVE TypeOK
<1>1. ASSUME NEW c \in Clients PROVE Capacity[BucketOf[c]] \div Cost[BucketOf[c]] \in Nat
  BY BucketType, Tokens, WholeTokens
<1>2. owed \in [Clients -> Nat]
  BY <1>1 DEF Init
<1> QED
  BY <1>2 DEF Init, TypeOK, NoHint

\* Every variable of the limiter keeps its type (rate_limiter.py l.12-101).
THEOREM TypeCorrect == Spec => []TypeOK
<1>1. Init => TypeOK
  BY InitTypes
<1>2. TypeOK /\ [Next]_vars => TypeOK'
  BY RequestTypes, OtherTypes DEF Next
<1> QED
  BY <1>1, <1>2, PTL DEF Spec

----------------------------------------------------------------------------
(* The inductive invariant. *)

LEMMA OneMore ==
  ASSUME NEW n \in Nat, NEW m \in Nat
  PROVE  (n + 1) * m = n * m + m /\ n * m \in Nat
OBVIOUS

LEMMA RequestLedger == ASSUME TypeOK, Ledger, NEW c \in Clients, Request(c) PROVE Ledger'
<1> DEFINE k == BucketOf[c]
<1>0. clock' = clock /\ ticks' = ticks /\ restarts' = restarts
  BY DEF Request
<1> SUFFICES ASSUME NEW j \in Buckets
             PROVE  /\ asked'[j] <= ticks
                    /\ j \in registry' =>
                         /\ tokens'[j] <= Capacity[j]
                         /\ clock - last'[j] <= ticks - asked'[j]
                         /\ granted'[j] + tokens'[j] <= (restarts + 1) * Capacity[j] + asked'[j]
                    /\ j \notin registry' => granted'[j] <= restarts * Capacity[j] + ticks
  BY <1>0 DEF Ledger
<1>1. /\ tokens[j] \in Nat /\ granted[j] \in Nat /\ last[j] \in Nat /\ asked[j] \in Nat
      /\ clock \in Nat /\ ticks \in Nat /\ restarts \in Nat /\ Capacity[j] \in Nat
  BY Tokens DEF TypeOK
<1>2. (restarts + 1) * Capacity[j] = restarts * Capacity[j] + Capacity[j] /\ restarts * Capacity[j] \in Nat
  BY <1>1, OneMore
<1>3. /\ asked[j] <= ticks
      /\ j \in registry => /\ tokens[j] <= Capacity[j]
                           /\ clock - last[j] <= ticks - asked[j]
                           /\ granted[j] + tokens[j] <= restarts * Capacity[j] + Capacity[j] + asked[j]
      /\ j \notin registry => granted[j] <= restarts * Capacity[j] + ticks
  BY <1>2 DEF Ledger
<1>4. CASE j = k
  <2>1. /\ j \in registry' /\ last'[j] = clock /\ asked'[j] = ticks
        /\ tokens'[j] \in Nat /\ granted'[j] \in Nat
        /\ tokens'[j] <= Level(j) /\ tokens'[j] + granted'[j] = Level(j) + granted[j]
    BY <1>4, RequestEffect
  <2>2. /\ Level(j) \in Nat /\ Level(j) <= Capacity[j]
        /\ j \in registry => Level(j) <= tokens[j] + Greatest(0, clock - last[j])
    BY LevelBounds
  <2>3. j \in registry => Level(j) <= tokens[j] + (ticks - asked[j])
    BY <1>1, <1>3, <2>2
  <2>4. Level(j) + granted[j] <= restarts * Capacity[j] + Capacity[j] + ticks
    BY <1>1, <1>2, <1>3, <2>2, <2>3
  <2> QED
    BY <1>1, <1>2, <2>1, <2>2, <2>4
<1>5. CASE j # k
  <2>1. /\ tokens'[j] = tokens[j] /\ last'[j] = last[j] /\ asked'[j] = asked[j] /\ granted'[j] = granted[j]
        /\ j \in registry /\ j \notin registry' => clock - last[j] > IdleLimit
        /\ j \in registry' => j \in registry
    BY <1>5, RequestEffect
  <2>2. CASE j \in registry /\ j \notin registry'
    <3>1. ticks - asked[j] > Capacity[j]
      BY <1>1, <1>3, <2>1, <2>2, StaleIsFull, Limits
    <3> QED
      BY <1>1, <1>2, <1>3, <2>1, <2>2, <3>1
  <2> QED
    BY <1>1, <1>2, <1>3, <2>1, <2>2
<1> QED
  BY <1>4, <1>5

LEMMA OtherLedger == ASSUME TypeOK, Ledger, Tick \/ StepBack \/ Restart \/ UNCHANGED vars PROVE Ledger'
<1> SUFFICES ASSUME NEW j \in Buckets
             PROVE  /\ asked'[j] <= ticks'
                    /\ j \in registry' =>
                         /\ tokens'[j] <= Capacity[j]
                         /\ clock' - last'[j] <= ticks' - asked'[j]
                         /\ granted'[j] + tokens'[j] <= (restarts' + 1) * Capacity[j] + asked'[j]
                    /\ j \notin registry' => granted'[j] <= restarts' * Capacity[j] + ticks'
  BY DEF Ledger
<1>1. /\ tokens[j] \in Nat /\ granted[j] \in Nat /\ last[j] \in Nat /\ asked[j] \in Nat
      /\ clock \in Nat /\ ticks \in Nat /\ restarts \in Nat /\ Capacity[j] \in Nat
  BY Tokens DEF TypeOK
<1>2. (restarts + 1) * Capacity[j] = restarts * Capacity[j] + Capacity[j] /\ restarts * Capacity[j] \in Nat
  BY <1>1, OneMore
<1>3. /\ asked[j] <= ticks
      /\ j \in registry => /\ tokens[j] <= Capacity[j]
                           /\ clock - last[j] <= ticks - asked[j]
                           /\ granted[j] + tokens[j] <= restarts * Capacity[j] + Capacity[j] + asked[j]
      /\ j \notin registry => granted[j] <= restarts * Capacity[j] + ticks
  BY <1>2 DEF Ledger
<1>4. CASE Tick
  BY <1>1, <1>2, <1>3, <1>4 DEF Tick
<1>5. CASE StepBack
  BY <1>1, <1>2, <1>3, <1>5 DEF StepBack
<1>6. CASE Restart
  <2>1. /\ registry' = {} /\ restarts' = restarts + 1
        /\ granted' = granted /\ ticks' = ticks /\ asked' = asked
    BY <1>6 DEF Restart
  <2> QED
    BY <1>1, <1>2, <1>3, <2>1
<1>7. CASE UNCHANGED vars
  BY <1>7, <1>2, <1>3 DEF vars
<1> QED
  BY <1>4, <1>5, <1>6, <1>7

LEMMA RequestPromises == ASSUME TypeOK, Promises, NEW c \in Clients, Request(c) PROVE Promises'
<1> DEFINE k == BucketOf[c]
<1>0. clock' = clock
  BY DEF Request
<1> SUFFICES ASSUME NEW j \in Buckets
             PROVE  /\ hint'[j].kind # "none" =>
                         last'[j] <= clock /\ (j \notin registry' => clock - last'[j] > IdleLimit)
                    /\ hint'[j].kind = "reset" => tokens'[j] + (hint'[j].at - last'[j]) >= Capacity[j]
                    /\ hint'[j].kind = "retry" => /\ Cost[j] <= tokens'[j] + (hint'[j].at - last'[j])
                                                 /\ tokens'[j] + (hint'[j].at - last'[j]) < Cost[j] + Second
  BY <1>0 DEF Promises
<1>1. /\ tokens[j] \in Nat /\ last[j] \in Nat /\ clock \in Nat /\ Capacity[j] \in Nat /\ Cost[j] \in Nat
      /\ hint[j].at \in Nat /\ Second \in Nat /\ Cost[j] <= Capacity[j]
  BY Tokens, SecondIsSome DEF TypeOK
<1>2. /\ hint[j].kind # "none" => last[j] <= clock /\ (j \notin registry => clock - last[j] > IdleLimit)
      /\ hint[j].kind = "reset" => tokens[j] + (hint[j].at - last[j]) >= Capacity[j]
      /\ hint[j].kind = "retry" => /\ Cost[j] <= tokens[j] + (hint[j].at - last[j])
                                  /\ tokens[j] + (hint[j].at - last[j]) < Cost[j] + Second
  BY DEF Promises
<1>3. CASE j # k
  <2>1. /\ tokens'[j] = tokens[j] /\ last'[j] = last[j] /\ hint'[j] = hint[j]
        /\ j \in registry /\ j \notin registry' => clock - last[j] > IdleLimit
    BY <1>3, RequestEffect
  <2> QED
    BY <1>2, <2>1
<1>4. CASE j = k
  <2>1. j \in registry' /\ last'[j] = clock
    BY <1>4, RequestEffect
  <2>2. /\ Level(j) \in Nat /\ Level(j) <= Capacity[j]
        /\ j \notin registry => Level(j) = Capacity[j]
        /\ j \in registry => \/ Level(j) = Capacity[j]
                             \/ Level(j) = tokens[j] + Greatest(0, clock - last[j])
    BY LevelBounds
  <2>3. CASE Admit(c)
    <3> DEFINE left == Level(j) - Cost[j]
    <3>1. left \in Nat /\ Capacity[j] - left \in Nat
      BY <1>1, <1>4, <2>2, <2>3 DEF Admit
    <3>2. hint'[j] = [kind |-> "reset", at |-> clock + Seconds(Capacity[j] - left)] /\ tokens'[j] = left
      BY <1>4, <2>3 DEF Admit, TypeOK
    <3>3. Seconds(Capacity[j] - left) \in Nat /\ Seconds(Capacity[j] - left) >= Capacity[j] - left
      BY <3>1, SecondsBounds
    <3> QED
      BY <1>1, <2>1, <3>1, <3>2, <3>3
  <2>4. CASE Refuse(c)
    <3> DEFINE gap == Cost[j] - Level(j)
    <3>1. gap \in Nat /\ gap > 0 /\ tokens'[j] = Level(j) /\ j \in registry /\ Level(j) # Capacity[j]
      BY <1>1, <1>4, <2>2, <2>4 DEF Refuse, TypeOK
    <3>2. Seconds(gap) \in Nat /\ Seconds(gap) >= gap /\ Seconds(gap) < gap + Second
      BY <3>1, SecondsBounds
    <3>3. CASE hint[j].kind = "retry"
      <4>1. hint'[j] = hint[j]
        BY <1>4, <2>4, <3>3 DEF Refuse
      <4>2. Level(j) = tokens[j] + (clock - last[j])
        BY <1>1, <1>2, <2>2, <3>1, <3>3
      <4> QED
        BY <1>1, <1>2, <2>1, <3>1, <3>3, <4>1, <4>2
    <3>4. CASE hint[j].kind # "retry"
      <4>1. hint'[j] = [kind |-> "retry", at |-> clock + Seconds(gap)]
        BY <1>4, <2>4, <3>4 DEF Refuse, TypeOK
      <4> QED
        BY <1>1, <2>1, <2>2, <3>1, <3>2, <4>1
    <3> QED
      BY <3>3, <3>4
  <2> QED
    BY <2>3, <2>4 DEF Request
<1> QED
  BY <1>3, <1>4

LEMMA OtherPromises == ASSUME TypeOK, Promises, Tick \/ StepBack \/ Restart \/ UNCHANGED vars PROVE Promises'
<1>1. CASE Tick
  <2>1. UNCHANGED <<registry, tokens, last, hint>> /\ clock' = clock + 1
    BY <1>1 DEF Tick
  <2>2. clock \in Nat /\ IdleLimit \in Nat /\ \A k \in Buckets : last[k] \in Nat
    BY Limits DEF TypeOK
  <2> QED
    BY <2>1, <2>2 DEF Promises
<1>2. CASE StepBack \/ Restart
  BY <1>2 DEF StepBack, Restart, Promises, NoHint
<1>3. CASE UNCHANGED vars
  BY <1>3 DEF vars, Promises
<1> QED
  BY <1>1, <1>2, <1>3

LEMMA StepOwed == ASSUME TypeOK, Owed, [Next]_vars PROVE Owed'
<1> SUFFICES ASSUME NEW c \in Clients, Alone(c), NEW k, k = BucketOf[c]
             PROVE  /\ owed'[c] * Cost[k] <= Capacity[k]
                    /\ k \in registry' => owed'[c] * Cost[k] <= tokens'[k]
  BY DEF Owed, Alone
<1>0. k \in Buckets /\ Capacity[k] \in Nat /\ Cost[k] \in Nat \ {0} /\ tokens[k] \in Nat /\ owed[c] \in Nat
  BY BucketType, Tokens DEF TypeOK
<1>1. /\ owed[c] * Cost[k] <= Capacity[k]
      /\ k \in registry => owed[c] * Cost[k] <= tokens[k]
  BY DEF Owed
<1>2. CASE \E d \in Clients : Request(d)
  <2>1. PICK d \in Clients : Request(d)
    BY <1>2
  <2>2. CASE d # c
    <3>1. k # BucketOf[d]
      BY <2>2 DEF Alone
    <3>2. tokens'[k] = tokens[k] /\ (k \in registry' => k \in registry)
      BY <1>0, <2>1, <3>1, RequestEffect
    <3>3. owed'[c] = owed[c]
      BY <2>1, <2>2 DEF Request, Admit, Refuse, TypeOK
    <3> QED
      BY <1>1, <3>2, <3>3
  <2>3. CASE d = c
    <3>1. Level(k) \in Nat /\ Level(k) <= Capacity[k]
      BY <1>0, LevelBounds
    <3>2. CASE Admit(c)
      <4> DEFINE left == Level(k) - Cost[k]
      <4>1. left \in Nat /\ left <= Capacity[k]
        BY <1>0, <3>1, <3>2 DEF Admit
      <4>2. owed'[c] = left \div Cost[k] /\ tokens'[k] = left
        BY <1>0, <3>2 DEF Admit, TypeOK
      <4>3. (left \div Cost[k]) * Cost[k] <= left /\ left \div Cost[k] \in Nat
        BY <1>0, <4>1, WholeTokens
      <4>4. (left \div Cost[k]) * Cost[k] \in Nat
        BY <1>0, <4>3
      <4> QED
        BY <1>0, <4>1, <4>2, <4>3, <4>4
    <3>3. CASE Refuse(c)
      <4>1. owed'[c] = 0 /\ tokens'[k] = Level(k)
        BY <1>0, <3>3 DEF Refuse, TypeOK
      <4> QED
        BY <1>0, <3>1, <4>1
    <3> QED
      BY <2>1, <2>3, <3>2, <3>3 DEF Request
  <2> QED
    BY <2>2, <2>3
<1>3. CASE Tick \/ StepBack \/ Restart \/ UNCHANGED vars
  <2>1. owed' = owed /\ tokens' = tokens /\ (k \in registry' => k \in registry)
    BY <1>3 DEF Tick, StepBack, Restart, vars
  <2> QED
    BY <1>1, <2>1
<1> QED
  BY <1>2, <1>3 DEF Next

\* The ledger of each bucket, what hints are about, and that a client alone on
\* its bucket finds in it what it was promised hold in every reachable state.
THEOREM Inductive == Spec => [](TypeOK /\ IInv)
<1>1. Init => TypeOK /\ IInv
  <2> SUFFICES ASSUME Init PROVE TypeOK /\ IInv
    OBVIOUS
  <2>1. TypeOK
    BY InitTypes
  <2>2. \A k \in Buckets : 0 <= 0 * Capacity[k] + 0
    BY Tokens
  <2>3. Ledger
    BY <2>2 DEF Init, Ledger
  <2>4. Promises
    BY DEF Init, Promises, NoHint
  <2>5. Owed
    <3> SUFFICES ASSUME NEW c \in Clients, NEW k, k = BucketOf[c]
                 PROVE  owed[c] * Cost[k] <= Capacity[k] /\ k \notin registry
      BY DEF Owed
    <3>1. owed[c] = Capacity[k] \div Cost[k] /\ k \notin registry
      BY DEF Init
    <3>2. Capacity[k] \in Nat /\ Cost[k] \in Nat \ {0}
      BY BucketType, Tokens
    <3> QED
      BY <3>1, <3>2, WholeTokens
  <2> QED
    BY <2>1, <2>3, <2>4, <2>5 DEF IInv
<1>2. TypeOK /\ IInv /\ [Next]_vars => TypeOK' /\ IInv'
  BY RequestTypes, OtherTypes, RequestLedger, OtherLedger, RequestPromises, OtherPromises, StepOwed
     DEF Next, IInv
<1> QED
  BY <1>1, <1>2, PTL DEF Spec

----------------------------------------------------------------------------
(* What follows from it. *)

\* No bucket lets through more than its capacity, once per restart, and what
\* real time refills, whatever is pruned and however the clock is set
\* (l.34-53, l.74-94).
THEOREM AdmissionsBounded == Spec => []AdmissionBound
<1>1. TypeOK /\ IInv => AdmissionBound
  <2> SUFFICES ASSUME TypeOK, Ledger, NEW k \in Buckets
               PROVE  granted[k] <= (restarts + 1) * Capacity[k] + ticks
    BY DEF IInv, AdmissionBound
  <2>1. /\ tokens[k] \in Nat /\ granted[k] \in Nat /\ asked[k] \in Nat
        /\ ticks \in Nat /\ restarts \in Nat /\ Capacity[k] \in Nat
    BY Tokens DEF TypeOK
  <2>2. (restarts + 1) * Capacity[k] = restarts * Capacity[k] + Capacity[k] /\ restarts * Capacity[k] \in Nat
    BY <2>1, OneMore
  <2>3. /\ asked[k] <= ticks
        /\ k \in registry => granted[k] + tokens[k] <= restarts * Capacity[k] + Capacity[k] + asked[k]
        /\ k \notin registry => granted[k] <= restarts * Capacity[k] + ticks
    BY <2>2 DEF Ledger
  <2> QED
    BY <2>1, <2>2, <2>3
<1> QED
  BY <1>1, Inductive, PTL

\* What the promises say of a bucket now: its hint is enough, and no second too much.
LEMMA HintsOfABucket ==
  ASSUME TypeOK, IInv
  PROVE  HintsKept /\ RetryNotTooLong
<1> SUFFICES ASSUME TypeOK, Promises, NEW k \in Buckets
             PROVE  /\ hint[k].kind = "retry" /\ clock >= hint[k].at => Level(k) >= Cost[k]
                    /\ hint[k].kind = "reset" /\ clock >= hint[k].at => Level(k) = Capacity[k]
                    /\ (hint[k].kind = "retry" /\ clock + Second <= hint[k].at) => Level(k) < Cost[k]
  BY DEF IInv, HintsKept, RetryNotTooLong
<1>1. /\ tokens[k] \in Nat /\ last[k] \in Nat /\ clock \in Nat /\ Capacity[k] \in Nat /\ Cost[k] \in Nat
      /\ hint[k].at \in Nat /\ Second \in Nat /\ Cost[k] <= Capacity[k]
      /\ IdleLimit \in Nat /\ Capacity[k] <= IdleLimit
  BY Tokens, SecondIsSome, StaleIsFull, Limits DEF TypeOK
<1>2. /\ hint[k].kind # "none" => last[k] <= clock /\ (k \notin registry => clock - last[k] > IdleLimit)
      /\ hint[k].kind = "reset" => tokens[k] + (hint[k].at - last[k]) >= Capacity[k]
      /\ hint[k].kind = "retry" => /\ Cost[k] <= tokens[k] + (hint[k].at - last[k])
                                  /\ tokens[k] + (hint[k].at - last[k]) < Cost[k] + Second
  BY DEF Promises
<1> QED
  BY <1>1, <1>2 DEF Level

\* A refused client that waits Retry-After finds its tokens, an admitted one
\* that waits for the reset finds its bucket full (l.42-53, l.167-180).
THEOREM HintsTrue == Spec => []HintsKept
BY HintsOfABucket, Inductive, PTL

\* Retry-After is less than a second too long (l.42-48, l.167-180).
THEOREM RetryIsShort == Spec => []RetryNotTooLong
BY HintsOfABucket, Inductive, PTL

\* A client alone on its bucket finds the requests that its last answer said it
\* had left, whatever others do, is pruned, restarted or done to the clock
\* (l.36-46, l.76-94, l.179).
THEOREM RemainingIsKept == Spec => []RemainingKept
<1>1. TypeOK /\ IInv => RemainingKept
  <2> SUFFICES ASSUME TypeOK, Ledger, Owed, NEW c \in Clients, Alone(c), NEW k, k = BucketOf[c]
               PROVE  owed[c] * Cost[k] <= Level(k)
    BY DEF IInv, RemainingKept
  <2>1. /\ k \in Buckets /\ Capacity[k] \in Nat /\ tokens[k] \in Nat /\ clock \in Nat /\ last[k] \in Nat
        /\ Cost[k] \in Nat /\ owed[c] \in Nat
    BY BucketType, Tokens DEF TypeOK
  <2>2. owed[c] * Cost[k] \in Nat
    BY <2>1
  <2>3. owed[c] * Cost[k] <= Capacity[k] /\ (k \in registry => owed[c] * Cost[k] <= tokens[k])
    BY DEF Owed
  <2> QED
    BY <2>1, <2>2, <2>3 DEF Level
<1> QED
  BY <1>1, Inductive, PTL

=============================================================================
