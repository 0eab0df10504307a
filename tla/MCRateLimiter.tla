---------------------------- MODULE MCRateLimiter ----------------------------
(***************************************************************************)
(* RateLimiter for TLC: a tick is half a second.  The slow bucket needs    *)
(* more than a second for a token, as the auth tier does, the fast one     *)
(* gains one per second, as the standard tier does.                        *)
(***************************************************************************)
EXTENDS RateLimiter

SmallBuckets  == {"slow", "fast"}
SmallClients  == {"a", "b"}
OwnBuckets    == [c \in SmallClients |-> IF c = "a" THEN "slow" ELSE "fast"]
SmallCapacity == [k \in SmallBuckets |-> IF k = "fast" THEN 4 ELSE 6]
SmallCost     == [k \in SmallBuckets |-> IF k = "fast" THEN 2 ELSE 3]

=============================================================================
