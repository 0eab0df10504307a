\* A client that retries on 409, under fairness (no symmetry: a liveness run).
CONSTANTS
  Requests = {r1, r2, r3}
  Keys = {k1}
  Hashes = {h1}
  NoKey = NoKey
  LongKey = LongKey
  NoBody = NoBody
  MaxCrashes = 1
SPECIFICATION FairSpec
PROPERTY RetrierGetsThrough
\* Every request may have its final answer.
CHECK_DEADLOCK FALSE
