\* A failed execution lets two retries both succeed.
CONSTANTS
  Requests = {r1, r2, r3}
  Keys = {k1}
  Hashes = {h1}
  NoKey = NoKey
  LongKey = LongKey
  NoBody = NoBody
  MaxCrashes = 0
SPECIFICATION Spec
INVARIANT OneSuccessPerKey
\* Every request may have its final answer.
CHECK_DEADLOCK FALSE
