\* Three requests over two keys and two fingerprints, one crash.
CONSTANTS
  Requests = {r1, r2, r3}
  Keys = {k1, k2}
  Hashes = {h1, h2}
  NoKey = NoKey
  LongKey = LongKey
  NoBody = NoBody
  MaxCrashes = 1
SPECIFICATION Spec
SYMMETRY Symmetry
INVARIANTS ReplayFaithful AtMostOnce OneInFlight ProcessingAccounted
PROPERTY RowLifecycle
\* Every request may have its final answer.
CHECK_DEADLOCK FALSE
