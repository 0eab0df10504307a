\* One reader, one writer, a crash and an outage of Redis over the lifetime of an entry.
CONSTANTS
  Candidates = {c1}
  Readers = {a}
  Writers = {w1}
  HasRedis = TRUE
  TTL = 2
  MaxQuery = 1
  MaxTime = 4
  MaxOutages = 1
  MaxCrashes = 1
SPECIFICATION Spec
SYMMETRY Symmetry
INVARIANTS BoundedStaleness StaleOnlyByRace
\* Writers are done and time is up in the end.
CHECK_DEADLOCK FALSE
