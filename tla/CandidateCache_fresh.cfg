\* A reader races a writer, with Redis there all the time.
CONSTANTS
  Candidates = {c1}
  Readers = {a}
  Writers = {w1}
  HasRedis = TRUE
  TTL = 1
  MaxQuery = 0
  MaxTime = 0
  MaxOutages = 0
  MaxCrashes = 0
SPECIFICATION Spec
SYMMETRY Symmetry
INVARIANTS ReadYourWrites
\* Writers are done and time is up in the end.
CHECK_DEADLOCK FALSE
