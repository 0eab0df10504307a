\* One page that loads twice and reconnects, clients that go early, a restart (no symmetry: a liveness run).
CONSTANTS
  admin = admin
  a = a
  b = b
  Pages = {admin}
  Scores = {a, b}
  Streams = {t1, t2}
  Own <- OwnOf
  Sees <- SeesOf
  NoStream = none
  MayAbandon = TRUE
  MountLoads = 2
  MaxLag = 2
  MaxSubmits = 2
  MaxRestarts = 1
SPECIFICATION FairSpec
INVARIANTS GaugeTruthful NoGaps OneLinePerScore NothingMissed
PROPERTY ShownInTheEnd
