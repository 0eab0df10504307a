\* A client goes before its generator has started.
CONSTANTS
  admin = admin
  a = a
  b = b
  Pages = {admin}
  Scores = {a, b}
  Streams = {t1, t2}
  Own <- OwnOf
  Sees <- SeesOf
  NoStream = none
  MayAbandon = TRUE
  MountLoads = 2
  MaxLag = 0
  MaxSubmits = 1
  MaxRestarts = 0
SPECIFICATION FairSpec
PROPERTIES QueueReclaimed
