\* A slow and a fast bucket; pruning, a clock set back, a restart.
CONSTANTS
  Clients <- SmallClients
  Buckets <- SmallBuckets
  BucketOf <- OwnBuckets
  Capacity <- SmallCapacity
  Cost <- SmallCost
  Second = 2
  IdleLimit = 6
  MaxBuckets = 0
  MaxTicks = 8
  MaxSteps = 1
  MaxRestarts = 1
SPECIFICATION Spec
INVARIANTS AdmissionBound HintsKept RetryNotTooLong RemainingKept
