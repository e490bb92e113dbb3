SPECIFICATION Spec
CONSTANTS
  a = a
  Nil = Nil
  MaxValue = 14
  FirstBucketSize = 2
  BucketRatio = 2
  Horizon = 3
  Pod = {a}
  CPUUsage = {3}
  MemoryUsage = {0, 7, 20}
  Interval = 2
  Stored <- Leftovers
  MaxSamples = 2
  MaxKills = 1
INVARIANTS
  StreamExact
  AggregateExact
  PeakCovered
PROPERTIES
  CheckpointGrows
CHECK_DEADLOCK FALSE
