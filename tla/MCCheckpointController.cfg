SPECIFICATION FairSpec
CONSTANTS
  a = a
  b = b
  Nil = Nil
  Pod = {a}
  MaxUid = 2
  MaxVersion = 2
  Faults = TRUE
INVARIANTS
  NoOlderHistory
PROPERTIES
  CheckpointConverges
  CheckpointCollected
CHECK_DEADLOCK FALSE
