SPECIFICATION Spec
CONSTANTS
  Window = 3
  Samples = {0, 2, 5}
  MaxTime = 5
  Scale = 729
  Utilization = {0, 1, 2, 3, 4, 5}
  BufferDrop = {0, 20, 50, 100}
INVARIANTS
  NeverBelowLine
  ScaleDownTracksDrop
CHECK_DEADLOCK FALSE
