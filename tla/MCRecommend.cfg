SPECIFICATION Spec
CONSTANTS
  r1 = r1
  r2 = r2
  Nil = Nil
  Values = {0, 2000}
  Roots = {2}
  Margins <- SomeMargins
  PRR = {r1, r2}
  Peaks = {2, 9000}
  Limits = {3, 2007}
  Inexact = {2007}
  MaxPolicies = 2
INVARIANTS
  BoundsOrdered
  PeakFloor
  TargetNearPolicy
CHECK_DEADLOCK FALSE
