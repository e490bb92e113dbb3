SPECIFICATION FairSurgeSpec
CONSTANTS
  p1 = p1
  p2 = p2
  p3 = p3
  q = q
  Nil = Nil
  Pod = {p1, p2}
  Foreign = {}
  Marked = {p2}
  InitTarget = 1
  InitReplicas = 1
  InitPods = {p1}
  Targets = {1}
  MaxTarget = 1
  Reporting = {}
  Raised = {"Infeasible"}
  MinAvailable = 0
  MaxSurge <- OneSurge
  SurgeCeiling = 1
  BurstTimeout = FALSE
  Env = {"flag", "unflag"}
PROPERTIES
  SurgeDrains
CHECK_DEADLOCK FALSE
