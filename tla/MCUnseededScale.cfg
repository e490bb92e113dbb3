SPECIFICATION Spec
CONSTANTS
  p1 = p1
  p2 = p2
  p3 = p3
  q = q
  Nil = Nil
  Pod = {p1, p2}
  Foreign = {}
  Marked = {}
  InitTarget = Nil
  InitReplicas = 2
  InitPods = {p1, p2}
  Targets = {2}
  MaxTarget = 2
  Reporting = {}
  Raised = {"Infeasible"}
  MinAvailable = 0
  MaxSurge <- OneSurge
  SurgeCeiling = 1
  BurstTimeout = FALSE
  Env = {"flag"}
INVARIANTS
  SeedKeepsReplicas
CHECK_DEADLOCK FALSE
