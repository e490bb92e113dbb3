SPECIFICATION AdmissionSpec
CONSTANTS
  p1 = p1
  p2 = p2
  p3 = p3
  q = q
  main = main
  sidecar = sidecar
  Nil = Nil
  Pod = {p1, p2}
  Foreign = {}
  Marked = {}
  InitTarget = 1
  InitReplicas = 1
  InitPods = {p1}
  Targets = {1}
  MaxTarget = 1
  Reporting = {p1}
  Container = {main, sidecar}
  Named <- NamesMain
  Raised = {"Infeasible"}
  MinAvailable = 0
  MaxSurge <- OneSurge
  SurgeCeiling = 1
  BurstTimeout = FALSE
  Env = {"flag", "unflag", "podFail"}
PROPERTIES
  SurplusGetsHeadroom
CHECK_DEADLOCK FALSE
