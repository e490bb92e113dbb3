SPECIFICATION Spec
CONSTANTS
  p1 = p1
  p2 = p2
  p3 = p3
  q = q
  Nil = Nil
  Pod = {p1}
  Foreign = {q}
  Marked = {q}
  InitTarget = Nil
  InitReplicas = 1
  InitPods = {p1}
  Targets = {0, 1}
  MaxTarget = 1
  Reporting = {}
  Raised = {"Infeasible", "Anomalous"}
  MinAvailable = 0
  MaxSurge <- HalfSurge
  SurgeCeiling = 1
  BurstTimeout = FALSE
  Env = {"hpa", "podFail", "flag", "fault", "restart", "deleteDeployment"}
INVARIANTS
  TypeOK
  SurgeWithinBudget
  ReplicaEnvelope
PROPERTIES
  PRRDeletedOnlyForGone
CHECK_DEADLOCK FALSE
