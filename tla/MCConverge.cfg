SPECIFICATION FairSpec
CONSTANTS
  p1 = p1
  p2 = p2
  p3 = p3
  q = q
  Nil = Nil
  Pod = {p1}
  Foreign = {}
  Marked = {}
  InitTarget = Nil
  InitReplicas = 1
  InitPods = {p1}
  Targets = {0, 1}
  MaxTarget = 1
  Reporting = {p1}
  Raised = {}
  MinAvailable = 0
  MaxSurge <- OneSurge
  SurgeCeiling = 1
  BurstTimeout = FALSE
  Env = {"hpa", "manualScale", "deletePPVPA"}
PROPERTIES
  OnePRRPerPod
  LockStepPositive
  DeletionCompletes
  HPAPrevails
CHECK_DEADLOCK FALSE
