SPECIFICATION FairSpec
CONSTANTS
  a = a
  b = b
  c = c
  d = d
  Nil = Nil
  Patch <- FourPatches
  DeltaCPU <- CPU
  DeltaMemory <- Memory
  NodeTotalCPU <- TotalCPUs
  NodeTotalMemory <- TotalMemories
  Rejected = {a}
PROPERTY
  AcceptedPatchesLand
