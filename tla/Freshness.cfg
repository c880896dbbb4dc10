SPECIFICATION Spec
CONSTANTS
  HealthWindow = 2
  FutureSkew = 1
  CutMaxSkew = 1
  FailThreshold = 2
  MaxAge = 1
  Offsets <- SmallOffsets
  None <- NoInstant
  MaxLag = 1
  MaxTime = 3
  MaxFaults = 1
INVARIANTS AcceptedIsCurrent HealthyPasses
PROPERTIES AdoptedIsCurrent
CHECK_DEADLOCK FALSE
