CONSTANTS
  Trades = {l1, l2, w1}
  Losing = {l1, l2}
  Snapshots <- OneSnapshot
  DayLength = 2
  HealthWindow = 1
  CutMaxSkew = 1
  SoftLoss = 1
  HardLoss = 2
  FailThreshold = 2
  MaxTime = 3
  MaxGen = 2
  MaxFaults = 1
SPECIFICATION Spec
INVARIANTS CountedOnce
SYMMETRY LosersAlike
CHECK_DEADLOCK FALSE
