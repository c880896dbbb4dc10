CONSTANTS
  Trades = {l1}
  Losing = {l1}
  Snapshots <- TwoSnapshots
  DayLength = 1
  HealthWindow = 1
  CutMaxSkew = 1
  SoftLoss = 1
  HardLoss = 1
  FailThreshold = 2
  MaxTime = 1
  MaxGen = 3
  MaxFaults = 2
SPECIFICATION FairSpec
INVARIANTS TypeOK RestartNeverForgets OwnCheckpointLoads
PROPERTIES HealthyIsDurable BaselinesMonotone HardCapWithdrawn Recovers
CHECK_DEADLOCK FALSE
