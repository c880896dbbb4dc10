SPECIFICATION FairSpec
CONSTANTS
  Inodes <- TwoInodes
  Window = 2
  Chunk = 3
  Period = 0
  Threshold = 9
  QueueLimit = 1
  LegacyOffsets <- LegacyOffset
  LongestLine = 1
  MaxBytes = 4
  MaxEpoch = 2
  MaxTime = 0
  MaxFaults = 1
INVARIANTS OffsetMatchesTelemetry
PROPERTIES ReplacementIsNoticed NoNeedlessReplay RemainderPickedUp
