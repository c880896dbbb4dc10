SPECIFICATION Spec
CONSTANTS
  Inodes <- OneInode
  Window = 1
  Chunk = 4
  Period = 1
  Threshold = 2
  QueueLimit = 2
  LegacyOffsets <- NoOffsets
  LongestLine = 1
  MaxBytes = 8
  MaxEpoch = 1
  MaxTime = 2
  MaxFaults = 1
INVARIANTS QuarantineSurvives
PROPERTIES QuarantineIsDue
