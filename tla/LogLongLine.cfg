SPECIFICATION FairSpec
CONSTANTS
  Inodes <- OneInode
  Window = 1
  Chunk = 2
  Period = 0
  Threshold = 2
  QueueLimit = 2
  LegacyOffsets <- NoOffsets
  LongestLine = 2
  MaxBytes = 4
  MaxEpoch = 1
  MaxTime = 0
  MaxFaults = 0
PROPERTIES RemainderPickedUp
