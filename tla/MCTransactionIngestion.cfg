SPECIFICATION FairSpec
CONSTANTS
  p1 = p1
  p2 = p2
  Partitions <- MCPartitions
  Log <- MCLog
  NoMessage = NoMessage
  MaxCrashes = 3
INVARIANTS
  TypeOK
  CommittedAfterHandling
  NothingSkipped
  CacheAgrees
PROPERTIES
  CommittedNotRepublished
  Progress
CHECK_DEADLOCK FALSE
