SPECIFICATION FairSpec
CONSTANTS
  p1 = p1
  p2 = p2
  x = x
  y = y
  None = None
  Partition <- TwoPartitions
  Change <- TwoChanges
  MaxRecords = 3
  MaxFaults = 2
INVARIANTS
  OnlyFailedRecordsAreLost
PROPERTIES
  EveryRecordIsTaken
CHECK_DEADLOCK FALSE
