SPECIFICATION FairSpec
CONSTANTS
  w1 = w1
  w2 = w2
  p1 = p1
  p2 = p2
  None = None
  Worker <- TwoWorkers
  Partition <- OnePartition
  Class <- AllClasses
  MaxLog = 2
  MaxBatch = 2
  MaxFaults = 2
  MaxTopics = 2
INVARIANTS
  TypeOK
  KafkaNeverAhead
  IntakeIsContiguous
  IntakeIsTheLog
  StageNeverRejects
PROPERTIES
  IntakeImplementsLog
  ConsumedIsDurable
  EventuallyStaged
CHECK_DEADLOCK FALSE
