SPECIFICATION FairSpec
CONSTANTS
  w1 = w1
  w2 = w2
  p1 = p1
  p2 = p2
  None = None
  Worker <- OneWorker
  Partition <- TwoPartitions
  Class <- FailingClasses
  MaxLog = 1
  MaxBatch = 1
  MaxFaults = 0
  MaxTopics = 1
PROPERTIES
  PartitionsAreIndependent
CHECK_DEADLOCK FALSE
