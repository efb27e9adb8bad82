SPECIFICATION FairSpec
CONSTANTS
  w1 = w1
  l1 = l1
  l2 = l2
  l3 = l3
  None = None
  Insertion = Insertion
  Renewal = Renewal
  Worker <- OneWorker
  Lane <- Lanes
  Limit = 1
  CandidateLimit = 2
  MaxFaults = 1
INVARIANTS
  TypeOK
PROPERTIES
  TurnIsLostOnlyByCommit
  EveryLaneIsExamined
  EveryHeadIsLeased
CHECK_DEADLOCK FALSE
