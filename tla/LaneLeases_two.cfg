SPECIFICATION Spec
CONSTANTS
  w1 = w1
  w2 = w2
  l1 = l1
  l2 = l2
  None = None
  Worker <- Workers
  Lane <- TwoLanes
  Delivery <- Three
  LaneOf <- TwoLanesOf
  OffsetOf <- GapOffsetOf
  Quarantined <- GapQuarantine
  MaxOffset = 3
  LeaseDuration = 3
  RenewalThreshold = 1
  TransactionTimeout = 1
  MaxGeneration = 1
  Limit = 1
  CandidateLimit = 2
SYMMETRY Symmetry
INVARIANTS
  NothingLeasedPastDiscontinuity
PROPERTIES
  AtMostLimitClaims
CHECK_DEADLOCK FALSE
