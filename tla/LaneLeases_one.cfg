SPECIFICATION Spec
CONSTANTS
  w1 = w1
  w2 = w2
  l1 = l1
  l2 = l2
  None = None
  Worker <- Workers
  Lane <- OneLane
  Delivery <- Two
  LaneOf <- OneLaneOf
  OffsetOf <- OneOffsetOf
  Quarantined <- NoQuarantine
  MaxOffset = 2
  LeaseDuration = 4
  RenewalThreshold = 1
  TransactionTimeout = 2
  MaxGeneration = 2
  Limit = 1
  CandidateLimit = 1
SYMMETRY Symmetry
INVARIANTS
  TypeOK
  LeaseInv
  OneActiveLeasePerLane
  ClaimsAreUnique
PROPERTIES
  NoOvertake
  LiveLeaseIsSafe
  ReturnedClaimIsFresh
  EveryLaneIsFenced
CHECK_DEADLOCK FALSE
