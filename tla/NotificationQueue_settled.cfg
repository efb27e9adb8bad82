SPECIFICATION FairSpec
CONSTANTS
  e1 = e1
  e2 = e2
  i1 = i1
  i2 = i2
  None = None
  Event <- Events
  Unreadable <- OneUnreadable
  Instance <- Instances
  BatchSize = 2
  ProcessingTimeout = 1
  RetryDelay = 1
  MaxAttempts = 2
  MaxWait = 2
  MaxFaults = 3
INVARIANTS
  TypeOK
  ExclusiveUnlessLate
  StatusIsEarned
PROPERTIES
  OutcomeIsFinalUnlessLate
  EventuallySettled
