SPECIFICATION FairSpec
CONSTANTS
  c1 = c1
  c2 = c2
  dispatcher = dispatcher
  internal = internal
  Client <- TwoClients
  Broadcaster <- TwoBroadcasters
  IdleLimit = 1
  StaleLimit = 1
INVARIANTS
  NoEntryIsLeaked
  CountIsHonest
  SteadyClientsAreReached
PROPERTIES
  VanishedIsForgotten
