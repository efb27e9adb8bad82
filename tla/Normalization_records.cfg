SPECIFICATION Spec
CONSTANTS
  Null = Null
  Foreign = Foreign
  NoObject = NoObject
  Manifests <- AllManifests
  MaxDeviations = 2
INVARIANTS
  OutcomeIsJustified
  OnlyPoisonEndsTheWorker
CHECK_DEADLOCK FALSE
