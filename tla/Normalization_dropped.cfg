SPECIFICATION Spec
CONSTANTS
  Null = Null
  Foreign = Foreign
  NoObject = NoObject
  Manifests <- DroppedColumn
  MaxDeviations = 0
INVARIANTS
  ChangesBecomeEvents
CHECK_DEADLOCK FALSE
