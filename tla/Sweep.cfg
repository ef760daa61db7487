SPECIFICATION Spec
CONSTANTS
  Callers = {c1, c2}
  Slots <- Three
  Devices <- Some
  None = none
  MaxCalls = 3
  MaxFailures = 1
  MaxConfig = 1
SYMMETRY Symmetry
INVARIANTS
  EverySlotRead
  IllegalOnlyIfMissing
  NamesSinceIdentify
PROPERTIES
  SnapshotInOrder
CHECK_DEADLOCK FALSE
