SPECIFICATION StreamFairSpec
CONSTANTS
  Period = 2
  TotalTicks = 30
  BufferSize = 1
  Backoff <- MCBackoff
  MaxWait = 3
  MaxLatency = 0
  PerBatch = 2
  MaxCount = 4
  LastSlot = 3
INVARIANTS
  PassedOnInOrder
  SessionTells
PROPERTIES
  StreamEnds
CHECK_DEADLOCK FALSE
