SPECIFICATION FairSpec
CONSTANTS
  Period = 2
  TotalTicks = 4
  BufferSize = 2
  Backoff <- MCBackoff
  MaxWait = 4
  MaxLatency = 1
INVARIANTS
  Balanced
  BlockLosesNothing
  StartsInItsSlot
  OnePollPastTheEnd
PROPERTIES
  SummaryFrozen
  ImplementsBatchStream
  Ends
CHECK_DEADLOCK FALSE
