SPECIFICATION FairSpec
CONSTANTS
  Kinds <- Every
  BatchSize = 2
  FlushInterval = 1
  MaxSamples = 5
  MaxBatch = 3
INVARIANTS
  PipeAccounted
  StoredOnce
  AssertionsExplained
PROPERTIES
  FlushedWhileFed
CHECK_DEADLOCK FALSE
