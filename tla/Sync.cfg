SPECIFICATION SyncFairSpec
CONSTANTS
  Analyzers = {a}
  Managers = {m}
  Sinks = {s}
  Recordings = {r}
  Shared = shared
  MaxEntered = 2
INVARIANTS
  LoopsAccounted
  ClosedBeforeLoop
PROPERTIES
  StopsEnd
CHECK_DEADLOCK FALSE
