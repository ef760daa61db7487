SPECIFICATION FairSpec
CONSTANTS
  Callers = {c1, c2, c3}
  Groups = {g1}
  BadGroup = g0
  StopAll = stop
  Retries = 1
  None = none
  MaxCalls = 1
INVARIANTS
  PulsesApart
  RaisedCoilExplained
PROPERTIES
  OkMeansPulsed
  CallsEnd
CHECK_DEADLOCK FALSE
