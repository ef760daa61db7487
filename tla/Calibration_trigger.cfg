SPECIFICATION Spec
CONSTANTS
  Callers = {c1}
  Groups = {g1}
  BadGroup = g0
  StopAll = stop
  Retries = 0
  None = none
  MaxCalls = 2
PROPERTY SuccessMeansTriggered
CHECK_DEADLOCK FALSE
