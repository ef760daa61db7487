SPECIFICATION FrameSpec
CONSTANTS
  Spans <- MCSpans
  Width = 7
  Policies <- MCPolicies
  StatusPolicies <- MCStatusPolicies
  CalStates <- MCCalStates
  Flags <- MCFlags
  None = None
INVARIANTS
  PlanSound
  Fewest
  FrameTrue
CHECK_DEADLOCK FALSE
