SPECIFICATION OpenSpec
CONSTANTS
  Ports = {com1}
  Given = {x}
  Tries = 2
  MaxHalves = 5
  Absent = absent
INVARIANTS
  PortsAccounted
  OneBadLine
  SweepTells
