SPECIFICATION Spec
CONSTANTS
  Tasks = {t1, t2}
  Pollers = {}
  Users = {}
  Names = {a, b, c}
  Removable = {a, b, c}
  Paths = {com1}
  Transports = {x}
  Prebuilt = {z}
  Protocols = {rtu, ascii, cont}
  Continuous = cont
  None = none
  MaxAdds = 4
SYMMETRY Symmetry
INVARIANTS
  RefsMatchDevices
  OpenMatchesRegistry
