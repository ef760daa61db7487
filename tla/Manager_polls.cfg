SPECIFICATION FairSpec
CONSTANTS
  Tasks = {t1}
  Pollers = {p1, p2}
  Users = {u1}
  Names = {a, b}
  Removable = {a}
  Paths = {com1}
  Transports = {}
  Prebuilt = {}
  Protocols = {rtu}
  Continuous = cont
  None = none
  MaxAdds = 2
INVARIANTS
  SharedOnlyIfStale
PROPERTIES
  PollOutcomes
  PollsEnd
