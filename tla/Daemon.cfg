SPECIFICATION FairSpec
CONSTANTS
  Port = {p1, p2}
  Address = {a1, a2}
  Interface = {e1}
  MaxFaults = 2
  NoPort = NoPort
INVARIANTS TypeOK RulesMatch ServedPortsGuarded NothingDangles
PROPERTIES NoFlicker GuardedInTheEnd
