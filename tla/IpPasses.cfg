SPECIFICATION Spec
CONSTANTS
  c1 = c1  c2 = c2  a1 = a1  a2 = a2  s1 = s1  s2 = s2
  Player = {c1, c2}
  Server = {s1, s2}
  Address = {a1, a2}
  MaxWire = 2
  MaxEvents = 3
  MaxRestarts = 1
  Seen <- Shared
  Offered <- Three
  HeldAtFirst <- BothAtFirst
  LinkedAtFirst <- OneAddress
INVARIANTS TypeOK  DaemonAgrees
