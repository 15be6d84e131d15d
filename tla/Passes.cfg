SPECIFICATION FairSpec
CONSTANTS
  Player = {c1}
  Server = {s1, s2}
  MaxWire = 4
  MaxRestarts = 1
INVARIANTS TypeOK SetsAgree MismatchOnlyAfterRestart ListenersAgree 
PROPERTY AnnouncedInOrder
