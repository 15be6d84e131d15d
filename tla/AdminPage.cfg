SPECIFICATION FairSpec
CONSTANTS
  Server = {s1, s2}
  NoServer = NoServer
  MaxNet = 1
  MaxEvents = 3
INVARIANTS TypeOK AdminViewRight
PROPERTIES AloneIsShown
CHECK_DEADLOCK FALSE
