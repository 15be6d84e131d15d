SPECIFICATION FairSpec
CONSTANTS
  Server = {s1, s2}
  Queued = {s1}
  MaxPlace = 2
  MaxNet = 2
  MaxEvents = 3
INVARIANTS TypeOK ButtonRight
PROPERTIES PassReachesPage
CHECK_DEADLOCK FALSE
