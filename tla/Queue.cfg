SPECIFICATION Spec
CONSTANTS
  p1 = p1  p2 = p2  r1 = r1  r2 = r2  k1 = k1  k2 = k2
  Nobody = Nobody
  N = 1
  MaxLine = 3
  MaxRestarts = 1
  Player <- TwoPlayers
  Queued <- FirstPort
  Uncapped <- NoPort
  Request <- TwoRequests
  Tick <- TwoTicks
  Serial <- FirstPlayer
  Ops <- AllOps
SYMMETRY TaskSymmetry
INVARIANTS TypeOK NoPhantomMember SerialPlayersHoldOnePlace BroadcastCurrent
