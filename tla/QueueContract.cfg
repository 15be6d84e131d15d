SPECIFICATION FairSpec
CONSTANTS
  p1 = p1  p2 = p2  r1 = r1  r2 = r2  k1 = k1  k2 = k2
  Nobody = Nobody
  N = 2
  MaxLine = 2
  MaxRestarts = 0
  Player <- TwoPlayers
  Queued <- BothPorts
  Uncapped <- BothPorts
  Request <- TwoRequests
  Tick <- OneTick
  Serial <- TwoPlayers
  Ops <- PlainOps
PROPERTIES  UncappedLineMoves
