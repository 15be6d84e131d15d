SPECIFICATION Spec
CONSTANTS
  s1 = s1  vip = vip
  Player = {c1, c2, c3}
  Server = {s1}
  Max <- OneSeat
  Staff = {}
  Privileged = {}
  Visitors = {c1}
  Tick = {t1, t2}
  Request = {}
  MaxRestarts = 0
  NoPlayer = NoPlayer
  NoServer = NoServer
INVARIANTS OverrunBounded
