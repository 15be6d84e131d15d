SPECIFICATION FairSpec
CONSTANTS
  s1 = s1  vip = vip
  Player = {c1, vip}
  Server = {s1}
  Max <- OneSeat
  Staff = {vip}
  Privileged <- VipOnly
  Visitors = {c1, vip}
  Tick = {t1}
  Request = {r1}
  MaxRestarts = 1
  NoPlayer = NoPlayer
  NoServer = NoServer
INVARIANTS TypeOK EveryPassListed
PROPERTIES NoLostEntry AdmissionSettles
