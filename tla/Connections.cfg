SPECIFICATION ConnFairSpec
CONSTANTS
  p1 = p1  p2 = p2  a1 = a1  a2 = a2  b1 = b1
  Player <- MCPlayer
  Stream <- MCStream
  Owner <- MCOwner
  MaxRestarts = 1
INVARIANTS ConnTypeOK CountIsStreams TimerWhenIdle
PROPERTIES NobodyCleanedWhileStreaming 
CHECK_DEADLOCK FALSE
