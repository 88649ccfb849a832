SPECIFICATION Spec
CONSTANTS
  Fds = {f1, f2}
  f1 = f1
  f2 = f2
  Workers = {w1, w2}
  w1 = w1
  w2 = w2
  MaxConns = 2
  MaxRequests = 1
  Pieces = 2
  MaxQueue = 1
  UserLimit = 2
  IdleTicks = 1
  Null = null
SYMMETRY LoopSymmetry
INVARIANTS
  TypeOK
  Serial
  OwnReply
  ConnsAccounted
  TimerAtLives
CHECK_DEADLOCK FALSE
