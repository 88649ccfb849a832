SPECIFICATION Spec
CONSTANTS
  Workers = {w1, w2}
  w1 = w1
  w2 = w2
  w3 = w3
  ExecThreads = {e1, e2}
  e1 = e1
  e2 = e2
  Scheduler = scheduler
  Inputs = {x1, x2}
  x1 = x1
  x2 = x2
  Null = null
  Priorities = {1}
  MaxBatchSize = 2
  MaxConcurrent = 1
  MaxQueueSize = 0
  TimeoutSec = 1
  TicksPerSec = 1
  IdSpace = 10
  SemMax = 0
  EngineMayFail = FALSE
  SpawnMayFail = FALSE
  StopEnabled = TRUE
  MaxTime = 2
  MaxTasks = 2
SYMMETRY ThreadSymmetry
INVARIANTS
  OnlyTimeoutsDangle
  OwnOutcome
  TimeoutNotEarly
  NoOrphan
  NoLostWakeup
  InOnePlace
CHECK_DEADLOCK FALSE
