SPECIFICATION HangingSpec
CONSTANTS
  Workers = {w1, w2}
  w1 = w1
  w2 = w2
  w3 = w3
  ExecThreads = {e1}
  e1 = e1
  e2 = e2
  Scheduler = scheduler
  Inputs = {x1}
  x1 = x1
  x2 = x2
  Null = null
  Priorities = {1}
  MaxBatchSize = 1
  MaxConcurrent = 1
  MaxQueueSize = 1
  TimeoutSec = 1
  TicksPerSec = 1
  IdSpace = 10
  SemMax = 0
  EngineMayFail = FALSE
  SpawnMayFail = TRUE
  StopEnabled = TRUE
  MaxTime = 1
  MaxTasks = 2
INVARIANTS
  QueueLimit
PROPERTIES
  StopEndsScheduler
  TimeoutFreesWorker
CHECK_DEADLOCK FALSE
