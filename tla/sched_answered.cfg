SPECIFICATION FairSpec
CONSTANTS
  Workers = {w1, w2}
  w1 = w1
  w2 = w2
  w3 = w3
  ExecThreads = {e1, e2}
  e1 = e1
  e2 = e2
  Scheduler = scheduler
  Inputs = {x1}
  x1 = x1
  x2 = x2
  Null = null
  Priorities = {1}
  MaxBatchSize = 2
  MaxConcurrent = 1
  MaxQueueSize = 0
  TimeoutSec = 1
  TicksPerSec = 1
  IdSpace = 10
  SemMax = 1
  EngineMayFail = FALSE
  SpawnMayFail = FALSE
  StopEnabled = FALSE
  MaxTime = 0
  MaxTasks = 3
PROPERTIES
  Answered
