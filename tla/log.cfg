SPECIFICATION FairSpec
CONSTANTS
  Writers = {w1, w2}
  w1 = w1
  w2 = w2
  QueueSize = 2
  SplitLines = 2
  MaxDay = 1
  MaxLines = 2
  Null = null
INVARIANTS
  TypeOK
  NoLineLost
  QueueOrder
  SplitLimit
PROPERTIES
  EveryLineLands
CHECK_DEADLOCK FALSE
