SPECIFICATION Spec
CONSTANTS
  Timers = {t1, t2, t3, t4}
  t1 = t1
  t2 = t2
  t3 = t3
  t4 = t4
  IdleTime = 2
  MaxTime = 6
  Null = null
SYMMETRY TimerSymmetry
INVARIANTS
  TypeOK
  SortedList
PROPERTIES
  SweepsTheIdle
