CONSTANTS
  t1 = t1  t2 = t2  t3 = t3
  Null = Null
  Requested = 2
  Task <- TwoTasks
  MaxSignals = 1
SPECIFICATION LeavingSpec
PROPERTY ShutdownAlwaysEnds
CHECK_DEADLOCK FALSE
