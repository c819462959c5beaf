CONSTANTS
  t1 = t1  t2 = t2  t3 = t3
  Null = Null
  Requested = 2
  Task <- ThreeTasks
  MaxSignals = 1
SPECIFICATION LeavingSpec
INVARIANTS
  TypeOK
  QueueShape
  FreedAlone
PROPERTIES ImplementsTaskQueue TaskIsRun ShutdownEnds
CHECK_DEADLOCK FALSE
