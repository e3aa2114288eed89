SPECIFICATION MCSpec
CONSTANTS
  b1 = b1
  w1 = w1
  w2 = w2
  lockA = lockA
  None = None
  Keys = {}
  Bodies <- MCBodies
  Workers <- MCWorkers
  Parts = {}
  FailureClasses <- MCClasses
  Locks <- MCLocks
  LockSetups <- MCSetups
  Draining = {}
  MaxRuns = 2
  MaxTime = 1
  KeepFor = 1
  HostCount = 1
  Boundaries = 1
  PurgeInterval = 1
  MaxFaults = 1
PROPERTIES
  EveryRunEnds
CHECK_DEADLOCK FALSE
