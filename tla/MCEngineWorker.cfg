SPECIFICATION Spec
CONSTANTS
  b1 = b1
  w1 = w1
  w2 = w2
  c1 = c1
  lockA = lockA
  lockB = lockB
  None = None
  Keys = {}
  Bodies <- MCBodies
  Workers <- TwoWorkers
  Parts = {}
  FailureClasses <- MCClasses
  Locks <- TwoLocks
  LockSetups <- AnyLocks
  Draining = {}
  MaxRuns = 2
  MaxTime = 2
  KeepFor = 1
  HostCount = 1
  Boundaries = 1
  PurgeInterval = 1
  MaxFaults = 1
SYMMETRY Symmetry
INVARIANTS
  RunnerOwnsRow
  RunningHasRunner
  RunAgainOnlyOnSets
PROPERTIES
  ResultIsItsRunners
CHECK_DEADLOCK FALSE
