SPECIFICATION FairSpec
CONSTANTS
  b1 = b1
  w1 = w1
  None = None
  Keys = {}
  Bodies <- MCBodies
  Workers <- MCWorkers
  Parts = {}
  FailureClasses <- MCClasses
  MaxRuns = 1
  MaxTime = 1
  KeepFor = 1
  HostCount = 3
  Length <- MCLength
  CHUNK_BYTES = 2
  Boundaries = 1
  Drain = FALSE
  PurgeInterval = 1
  MaxFaults = 2
INVARIANTS
  HostsKeepStep
PROPERTIES
  ImplementsSet
  NobodyWaitsForever
CHECK_DEADLOCK FALSE
