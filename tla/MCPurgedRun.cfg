SPECIFICATION DaysSpec
CONSTANTS
  k1 = k1
  b1 = b1
  b2 = b2
  w1 = w1
  r1 = r1
  r2 = r2
  None = None
  Keys <- MCKeys
  Bodies <- MCBodies
  Posts <- MCPosts
  Workers <- MCWorkers
  Parts = {}
  FailureClasses <- MCClasses
  Requests <- MCRequests
  MaxRuns = 2
  MaxTime = 2
  KeepFor = 1
INVARIANT
  NoServerError
CHECK_DEADLOCK FALSE
