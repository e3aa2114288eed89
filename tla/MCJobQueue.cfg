SPECIFICATION QueueSpec
CONSTANTS
  k1 = k1
  b1 = b1
  w1 = w1
  c1 = c1
  c2 = c2
  None = None
  Keys <- MCKeys
  Bodies <- MCBodies
  Workers <- MCWorkers
  Parts <- MCParts
  FailureClasses <- MCClasses
  MaxRuns = 2
  MaxTime = 3
  KeepFor = 1
INVARIANTS
  TypeOK
  KeyNamesOneRow
  ArtifactsMatchResults
  PendingMayRun
  StartedInOrder
PROPERTIES
  OutcomeIsFinal
  ImplementsLifecycle
CHECK_DEADLOCK FALSE
