SPECIFICATION Spec
CONSTANTS
  None = None
  w1 = w1
  w2 = w2
  s1 = s1
  s2 = s2
  Workloads <- MCWorkloads
  SubmissionIds <- MCSubmissionIds
  OldStores <- MCOldStores
  MaxAttempts = 2
  MaxFaults = 3
SYMMETRY Symmetry
INVARIANTS
  ToldIsDurable
  LookupFindsCompleted
  SubmissionRunsOnce
PROPERTY
  IdNamesOneWorkload
CHECK_DEADLOCK FALSE
