SPECIFICATION Spec
CONSTANTS
  None = None
  w1 = w1
  w2 = w2
  p1 = p1
  p2 = p2
  Workloads <- MCWorkloads
  Attempts <- MCAttempts
  Processes <- MCProcesses
  Readers <- MCReaders
  MaxFaults = 2
SYMMETRY Symmetry
INVARIANTS
  NumbersAreDistinct
  PointerIsPublished
  LookupIsNewest
PROPERTY
  ImplementsRegister
