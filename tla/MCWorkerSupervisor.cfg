SPECIFICATION Spec
CONSTANTS
  a1 = a1
  a2 = a2
  r1 = r1
  r2 = r2
  r3 = r3
  q1 = q1
  q2 = q2
  w1 = w1
  w2 = w2
  w3 = w3
  None = None
  Apis <- MCApis
  Requests <- MCRequests
  ApiOf <- MCApiOf
  Queues <- MCQueues
  QueueSetups <- MCSetups
  Workers <- MCWorkers
  MaxRuns = 1
  MaxInFlight = 2
  MaxFaults = 1
INVARIANTS
  OneChildPerApi
  FailedStartsAreItsOwn
  ServingIsSeen
SYMMETRY Symmetry
