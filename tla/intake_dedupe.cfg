SPECIFICATION Spec
CONSTANTS
  x1 = x1
  x2 = x2
  w1 = w1
  d1 = d1
  d2 = d2
  None = None
  InitialQueues <- NoQueues
  Strategy <- TwoSubmissions
  DagOf <- SameDag
  Worker <- OneWorker
  MaxExpiries = 0
  MaxDenials = 1
  MaxWorkFails = 0
  MaxRedisFails = 1
  MaxDbFails = 1
  MaxCrashes = 0
  Mixes = {{"redis", "db"}, {"denials"}}
  MaxLogFails = 1
CHECK_DEADLOCK FALSE
INVARIANTS
  AcceptedOncePerDag
