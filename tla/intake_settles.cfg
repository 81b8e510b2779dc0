SPECIFICATION FairSpec
CONSTANTS
  x1 = x1
  x2 = x2
  w1 = w1
  d1 = d1
  d2 = d2
  None = None
  InitialQueues <- NoQueues
  Strategy <- TwoSubmissions
  DagOf <- OwnDag
  Worker <- OneWorker
  MaxExpiries = 0
  MaxDenials = 1
  MaxWorkFails = 1
  MaxRedisFails = 0
  MaxDbFails = 0
  MaxCrashes = 0
  Mixes = {{"denials"}, {"work"}}
  MaxLogFails = 0
CHECK_DEADLOCK FALSE
INVARIANTS
  AcceptedIsKept
PROPERTIES
  AcceptedSettles
