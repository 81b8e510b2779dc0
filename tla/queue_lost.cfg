SPECIFICATION QueueSpec
CONSTANTS
  s1 = s1
  s2 = s2
  w1 = w1
  w2 = w2
  None = None
  InitialQueues <- Plain
  Strategy <- TwoStrategies
  Worker <- TwoWorkers
  MaxExpiries = 0
  MaxDenials = 0
  MaxWorkFails = 0
  MaxRedisFails = 0
  MaxDbFails = 0
  MaxCrashes = 0
  Mixes = {}
CHECK_DEADLOCK FALSE
INVARIANTS
  NothingLost
