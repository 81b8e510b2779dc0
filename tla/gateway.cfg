SPECIFICATION GatewaySpec
CONSTANTS
  s1 = s1
  s2 = s2
  w1 = w1
  w2 = w2
  None = None
  InitialQueues <- Doubled
  Strategy <- TwoStrategies
  Worker <- TwoWorkers
  MaxExpiries = 1
  MaxDenials = 1
  MaxWorkFails = 1
  MaxRedisFails = 1
  MaxDbFails = 1
  MaxCrashes = 1
  Mixes = {{"work", "redis", "db", "crashes"}, {"expiries", "denials", "work"}}
  r1 = r1
  r2 = r2
  Run <- TwoRuns
  Logs <- RelayLogs
  MaxCommitFails = 1
  MaxReconnects = 2
  MaxRestarts = 1
  MaxAckFails = 1
INVARIANTS
  TypeOK
  OneHolder
  StatusAgrees
  HeldBackSafely
  RunsInOrder
PROPERTIES
  ReleasesOwnLock
  FsmSteps
  EveryEventHandled
CHECK_DEADLOCK FALSE
