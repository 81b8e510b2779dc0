SPECIFICATION RelaySpec
CONSTANTS
  r1 = r1
  r2 = r2
  None = None
  Run <- TwoRuns
  Logs <- GapsOnly
  MaxCommitFails = 3
  MaxReconnects = 1
  MaxRestarts = 0
  MaxAckFails = 0
PROPERTIES
  GapsAreForced
CHECK_DEADLOCK FALSE
