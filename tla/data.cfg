SPECIFICATION DataSpec
CONSTANTS
  p1 = p1
  p2 = p2
  None = None
  Interval = 2
  Horizon = 10
  Proc = {p1, p2}
  Request <- ThreeBars
  ChunkBars = 2
  Attempts = 2
  Tables <- OneFound
  MaxFetches = 1
  MaxMishaps = 1
  Client = {"reader", "replay"}
  Requests <- SomeAsks
  Policies <- SomePolicies
  MaxTime = 1
INVARIANTS
  RangesExact
  BackfillSafe
  CleanFetchFills
  AnswersAreGated
PROPERTIES
  FetchEnds
  AsOfAdvances
CHECK_DEADLOCK FALSE
