SPECIFICATION RiskPart
CONSTANTS
  None = None
  s1 = s1
  s2 = s2
  r1 = r1
  r2 = r2
  p1 = p1
  Strategy <- OneStrategy
  Side <- LongOnly
  RunId <- TwoRuns
  PutId <- OnePut
  PostLists <- AnyPosts
  Domain <- NoDomain
  PreDisable <- NoDomain
  PostEnable <- NoDomain
  FailAt <- FailAround
  InitialDocs <- FreshDoc
  MaxRequests = 2
  MaxFails = 0
  MaxCrashes = 0
  MaxPosts = 1
  a = a
  b = b
  Server = {w1, w2}
  Poster = {m1, m2}
  Snapshots <- Posted
  MaxCached = 2
  RiskAttempts = 2
  MaxFaults = 0
  MaxOutages = 0
  Caller = {m1, m2}
  Payloads <- Allocated
  MaxAllocations = 2
  MaxMishaps = 0
  Requester = {m1, m2}
  Orders <- Traded
  Desk = {"u", "v"}
  MaxLosses = 0
  EvalKey = {"k1", "k2"}
  Task = {m1, m2}
  Jobs <- Judged
  StoredRuns <- TwoStored
  PromotionModes = {"manual_approval", "auto_apply"}
  LiveAtFirst = {"s0"}
  MaxLiveSlots = 1
  EventDriven = FALSE
  MaxJobs = 3
  MaxSlips = 1
SYMMETRY Alike
INVARIANTS
  StoredIsAnnounced
CHECK_DEADLOCK FALSE
