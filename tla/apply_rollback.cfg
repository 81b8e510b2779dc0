SPECIFICATION FairSpec
CONSTANTS
  s1 = s1
  s2 = s2
  r1 = r1
  r2 = r2
  p1 = p1
  None = None
  Strategy <- TwoStrategies
  Side <- LongOnly
  RunId <- TwoRuns
  PutId <- NoPuts
  PostLists <- NoPosts
  Domain <- LiveAndShadow
  PreDisable <- LiveAndShadow
  PostEnable <- LiveOnly
  FailAt <- FailBeforeUndo
  InitialDocs <- UsedDoc
  MaxRequests = 2
  MaxFails = 1
  MaxCrashes = 1
  MaxPosts = 0
INVARIANTS
  TypeOK
  GatedWhileSwitching
  CompletedIsApplied
  RolledBackIsFrozen
  SettledWhenIdle
PROPERTIES
  EveryRunSettles
CHECK_DEADLOCK FALSE
