SPECIFICATION PushSpec
CONSTANTS
  own = own
  other = other
  None = None
  Strategy <- TwoStrategies
  Own = own
  Scripts <- Feeds
  MaxFailures = 2
  MaxOutages = 2
  MaxDisconnects = 1
  MaxDenials = 1
  Conn = {"c1", "c2"}
  Topic = {"activation"}
  World = {"w1"}
  Capacity = 2
  MaxEvents = 3
  MaxHitches = 2
INVARIANTS
  QueuesSafe
PROPERTIES
  ImplementsOrderedFeed
  GateSettles
  StopReturns
CHECK_DEADLOCK FALSE
