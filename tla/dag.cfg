SPECIFICATION DagSpec
CONSTANTS
  None = None
  n1 = n1
  n2 = n2
  Node <- TwoNodes
  Diff = {"d1", "d2"}
  Context = {"live", "dry"}
  Requests <- AnyRequests
  Graphs <- SomeGraphs
  Weight = {1, 2}
  Attempts = 1
  MaxKafkaFailures = 2
  MaxCreateFails = 1
  MaxBindFails = 1
  MaxPublishFails = 1
  Client = {"submission", "worker"}
  Setups <- TwoSetups
  Window = 1
  Patience = 2
  MaxAckFails = 1
INVARIANTS
  TopicsKept
  ContextsApart
  WeightsSettle
  AnswerTellsTruth
PROPERTIES
  DiffEnds
CHECK_DEADLOCK FALSE
