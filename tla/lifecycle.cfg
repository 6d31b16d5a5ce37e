SPECIFICATION SystemFairSpec
CONSTANTS
  queue = queue
  router_0 = router_0
  adapter = adapter
  Models <- MCModels
  Persist <- MCPersist
  Peers = {}
  Word = 100
  HighWaterMark = 100
  Faults = {"simInterrupt", "option", "stale", "archive"}
  SimTimeStep = 2
  SimTime = 9
  Savepoints = {0, 4}
  StartTimes = {0, 2}
  FirstTime = 1
  Period = 1
  Repeat = 1
  HalfInt = 16
  Long = 32
  MaxLoads = 1
INVARIANT
  InvCut
PROPERTIES
  StoreAtCut
  SavepointNotSkipped
  QueueSpec
  EverythingStops
  AllPublished
\* every process ends, or waits for one that has ended
CHECK_DEADLOCK FALSE
