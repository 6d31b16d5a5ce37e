SPECIFICATION Spec
CONSTANTS
  router_0 = router_0
  element = element
  adapter = adapter
  Models <- SmallModels
  Persist <- SmallPersist
  Peers <- SmallModels
  Word = 3
  HighWaterMark = 2
  Faults = {"bind", "slowJoin", "critical", "interrupt", "simInterrupt", "archive"}
  SimTimeStep = 2
  SimTime = 3
  Savepoints = {0, 2}
  StartTimes = {0, 2}
INVARIANTS
  RoundsMatch
  ServerOutlivesPrepare
  IInv
  
PROPERTIES
  TickAfterRestore
  TickAfterStore
  LockstepSpec
\* processes end, and a model that ended early leaves the others waiting
CHECK_DEADLOCK FALSE
