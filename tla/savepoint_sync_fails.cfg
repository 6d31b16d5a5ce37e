SPECIFICATION Spec
CONSTANTS
  router_0 = router_0
  element = element
  adapter = adapter
  Models <- SmallModels
  Persist <- SmallPersist
  Peers <- SmallModels
  Word = 100
  HighWaterMark = 100
  Faults = {"syncFail"}
  SimTimeStep = 2
  SimTime = 5
  Savepoints = {0, 2}
  StartTimes = {0, 2}
PROPERTIES
  TickAfterStore
\* every process ends
CHECK_DEADLOCK FALSE
