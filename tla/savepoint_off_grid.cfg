SPECIFICATION Spec
CONSTANTS
  router_0 = router_0
  element = element
  adapter = adapter
  Models <- SmallModels
  Persist <- SmallPersist
  Peers <- SmallModels
  Word = 100
  HighWaterMark = 100
  Faults = {}
  SimTimeStep = 2
  SimTime = 5
  Savepoints = {1}
  StartTimes = {0, 2}
PROPERTIES
  SavepointNotSkipped
\* every process ends
CHECK_DEADLOCK FALSE
