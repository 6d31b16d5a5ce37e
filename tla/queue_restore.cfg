SPECIFICATION Spec
CONSTANTS
  MaxTime = 6
  Times <- MCTimes
  Cuts = {0, 3}
  HalfInt = 6
  Long = 16
  MaxLoads = 2
  FirstTime = 1
  Period = 2
  Repeat <- Forever
PROPERTIES
  RestoresStored
