SPECIFICATION Spec
CONSTANTS
  router_0 = router_0
  router_1 = router_1
  router_2 = router_2
  router_3 = router_3
  element_0 = element_0
  element_1 = element_1
  element_2 = element_2
  element_3 = element_3
  Routers <- Row
  Elements <- RowElements
  Dependencies <- MCDependencies
  ConnectivityBits <- MCConnectivityBits
  Route <- MCRoute
  Flits <- MCFlits
  MaxFlits = 4
  Budget <- OneSender
  MaxCredit = 3
  FifoSize = 3
  Late = TRUE
INVARIANTS
  CreditsNotCreated
  NoOverflow
  IInv
\* the packet generators have a finite number of packets
CHECK_DEADLOCK FALSE
