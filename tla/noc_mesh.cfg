SPECIFICATION ResumedFairSpec
CONSTANTS
  router_0 = router_0
  router_1 = router_1
  router_2 = router_2
  router_3 = router_3
  element_0 = element_0
  element_1 = element_1
  element_2 = element_2
  element_3 = element_3
  Routers <- Mesh
  Elements <- MeshElements
  Dependencies <- MCDependencies
  ConnectivityBits <- MCConnectivityBits
  Route <- MCRoute
  Flits <- MCFlits
  MaxFlits = 2
  Budget <- Diagonal
  MaxCredit = 1
  FifoSize = 1
  Late = FALSE
  MaxResumes = 1
INVARIANTS
  CreditsConserved
  InOrder
  NoDeadlock
PROPERTIES
  Delivered
  ServiceSpec
\* the packet generators have a finite number of packets
CHECK_DEADLOCK FALSE
