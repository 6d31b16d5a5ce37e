------------------------- MODULE MCSimulationSystem -------------------------
(***************************************************************************)
(* Small instances of SimulationSystem for TLC: a router, a processing     *)
(* element and the SystemC adapter (which is not persistent).              *)
(***************************************************************************)
EXTENDS SimulationSystem

CONSTANTS router_0, element, adapter

SmallModels  == {router_0, element, adapter}
SmallPersist == {router_0, element}

=============================================================================
