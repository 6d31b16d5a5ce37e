------------------------- MODULE MCEventQueueSystem -------------------------
(***************************************************************************)
(* A small instance of EventQueueSystem for TLC: the queue, a router and   *)
(* the SystemC adapter, which is not persistent.                           *)
(***************************************************************************)
EXTENDS EventQueueSystem

CONSTANTS router_0, adapter

MCModels  == {queue, router_0, adapter}
MCPersist == {queue, router_0}

=============================================================================
