--------------------------- MODULE MCResumedNetwork ---------------------------
(***************************************************************************)
(* The networks of MCNetworkOnChip, resumed.                               *)
(***************************************************************************)
EXTENDS ResumedNetwork, MCNetworkOnChip

=============================================================================
