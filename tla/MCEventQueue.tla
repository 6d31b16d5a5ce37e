---------------------------- MODULE MCEventQueue ----------------------------
(***************************************************************************)
(* Small instances of EventQueue for TLC.                                  *)
(***************************************************************************)
EXTENDS EventQueue

CONSTANT MaxTime   \* bound on the simulation time

MCTimes == 0 .. MaxTime

Forever == -1   \* Repeat of the event in init()

=============================================================================
