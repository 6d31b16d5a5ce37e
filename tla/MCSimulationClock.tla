--------------------------- MODULE MCSimulationClock ---------------------------
(***************************************************************************)
(* An int of four bits and a long of six.                                  *)
(***************************************************************************)
EXTENDS SimulationClock

LongStart  == 0 .. Long - 1
LongEnd    == {0, HalfInt - 1, HalfInt, 2 * HalfInt + 1, Long - 4, Long - 1}
SmallSteps == 0 .. 3

=============================================================================
