---------------------------- MODULE SimulationClock ----------------------------
(***************************************************************************)
(* The clock of models/simulation_model with the widths of its integers,   *)
(* which SimulationModel leaves out: the field CurrentSimTime of a         *)
(* configuration has 64 bits, the int of getCurrentSimTime 32, and the     *)
(* local currentSimTime of run() 64 again.  A configuration file may hold  *)
(* any numbers of these widths: nothing looks at them.                     *)
(***************************************************************************)
EXTENDS Integers

CONSTANTS
  HalfInt,  \* 2^31
  Long,     \* 2^64
  Starts,   \* CurrentSimTime, ...
  Ends,     \* ... SimTime, ...
  Steps     \* ... and SimTimeStep in a configuration file

ASSUME WidthAssumption ==
  /\ HalfInt \in Nat \ {0}
  /\ Long \in Nat
  /\ \E n \in 1 .. Long : Long = n * (2 * HalfInt)
  /\ Starts \subseteq 0 .. Long - 1
  /\ Ends \subseteq 0 .. Long - 1
  /\ Steps \subseteq 0 .. 2 * HalfInt - 1

VARIABLES
  pc,               \* "loaded", "run" or "stopped"
  currentSimTime,   \* the local of run()
  mCurrentSimTime, mSimTime, mSimTimeStep,
  published,        \* the last tick, or -1
  turn,             \* flips with every tick: two equal ones are two steps
  loaded            \* the time in the configuration that was loaded

fields    == <<mSimTime, mSimTimeStep, loaded>>
clockVars == <<pc, currentSimTime, mCurrentSimTime, fields, published, turn>>

Init ==
  /\ pc = "loaded"
  /\ currentSimTime = 0
  /\ mCurrentSimTime \in Starts
  /\ mSimTime \in Ends
  /\ mSimTimeStep \in Steps
  /\ published = -1
  /\ turn = FALSE
  /\ loaded = mCurrentSimTime

(* A bug: getCurrentSimTime returns a type of half the width.              *)
getCurrentSimTimeShort(t) == t % (HalfInt \div 2)

(* An int holds t modulo 2^32; as a uint64_t again, a negative one is huge.*)
getCurrentSimTime(t) ==
  LET low == t % (2 * HalfInt)
  IN  IF low < HalfInt THEN low ELSE Long - 2 * HalfInt + low

(* A bug: the local variable has 32 bits, too.                             *)
AfterShort(t) == (t + mSimTimeStep) % (2 * HalfInt)

After(t) == (t + mSimTimeStep) % Long

Run ==
  /\ pc = "loaded"
  /\ pc' = "run"
  /\ currentSimTime' = getCurrentSimTime(mCurrentSimTime)
  /\ UNCHANGED <<mCurrentSimTime, fields, published, turn>>

Cycle ==
  /\ pc = "run"
  /\ currentSimTime <= mSimTime
  /\ published' = currentSimTime
  /\ turn' = ~turn
  /\ currentSimTime' = After(currentSimTime)
  /\ mCurrentSimTime' = currentSimTime'
  /\ UNCHANGED <<pc, fields>>

Stop ==
  /\ pc = "run"
  /\ currentSimTime > mSimTime
  /\ pc' = "stopped"
  /\ UNCHANGED <<currentSimTime, mCurrentSimTime, fields, published, turn>>

Next == Run \/ Cycle \/ Stop

Spec     == Init /\ [][Next]_clockVars
FairSpec == Spec /\ WF_clockVars(Next)

-----------------------------------------------------------------------------

(* "Restore states" (loadState): run() goes on at the time of the          *)
(* configuration if an int can hold it; if not, at another that agrees     *)
(* with it in its low 32 bits.  From the first tick on the field, which    *)
(* saveState stores and End carries, is the time of the loop.              *)
FieldAgrees ==
  pc # "loaded" =>
    /\ loaded < HalfInt \/ published # -1 => currentSimTime = mCurrentSimTime
    /\ currentSimTime % (2 * HalfInt) = mCurrentSimTime % (2 * HalfInt)

(* The last tick and a step fit into 64 bits.                              *)
Fits == mSimTime + mSimTimeStep < Long

(* Every tick is behind the one before it, and none comes twice: whatever  *)
(* time is loaded, unless the step is zero, when it is the same tick over  *)
(* and over, or the clock overflows.                                       *)
Forward ==
  [][turn' # turn /\ Fits =>
       \/ published' > published
       \/ mSimTimeStep = 0 /\ published' = published]_clockVars

(* The clock gets beyond SimTime if it does not overflow, and with step    *)
(* zero only when it is beyond it from the start; the code tests neither.  *)
ClockEnds ==
  Fits => \/ <>(pc = "stopped")
          \/ mSimTimeStep = 0 /\ getCurrentSimTime(mCurrentSimTime) <= mSimTime

=============================================================================
