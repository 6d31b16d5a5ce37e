------------------------- MODULE SimulationClock_proofs -------------------------
(***************************************************************************)
(* Proofs about SimulationClock for integers of any width and for every    *)
(* configuration that they can hold.                                       *)
(***************************************************************************)
EXTENDS SimulationClock, TLAPS

(* What is left when whole multiples are taken away.                       *)
LEMMA Remainder ==
  ASSUME NEW b \in Nat \ {0}, NEW n \in Int, NEW r \in 0 .. b - 1
  PROVE  (n * b + r) % b = r
<1> DEFINE x == n * b + r
           q == x \div b
           m == x % b
<1>1. x \in Int /\ q \in Int /\ m \in 0 .. b - 1 /\ x = b * q + m
  OBVIOUS
<1>2. (n - q) * b = m - r
  BY <1>1
<1>3. n - q = 0
  <2>1. PICK d \in Int : d = n - q
    BY <1>1
  <2>2. d * b < b /\ -b < d * b
    BY <1>1, <1>2, <2>1
  <2>3. d > 0 => d * b >= b
    BY <2>1
  <2>4. d < 0 => d * b <= -b
    BY <2>1
  <2> QED
    BY <2>1, <2>2, <2>3, <2>4
<1>4. m = r
  BY <1>1, <1>2, <1>3
<1> QED
  BY <1>4

(* A number below the divisor is its own remainder.                        *)
LEMMA RemainderSmall ==
  ASSUME NEW n \in Nat, NEW k \in Nat, n < k
  PROVE  n % k = n
OBVIOUS

(* Through the int and back: a long that agrees with t in its low bits,    *)
(* and t itself if an int can hold it.                                     *)
LEMMA Narrowed ==
  ASSUME WidthAssumption, NEW t \in Nat
  PROVE  /\ getCurrentSimTime(t) \in Nat
         /\ getCurrentSimTime(t) % (2 * HalfInt) = t % (2 * HalfInt)
         /\ t < HalfInt => getCurrentSimTime(t) = t
<1> DEFINE b == 2 * HalfInt
           low == t % b
<1>1. HalfInt \in Nat \ {0} /\ b \in Nat \ {0} /\ low \in 0 .. b - 1
  BY DEF WidthAssumption
<1>2. PICK n \in Nat \ {0} : Long = n * b
  BY DEF WidthAssumption
<1>3. getCurrentSimTime(t) = IF low < HalfInt THEN low ELSE Long - b + low
  BY DEF getCurrentSimTime
<1>4. Long - b = (n - 1) * b /\ (n - 1) * b \in Nat
  BY <1>1, <1>2
<1>5. ((n - 1) * b + low) % b = low
  BY <1>1, Remainder
<1>6. low % b = low
  BY <1>1, RemainderSmall
<1>7. t < HalfInt => low = t
  BY <1>1, RemainderSmall
<1> HIDE DEF low, b
<1>8. CASE low < HalfInt
  BY <1>1, <1>3, <1>6, <1>7, <1>8 DEF b, low
<1>9. CASE ~(low < HalfInt)
  <2>1. getCurrentSimTime(t) = (n - 1) * b + low
    BY <1>3, <1>4, <1>9
  <2>2. getCurrentSimTime(t) \in Nat
    BY <1>1, <1>4, <2>1
  <2>3. ~(t < HalfInt)
    BY <1>7, <1>9
  <2> QED
    BY <1>5, <2>1, <2>2, <2>3 DEF b, low
<1> QED
  BY <1>8, <1>9

-----------------------------------------------------------------------------
(* The inductive invariant: every number is one, run() is not yet at work  *)
(* on a configuration that is being loaded, the field is the time of the   *)
(* loop, and the loop is ahead of the last tick.                           *)

InvNumbers ==
  /\ currentSimTime \in Nat /\ mCurrentSimTime \in Nat /\ published \in Int
  /\ mSimTime \in Nat /\ mSimTimeStep \in Nat

InvLoaded == pc = "loaded" => published = -1 /\ mCurrentSimTime = loaded

InvAhead ==
  Fits => \/ published < currentSimTime
          \/ mSimTimeStep = 0 /\ published = currentSimTime

InvClock == InvNumbers /\ InvLoaded /\ FieldAgrees /\ InvAhead

(* A tick.                                                                 *)
Tick ==
  \/ published' > published
  \/ mSimTimeStep = 0 /\ published' = published

LEMMA InitInvClock == WidthAssumption /\ Init => InvClock
BY DEF WidthAssumption, Init, InvClock, InvNumbers, InvLoaded, FieldAgrees, InvAhead

(* run() reads the time of the configuration.                              *)
LEMMA RunStep ==
  ASSUME WidthAssumption, InvClock, Run
  PROVE  InvClock' /\ turn' = turn
<1> USE DEF InvClock, Run, fields
<1>1. currentSimTime' = getCurrentSimTime(mCurrentSimTime) /\ mCurrentSimTime \in Nat
  BY DEF InvNumbers
<1>2. /\ currentSimTime' \in Nat
      /\ currentSimTime' % (2 * HalfInt) = mCurrentSimTime % (2 * HalfInt)
      /\ mCurrentSimTime < HalfInt => currentSimTime' = mCurrentSimTime
  BY <1>1, Narrowed
<1>3. InvNumbers' /\ InvLoaded'
  BY <1>2 DEF InvNumbers, InvLoaded
<1>4. FieldAgrees'
  BY <1>2 DEF InvLoaded, FieldAgrees
<1>5. InvAhead'
  BY <1>2 DEF InvLoaded, InvAhead
<1> QED
  BY <1>3, <1>4, <1>5

(* A tick, after which the clock is ahead again unless it overflows.       *)
LEMMA CycleStep ==
  ASSUME WidthAssumption, InvClock, Cycle
  PROVE  InvClock' /\ (Fits => Tick)
<1> USE DEF InvClock, Cycle, fields
<1>1. /\ currentSimTime \in Nat /\ mSimTimeStep \in Nat /\ mSimTime \in Nat
      /\ currentSimTime <= mSimTime /\ Long \in Nat \ {0} /\ published \in Int
  BY DEF InvNumbers, WidthAssumption
<1>2. After(currentSimTime) \in Nat
  BY <1>1 DEF After
<1>3. Fits => After(currentSimTime) = currentSimTime + mSimTimeStep
  BY <1>1, RemainderSmall DEF After, Fits
<1>4. InvNumbers' /\ InvLoaded'
  BY <1>1, <1>2 DEF InvNumbers, InvLoaded
<1>5. FieldAgrees'
  BY DEF FieldAgrees
<1>6. InvAhead'
  BY <1>1, <1>3 DEF InvAhead, Fits
<1>7. Fits => Tick
  BY <1>1 DEF InvAhead, Tick
<1> QED
  BY <1>4, <1>5, <1>6, <1>7

(* Every step keeps the invariant, and its tick goes forward.              *)
LEMMA NextInvClock ==
  ASSUME WidthAssumption, InvClock, [Next]_clockVars
  PROVE  InvClock' /\ (turn' # turn /\ Fits => Tick)
<1>1. CASE Run
  BY <1>1, RunStep
<1>2. CASE Cycle
  BY <1>2, CycleStep
<1>3. CASE Stop \/ UNCHANGED clockVars
  BY <1>3 DEF Stop, clockVars, fields, InvClock, InvNumbers, InvLoaded, FieldAgrees,
              InvAhead, Fits
<1> QED
  BY <1>1, <1>2, <1>3 DEF Next

-----------------------------------------------------------------------------
(* The theorems                                                            *)

(* run() goes on where the configuration says if an int can hold that      *)
(* time, else at one with the same low bits; and the field is the time of  *)
(* the loop after every cycle, also when the 64 bits have overflowed.      *)
THEOREM ClockRestored == Spec => []FieldAgrees
<1>1. InvClock => FieldAgrees
  BY DEF InvClock
<1>2. Init => InvClock
  BY InitInvClock, WidthAssumption
<1>3. InvClock /\ [Next]_clockVars => InvClock'
  BY NextInvClock, WidthAssumption
<1> QED
  BY <1>1, <1>2, <1>3, PTL DEF Spec

(* Whatever time a configuration starts at, also one that comes out of the *)
(* int as another: every tick is behind the one before it, or is the same  *)
(* if the step is zero, unless the last tick and a step do not fit into 64 *)
(* bits.                                                                   *)
THEOREM TicksForward == Spec => Forward
<1>1. InvClock /\ [Next]_clockVars => InvClock'
  BY NextInvClock, WidthAssumption
<1>2. InvClock /\ [Next]_clockVars
        => [turn' # turn /\ Fits =>
              \/ published' > published
              \/ mSimTimeStep = 0 /\ published' = published]_clockVars
  BY NextInvClock, WidthAssumption DEF Tick
<1>3. Init => InvClock
  BY InitInvClock, WidthAssumption
<1> QED
  BY <1>1, <1>2, <1>3, PTL DEF Spec, Forward

=============================================================================
