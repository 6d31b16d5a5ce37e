----------------------- MODULE SimulationSystem_proofs -----------------------
(***************************************************************************)
(* Proofs about SimulationSystem for every set of models and every clock.  *)
(***************************************************************************)
EXTENDS SimulationSystem, FiniteSetTheorems, SequenceTheorems, TLAPS

(* A remainder is a natural number, and no greater than the number.        *)
LEMMA RemainderType ==
  ASSUME NEW b \in Nat \ {0}, NEW n \in Nat
  PROVE  n % b \in Nat /\ n % b <= n
<1> DEFINE q == n \div b
           r == n % b
<1>1. q \in Int /\ r \in 0 .. b - 1 /\ n = b * q + r
  OBVIOUS
<1>2. q < 0 => b * q <= -b
  BY <1>1
<1>3. b * q >= 0
  BY <1>1, <1>2
<1> QED
  BY <1>1, <1>3

USE BusAssumption, ClockAssumption, PeersAssumption
DEF modes, AtSavepoint, Unbound

-----------------------------------------------------------------------------
(* Types                                                                   *)

(* Publishing an event leaves sequences of events in the queues.           *)
LEMMA PublishType ==
  ASSUME BusTypeOK, NEW ev \in Event, Publish(ev)
  PROVE  inbox' \in [Models -> Seq(Event)]
BY DEF BusTypeOK, Publish

(* The times to resume at are natural numbers.                             *)
LEMMA LoadedType == LoadedTimes \subseteq Nat
BY DEF LoadedTimes

(* A clock of whatever width shows a natural number, and no later time.    *)
LEMMA ClockType ==
  ASSUME NEW m \in Models, NEW t \in Nat
  PROVE  Clock(m, t) \in Nat /\ Clock(m, t) <= t
<1>1. Word \in Nat \ {0}
  OBVIOUS
<1> QED
  BY <1>1, RemainderType DEF Clock

(* What a model publishes carries a natural number, and no later time.     *)
LEMMA StampsType ==
  ASSUME NEW m \in Models, NEW t \in Nat
  PROVE  \A u \in Stamps(m, t) : u \in Nat /\ u <= t
BY ClockType DEF Stamps

(* Receiving an event leaves sequences of events in the queues, and moves  *)
(* the model's clock to a natural number.                                  *)
LEMMA ReceiveType ==
  ASSUME BusTypeOK, ModelTypeOK, NEW m \in Models, NEW name, Receive(m, name)
  PROVE  /\ Head(inbox[m]) \in Event
         /\ inbox' \in [Models -> Seq(Event)]
         /\ simTime' \in [Models -> Nat]
         /\ handled' \in [Models -> Nat]
         /\ stamps' \subseteq Nat
<1>1. inbox[m] \in Seq(Event) /\ inbox[m] # <<>>
  BY DEF BusTypeOK, Receive
<1>2. Head(inbox[m]) \in Event /\ Tail(inbox[m]) \in Seq(Event)
  BY <1>1
<1>3. Head(inbox[m]).timestamp \in Nat
  BY <1>2 DEF Event
<1>4. Clock(m, Head(inbox[m]).timestamp) \in Nat
        /\ Stamps(m, Head(inbox[m]).timestamp) \subseteq Nat
  BY <1>3, ClockType, StampsType
<1> QED
  BY <1>2, <1>3, <1>4 DEF BusTypeOK, ModelTypeOK, Receive

(* Every step of the simulation model keeps the types.                     *)
LEMMA SimStepType == TypeOK /\ SimProcess => TypeOK'
<1> SUFFICES ASSUME TypeOK, SimStep, UNCHANGED <<modelVars, simDied>>
             PROVE  TypeOK'
  BY DEF SimProcess
<1> USE DEF TypeOK, SimTypeOK, ModelTypeOK, modelVars
<1>1. CASE PrepareDone
  BY <1>1 DEF PrepareDone, SyncResults, BusTypeOK, busVars, SimPcs, Barriers
<1>10. CASE PrepareFails
  BY <1>10 DEF PrepareFails, BusTypeOK, busVars, SimPcs
<1>11. CASE GiveUp
  BY <1>11 DEF GiveUp, BusTypeOK, busVars, SimPcs, Over
<1>12. CASE InvalidOption
  BY <1>12 DEF InvalidOption, BusTypeOK, busVars, SimPcs, Over
<1>2. CASE LoadState
  <2>1. mCurrentSimTime' \in Nat
    BY <1>2, LoadedType DEF LoadState
  <2>2. [name |-> "LoadState", timestamp |-> mCurrentSimTime'] \in Event
    BY <2>1 DEF Event, StateTopics
  <2>3. inbox' \in [Models -> Seq(Event)]
    BY <1>2, <2>2, PublishType DEF LoadState
  <2> QED
    BY <1>2, <2>1, <2>3 DEF LoadState, BusTypeOK, SimPcs, Barriers
<1>3. CASE LoadStateDone
  BY <1>3 DEF LoadStateDone, SyncResults, BusTypeOK, busVars, SimPcs, Barriers
<1>4. CASE SaveState
  <2>1. [name |-> "SaveState", timestamp |-> mCurrentSimTime] \in Event
    BY DEF Event, StateTopics
  <2>2. inbox' \in [Models -> Seq(Event)]
    BY <1>4, <2>1, PublishType DEF SaveState
  <2> QED
    BY <1>4, <2>2 DEF SaveState, BusTypeOK, SimPcs, Barriers
<1>5. CASE SaveStateDone
  BY <1>5 DEF SaveStateDone, SyncResults, BusTypeOK, busVars, SimPcs, Barriers
<1>6. CASE PublishTick
  <2>1. [name |-> "SimTimeChanged", timestamp |-> mCurrentSimTime] \in Event
    BY DEF Event, ClockTopics
  <2>2. inbox' \in [Models -> Seq(Event)]
    BY <1>6, <2>1, PublishType DEF PublishTick
  <2> QED
    BY <1>6, <2>2 DEF PublishTick, BusTypeOK, SimPcs, Barriers
<1>7. CASE CheckInterrupt
  BY <1>7 DEF CheckInterrupt, BusTypeOK, busVars, SimPcs, Barriers
<1>8. CASE LoopExit
  BY <1>8 DEF LoopExit, BusTypeOK, busVars, SimPcs, Barriers
<1>9. CASE StopSim
  <2>1. [name |-> "End", timestamp |-> mCurrentSimTime] \in Event
    BY DEF Event, ClockTopics
  <2>2. inbox' \in [Models -> Seq(Event)]
    BY <1>9, <2>1, PublishType DEF StopSim
  <2> QED
    BY <1>9, <2>2 DEF StopSim, BusTypeOK, SimPcs, Over
<1> QED
  BY <1>1, <1>2, <1>3, <1>4, <1>5, <1>6, <1>7, <1>8, <1>9, <1>10, <1>11, <1>12
  DEF SimStep

(* The requests whose archive has thrown.                                  *)
LEMMA FailedType ==
  ASSUME BusTypeOK, ModelTypeOK, NEW m \in Models, NEW name \in StateTopics,
         Receive(m, name), UNCHANGED failed \/ ArchiveThrows(m)
  PROVE  failed' \subseteq Models \X StateTopics \X Nat
<1>1. Head(inbox[m]).name = name /\ Head(inbox[m]).timestamp \in Nat
  BY ReceiveType DEF Receive, Event
<1> QED
  BY <1>1 DEF ArchiveThrows, ModelTypeOK

(* Every step of a model keeps the types.                                  *)
LEMMA ModelStepType ==
  ASSUME TypeOK, NEW m \in Models, ModelProcess(m) \/ ModelSignal(m)
  PROVE  TypeOK'
<1> USE DEF TypeOK, SimTypeOK, ModelTypeOK, BusTypeOK, ModelPcs, Barriers
<1>0. UNCHANGED simDied
  BY DEF ModelProcess, ModelSignal
<1>1. CASE Prepare(m)
  BY <1>0, <1>1 DEF Prepare, simVars
<1>2. CASE SubscriptionArrives(m)
  BY <1>0, <1>2 DEF SubscriptionArrives, simVars, modelVars
<1>3. CASE Sync(m)
  BY <1>0, <1>3 DEF Sync, busVars
<1>4. CASE HandleTick(m)
  BY <1>0, <1>4, ReceiveType DEF HandleTick, simVars
<1>5. CASE HandleLoadState(m)
  <2>1. failed' \subseteq Models \X StateTopics \X Nat
    BY <1>5, FailedType DEF HandleLoadState, StateTopics
  <2> QED
    BY <1>0, <1>5, <2>1, ReceiveType DEF HandleLoadState, simVars
<1>6. CASE HandleSaveState(m)
  <2>1. Head(inbox[m]).timestamp \in Nat
    BY <1>6, ReceiveType DEF HandleSaveState, Event
  <2>2. failed' \subseteq Models \X StateTopics \X Nat
    BY <1>6, FailedType DEF HandleSaveState, StateTopics
  <2> QED
    BY <1>0, <1>6, <2>1, <2>2, ReceiveType DEF HandleSaveState, simVars
<1>7. CASE HandleEnd(m)
  BY <1>0, <1>7, ReceiveType DEF HandleEnd, simVars
<1>8. CASE ModelSignal(m)
  BY <1>0, <1>8 DEF ModelSignal, InterruptModel, simVars, busVars
<1>9. CASE HandleOther(m)
  <2>1. PICK t \in stamps : simTime' = [simTime EXCEPT ![m] = Clock(m, t)]
    BY <1>9 DEF HandleOther
  <2>2. Clock(m, t) \in Nat
    BY ClockType
  <2>3. simTime' \in [Models -> Nat]
    BY <2>1, <2>2
  <2> QED
    BY <1>0, <1>9, <2>3 DEF HandleOther, simVars, busVars
<1> QED
  BY <1>1, <1>2, <1>3, <1>4, <1>5, <1>6, <1>7, <1>8, <1>9
  DEF ModelProcess, Waits, HandleEvent

(* Every step of the system keeps the types.                               *)
LEMMA NextType == TypeOK /\ [Next]_vars => TypeOK'
<1> SUFFICES ASSUME TypeOK, [Next]_vars PROVE TypeOK'
  OBVIOUS
<1>1. CASE SimProcess
  BY <1>1, SimStepType
<1>2. CASE ServerProcess
  BY <1>2 DEF ServerProcess, ServerStop, TypeOK, SimTypeOK, BusTypeOK,
              ModelTypeOK, busVars, modelVars
<1>3. CASE Signal \/ SimDies
  BY <1>3 DEF Signal, Interrupt, SimDies, TypeOK, SimTypeOK, BusTypeOK, ModelTypeOK,
              busVars, modelVars
<1>4. CASE \E m \in Models : ModelProcess(m) \/ ModelSignal(m)
  BY <1>4, ModelStepType
<1>5. CASE UNCHANGED vars
  BY <1>5 DEF vars, simVars, busVars, modelVars, TypeOK, SimTypeOK, BusTypeOK,
              ModelTypeOK
<1> QED
  BY <1>1, <1>2, <1>3, <1>4, <1>5 DEF Next

(* The initial states have the types.                                      *)
LEMMA InitType == Init => TypeOK
<1> SUFFICES ASSUME Init PROVE TypeOK
  OBVIOUS
<1>1. SimTypeOK
  BY DEF Init, SimInit, SimTypeOK, SimPcs, Barriers
<1>2. BusTypeOK
  BY DEF Init, BusInit, BusTypeOK
<1>3. ModelTypeOK
  BY DEF Init, ModelInit, ModelTypeOK, ModelPcs
<1> QED
  BY <1>1, <1>2, <1>3 DEF TypeOK, Init

(* The type invariant of the simulation system, whatever may fail.         *)
THEOREM TypeCorrect == Spec => []TypeOK
BY InitType, NextType, PTL DEF Spec

-----------------------------------------------------------------------------
(* Counting                                                                *)

(* The models that are done with a round are finitely many.                *)
LEMMA DoneIsFinite ==
  TypeOK => /\ Done \subseteq Models
            /\ IsFiniteSet(Done)
            /\ Cardinality(Done) \in Nat
<1> SUFFICES ASSUME TypeOK
             PROVE  Done \subseteq Models /\ IsFiniteSet(Done)
                      /\ Cardinality(Done) \in Nat
  OBVIOUS
<1>1. Done \subseteq Models
  BY DEF Done, Prepared
<1>2. IsFiniteSet(Models)
  OBVIOUS
<1>3. IsFiniteSet(Done)
  BY <1>1, <1>2, FS_Subset
<1> QED
  BY <1>1, <1>3, FS_CardinalityType

(* When no barrier is open nothing has been counted.                       *)
LEMMA NothingCounted ==
  ASSUME TypeOK, CountedAreDone, simPc \notin Barriers
  PROVE  syncCount = 0
<1>1. Done = {}
  BY DEF Done, Barriers
<1> QED
  BY <1>1, FS_EmptySet DEF CountedAreDone, TypeOK, SimTypeOK

(* A barrier that has counted all it expects is one for which all the      *)
(* models it is about are done: the counting is as good as knowing names.  *)
LEMMA FullCount ==
  ASSUME TypeOK, CountedAreDone, simPc \in Barriers, syncCount = Expected
  PROVE  Done = IF simPc = "prepSync" THEN Models ELSE Persist
<1>1. IsFiniteSet(Models) /\ IsFiniteSet(Persist)
  BY FS_Subset
<1>2. Cardinality(Models) \in Nat /\ Cardinality(Persist) \in Nat
  BY <1>1, FS_CardinalityType
<1>3. IsFiniteSet(Done) /\ Cardinality(Done) \in Nat
  BY DoneIsFinite
<1>4. CASE simPc = "prepSync"
  <2>1. Done \subseteq Models
    BY <1>4 DEF Done, Prepared
  <2>2. Cardinality(Models) <= Cardinality(Done)
    BY <1>2, <1>4 DEF CountedAreDone, Expected, mTotalNumOfModels
  <2>3. Cardinality(Models) = Cardinality(Done)
    BY <1>1, <1>2, <1>3, <2>1, <2>2, FS_Subset
  <2> QED
    BY <1>1, <1>4, <2>1, <2>3, FS_Subset
<1>5. CASE simPc # "prepSync"
  <2>1. Done \subseteq Persist
    BY <1>5 DEF Done, Barriers
  <2>2. Cardinality(Persist) <= Cardinality(Done)
    BY <1>2, <1>5 DEF CountedAreDone, Expected, mNumOfPersistModels
  <2>3. Cardinality(Persist) = Cardinality(Done)
    BY <1>1, <1>2, <1>3, <2>1, <2>2, FS_Subset
  <2> QED
    BY <1>1, <1>5, <2>1, <2>3, FS_Subset
<1> QED
  BY <1>4, <1>5

(* A step that counts nothing new keeps the count below those who are done *)
(* when nobody stops being done.                                           *)
LEMMA CountKept ==
  ASSUME TypeOK, TypeOK', CountedAreDone,
         syncCount' = syncCount, Done \subseteq Done'
  PROVE  CountedAreDone'
<1>1. (TypeOK => /\ Done \subseteq Models
                 /\ IsFiniteSet(Done)
                 /\ Cardinality(Done) \in Nat)'
  BY DoneIsFinite, PTL
<1>2. IsFiniteSet(Done') /\ Cardinality(Done)' \in Nat
  BY <1>1
<1>3. Cardinality(Done) <= Cardinality(Done')
  BY <1>2, FS_Subset
<1>4. Cardinality(Done) \in Nat
  BY DoneIsFinite
<1> QED
  BY <1>2, <1>3, <1>4 DEF CountedAreDone, TypeOK, SimTypeOK

(* A step that leaves the count at zero keeps it below those who are done. *)
LEMMA CountReset ==
  ASSUME TypeOK', syncCount' = 0
  PROVE  CountedAreDone'
<1>1. (TypeOK => /\ Done \subseteq Models
                 /\ IsFiniteSet(Done)
                 /\ Cardinality(Done) \in Nat)'
  BY DoneIsFinite, PTL
<1> QED
  BY <1>1 DEF CountedAreDone

-----------------------------------------------------------------------------
(* Queues                                                                  *)

(* The events in the queues after one was published.                       *)
LEMMA PublishedEvents ==
  ASSUME BusTypeOK, NEW ev \in Event, Publish(ev),
         NEW m \in Models, NEW i \in DOMAIN inbox'[m]
  PROVE  \/ i \in DOMAIN inbox[m] /\ inbox'[m][i] = inbox[m][i]
         \/ /\ i = Len(inbox[m]) + 1
            /\ inbox'[m][i] = ev
            /\ ev.name \in Topics(m)
<1>1. inbox[m] \in Seq(Event)
  BY DEF BusTypeOK
<1>2. CASE Delivers(m, ev)
  <2>1. inbox'[m] = Append(inbox[m], ev)
    BY <1>2 DEF Publish
  <2>2. ev.name \in Topics(m)
    BY <1>2 DEF Delivers
  <2> QED
    BY <1>1, <2>1, <2>2
<1>3. CASE ~Delivers(m, ev)
  BY <1>3 DEF Publish
<1> QED
  BY <1>2, <1>3

(* What is left of a queue when its head is taken.                         *)
LEMMA TailAt ==
  ASSUME NEW S, NEW q \in Seq(S), q # <<>>, NEW i \in DOMAIN Tail(q)
  PROVE  i + 1 \in DOMAIN q /\ Tail(q)[i] = q[i + 1]
<1>1. Len(q) \in Nat /\ DOMAIN q = 1 .. Len(q)
  OBVIOUS
<1>2. /\ Tail(q) \in Seq(S)
      /\ Len(Tail(q)) = Len(q) - 1
      /\ \A j \in 1 .. Len(Tail(q)) : Tail(q)[j] = q[j + 1]
  BY HeadTailProperties
<1>3. i \in 1 .. (Len(q) - 1)
  BY <1>1, <1>2
<1> QED
  BY <1>1, <1>2, <1>3

(* The events in the queues after one was received.                        *)
LEMMA ReceivedEvents ==
  ASSUME BusTypeOK, NEW n \in Models, NEW name, Receive(n, name),
         NEW m \in Models, NEW i \in DOMAIN inbox'[m]
  PROVE  \/ m # n /\ i \in DOMAIN inbox[m] /\ inbox'[m][i] = inbox[m][i]
         \/ m = n /\ i + 1 \in DOMAIN inbox[m] /\ inbox'[m][i] = inbox[m][i + 1]
<1>1. inbox[m] \in Seq(Event) /\ inbox' = [inbox EXCEPT ![n] = Tail(@)]
  BY DEF BusTypeOK, Receive
<1>2. CASE m = n
  <2>1. inbox'[m] = Tail(inbox[m]) /\ inbox[m] # <<>>
    BY <1>1, <1>2 DEF Receive, BusTypeOK
  <2> QED
    BY <1>1, <1>2, <2>1, TailAt
<1>3. CASE m # n
  BY <1>1, <1>3 DEF BusTypeOK
<1> QED
  BY <1>2, <1>3

(* Only while the simulation model waits are requests in the queues.       *)
LEMMA NothingPending ==
  ASSUME InvPending, simPc \notin {"loadSync", "saveSync"},
         NEW m \in Models, NEW i \in DOMAIN inbox[m]
  PROVE  inbox[m][i].name \notin StateTopics
BY DEF InvPending, StateTopics

-----------------------------------------------------------------------------
(* The steps of the simulation model keep the inductive invariant          *)

(* Leaving the first barrier: every model is prepared and nobody waits.    *)
LEMMA IndPrepareDone ==
  ASSUME "syncFail" \notin Faults, IInv, TypeOK',
         PrepareDone, UNCHANGED modelVars
  PROVE  IInv'
<1> USE DEF IInv, modelVars
<1>1. syncCount = Expected /\ simPc = "prepSync" /\ simPc' = "main"
  BY DEF PrepareDone, SyncResults
<1>2. Prepared = Models
  BY <1>1, FullCount DEF Barriers, Done
<1>3. RoundsMatch'
  BY <1>1, <1>2 DEF RoundsMatch, Prepared, Barriers
<1>4. CountedAreDone'
  BY CountReset DEF PrepareDone
<1>5. InvStart'
  BY <1>1 DEF InvStart, PrepareDone, busVars
<1>6. InvPrepared'
  BY <1>2 DEF InvPrepared, Prepared
<1>7. InvPending'
  BY <1>1 DEF InvPending, InvStart, PrepareDone, busVars
<1>8. InvWaiting'
  BY <1>1 DEF InvWaiting, RoundsMatch, Barriers, PrepareDone
<1>9. InvStored'
  BY <1>1 DEF InvStored, InvStart
<1>10. InvRunning'
  BY <1>1 DEF InvRunning, PrepareDone
<1> QED
  BY <1>3, <1>4, <1>5, <1>6, <1>7, <1>8, <1>9, <1>10

(* Without its sockets the simulation model counts nobody: whoever waits   *)
(* for the first barrier waits on.                                         *)
LEMMA IndPrepareFails ==
  ASSUME IInv, TypeOK', PrepareFails, UNCHANGED modelVars
  PROVE  IInv'
<1> USE DEF IInv, modelVars
<1>1. simPc = "prepSync" /\ simPc' = "unbound" /\ syncCount' = 0
  BY DEF PrepareFails
<1>2. UNCHANGED <<mPause, mConfigMode, mCurrentSimTime, server, busVars>>
  BY DEF PrepareFails
<1>3. RoundsMatch'
  BY <1>1 DEF RoundsMatch, Barriers
<1>4. CountedAreDone'
  BY <1>1, CountReset
<1>5. InvStart'
  BY <1>1, <1>2 DEF InvStart, busVars
<1>6. InvPrepared'
  BY <1>1 DEF InvPrepared
<1>7. InvPending'
  BY <1>1, <1>2 DEF InvPending, InvStart, busVars
<1>8. InvWaiting'
  BY <1>1, <1>2 DEF InvWaiting
<1>9. InvStored'
  BY <1>1, <1>2 DEF InvStored
<1>10. InvRunning'
  BY <1>1, <1>2 DEF InvRunning
<1> QED
  BY <1>3, <1>4, <1>5, <1>6, <1>7, <1>8, <1>9, <1>10

LEMMA IndGiveUp ==
  ASSUME IInv, TypeOK', GiveUp, UNCHANGED modelVars
  PROVE  IInv'
<1> USE DEF IInv, modelVars
<1>1. simPc = "unbound" /\ simPc' = "failed"
  BY DEF GiveUp
<1>2. UNCHANGED <<modes, mCurrentSimTime, syncCount, busVars>>
  BY DEF GiveUp
<1>3. RoundsMatch'
  BY <1>1 DEF RoundsMatch, Barriers
<1>4. CountedAreDone'
  <2>1. syncCount = 0
    BY <1>1, NothingCounted DEF Barriers
  <2> QED
    BY <1>2, <2>1, CountReset
<1>5. InvStart'
  BY <1>1, <1>2 DEF InvStart, busVars
<1>6. InvPrepared'
  BY <1>1 DEF InvPrepared
<1>7. InvPending'
  BY <1>1, <1>2 DEF InvPending, InvStart, busVars
<1>8. InvWaiting'
  BY <1>1, <1>2 DEF InvWaiting
<1>9. InvStored'
  BY <1>1, <1>2 DEF InvStored
<1>10. InvRunning'
  BY <1>1, <1>2 DEF InvRunning
<1> QED
  BY <1>3, <1>4, <1>5, <1>6, <1>7, <1>8, <1>9, <1>10

(* With an invalid option nothing happens after the first barrier.         *)
LEMMA IndInvalidOption ==
  ASSUME IInv, TypeOK', InvalidOption, UNCHANGED modelVars
  PROVE  IInv'
<1> USE DEF IInv, modelVars
<1>1. simPc = "main" /\ simPc' = "invalid"
  BY DEF InvalidOption
<1>2. UNCHANGED <<modes, mCurrentSimTime, syncCount, server, busVars>>
  BY DEF InvalidOption
<1>3. RoundsMatch'
  BY <1>1 DEF RoundsMatch, Barriers
<1>4. CountedAreDone'
  <2>1. syncCount = 0
    BY <1>1, NothingCounted DEF Barriers
  <2> QED
    BY <1>2, <2>1, CountReset
<1>5. InvStart'
  BY <1>1 DEF InvStart
<1>6. InvPrepared'
  BY <1>1 DEF InvPrepared, Prepared
<1>7. InvPending'
  BY <1>1, <1>2 DEF InvPending, StateTopics, busVars
<1>8. InvWaiting'
  BY <1>1, <1>2 DEF InvWaiting
<1>9. InvStored'
  BY <1>1, <1>2 DEF InvStored
<1>10. InvRunning'
  BY <1>1, <1>2 DEF InvRunning
<1> QED
  BY <1>3, <1>4, <1>5, <1>6, <1>7, <1>8, <1>9, <1>10

(* Asking the models to load their state.                                  *)
LEMMA IndLoadState ==
  ASSUME IInv, TypeOK', LoadState, UNCHANGED modelVars
  PROVE  IInv'
<1> USE DEF IInv, modelVars
<1> DEFINE ev == [name |-> "LoadState", timestamp |-> mCurrentSimTime']
<1>1. simPc = "main" /\ ~mConfigMode /\ simPc' = "loadSync"
  BY DEF LoadState
<1>2. ev \in Event /\ Publish(ev)
  BY DEF LoadState, Event, StateTopics, TypeOK, SimTypeOK
<1>3. RoundsMatch'
  BY <1>1 DEF RoundsMatch, Barriers
<1>4. CountedAreDone'
  <2>1. syncCount = 0
    BY <1>1, NothingCounted DEF Barriers
  <2> QED
    BY <2>1, CountReset DEF LoadState
<1>5. InvStart'
  BY <1>1 DEF InvStart
<1>6. InvPrepared'
  BY <1>1 DEF InvPrepared, Prepared
<1>7. InvPending'
  <2> SUFFICES ASSUME NEW m \in Models, NEW i \in DOMAIN inbox'[m],
                      inbox'[m][i].name \in StateTopics
               PROVE  /\ m \in Persist
                      /\ \A j \in DOMAIN inbox'[m] :
                           inbox'[m][j].name \in StateTopics => j = i
                      /\ inbox'[m][i].name = "LoadState"
                      /\ ~initialised[m]
    BY <1>1 DEF InvPending
  <2>1. ASSUME NEW j \in DOMAIN inbox'[m], inbox'[m][j].name \in StateTopics
        PROVE  /\ j = Len(inbox[m]) + 1
               /\ inbox'[m][j] = ev
               /\ ev.name \in Topics(m)
    BY <1>1, <1>2, <2>1, PublishedEvents, NothingPending DEF TypeOK
  <2>2. m \in Persist
    BY <2>1 DEF Topics, ClockTopics
  <2> QED
    BY <1>1, <2>1, <2>2 DEF InvStart
<1>8. InvWaiting'
  BY <1>1 DEF InvWaiting, RoundsMatch, Barriers
<1>9. InvStored'
  BY <1>1 DEF InvStored, InvStart
<1>10. InvRunning'
  BY <1>1 DEF InvRunning, LoadState
<1> QED
  BY <1>3, <1>4, <1>5, <1>6, <1>7, <1>8, <1>9, <1>10

(* Leaving the second barrier: every persistent model is initialised.      *)
LEMMA IndLoadStateDone ==
  ASSUME "syncFail" \notin Faults, IInv, TypeOK',
         LoadStateDone, UNCHANGED modelVars
  PROVE  IInv'
<1> USE DEF IInv, modelVars
<1>1. syncCount = Expected /\ simPc = "loadSync" /\ simPc' = "loop"
  BY DEF LoadStateDone, SyncResults
<1>2. \A m \in Persist : initialised[m] /\ pc[m] # "loadSync"
  BY <1>1, FullCount DEF Barriers, Done
<1>3. RoundsMatch'
  BY <1>1, <1>2 DEF RoundsMatch, InvWaiting, Barriers
<1>4. CountedAreDone'
  BY CountReset DEF LoadStateDone
<1>5. InvStart'
  BY <1>1 DEF InvStart
<1>6. InvPrepared'
  BY <1>1 DEF InvPrepared, Prepared
<1>7. InvPending'
  BY <1>1, <1>2 DEF InvPending, StateTopics, LoadStateDone, busVars
<1>8. InvWaiting'
  BY <1>1, <1>2 DEF InvWaiting, RoundsMatch, Barriers, LoadStateDone
<1>9. InvStored'
  BY <1>1 DEF InvStored, InvStart
<1>10. InvRunning'
  BY <1>1, <1>2 DEF InvRunning, LoadStateDone
<1> QED
  BY <1>3, <1>4, <1>5, <1>6, <1>7, <1>8, <1>9, <1>10

(* Asking the models to store their state: none has stored this time.      *)
LEMMA IndSaveState ==
  ASSUME IInv, TypeOK', SaveState, UNCHANGED modelVars
  PROVE  IInv'
<1> USE DEF IInv, modelVars
<1> DEFINE ev == [name |-> "SaveState", timestamp |-> mCurrentSimTime]
<1>1. /\ (simPc = "main" /\ mConfigMode) \/ (simPc = "loop" /\ ~mConfigMode)
      /\ simPc' = "saveSync"
      /\ mCurrentSimTime' = mCurrentSimTime
  BY DEF SaveState, InCycle, InvRunning
<1>2. ev \in Event /\ Publish(ev)
  BY DEF SaveState, Event, StateTopics, TypeOK, SimTypeOK
<1>3. RoundsMatch'
  BY <1>1 DEF RoundsMatch, Barriers
<1>4. CountedAreDone'
  <2>1. syncCount = 0
    BY <1>1, NothingCounted DEF Barriers
  <2> QED
    BY <2>1, CountReset DEF SaveState
<1>5. InvStart'
  BY <1>1 DEF InvStart
<1>6. InvPrepared'
  BY <1>1 DEF InvPrepared, Prepared
<1>7. InvPending'
  <2> SUFFICES ASSUME NEW m \in Models, NEW i \in DOMAIN inbox'[m],
                      inbox'[m][i].name \in StateTopics
               PROVE  /\ m \in Persist
                      /\ \A j \in DOMAIN inbox'[m] :
                           inbox'[m][j].name \in StateTopics => j = i
                      /\ inbox'[m][i].name = "SaveState"
                      /\ inbox'[m][i].timestamp = mCurrentSimTime
                      /\ mCurrentSimTime \notin saved[m]
    BY <1>1 DEF InvPending
  <2>1. ASSUME NEW j \in DOMAIN inbox'[m], inbox'[m][j].name \in StateTopics
        PROVE  /\ j = Len(inbox[m]) + 1
               /\ inbox'[m][j] = ev
               /\ ev.name \in Topics(m)
    BY <1>1, <1>2, <2>1, PublishedEvents, NothingPending DEF TypeOK
  <2>2. m \in Persist
    BY <2>1 DEF Topics, ClockTopics
  <2>3. mCurrentSimTime \notin saved[m]
    BY <1>1 DEF InvStart, InvStored, TypeOK, SimTypeOK
  <2> QED
    BY <2>1, <2>2, <2>3
<1>8. InvWaiting'
  BY <1>1 DEF InvWaiting, RoundsMatch, Barriers
<1>9. InvStored'
  BY <1>1 DEF InvStored
<1>10. InvRunning'
  BY <1>1 DEF InvRunning, SaveState
<1> QED
  BY <1>3, <1>4, <1>5, <1>6, <1>7, <1>8, <1>9, <1>10

(* Leaving the barrier of a savepoint: every persistent model has stored.  *)
LEMMA IndSaveStateDone ==
  ASSUME "syncFail" \notin Faults, IInv, TypeOK',
         SaveStateDone, UNCHANGED modelVars
  PROVE  IInv'
<1> USE DEF IInv, modelVars
<1>1. /\ syncCount = Expected
      /\ simPc = "saveSync"
      /\ simPc' = IF mConfigMode THEN "stop" ELSE "tick"
      /\ mCurrentSimTime' = mCurrentSimTime
  BY DEF SaveStateDone, SyncResults
<1>2. \A m \in Persist : mCurrentSimTime \in saved[m] /\ pc[m] # "saveSync"
  BY <1>1, FullCount DEF Barriers, Done
<1>3. RoundsMatch'
  BY <1>1, <1>2 DEF RoundsMatch, InvWaiting, Barriers
<1>4. CountedAreDone'
  BY CountReset DEF SaveStateDone
<1>5. InvStart'
  BY <1>1 DEF InvStart
<1>6. InvPrepared'
  BY <1>1 DEF InvPrepared, Prepared
<1>7. InvPending'
  BY <1>1, <1>2 DEF InvPending, StateTopics, SaveStateDone, busVars
<1>8. InvWaiting'
  BY <1>1, <1>2 DEF InvWaiting, RoundsMatch, Barriers
<1>9. InvStored'
  BY <1>1 DEF InvStored
<1>10. InvRunning'
  BY <1>1, <1>2 DEF InvRunning, SaveStateDone
<1> QED
  BY <1>3, <1>4, <1>5, <1>6, <1>7, <1>8, <1>9, <1>10

(* Publishing an event of the clock leaves the requests as they are.       *)
LEMMA ClockEventPending ==
  ASSUME IInv, simPc \notin {"loadSync", "saveSync"}, UNCHANGED modelVars,
         NEW ev \in Event, ev.name \in ClockTopics, Publish(ev)
  PROVE  InvPending'
<1>1. ASSUME NEW m \in Models, NEW i \in DOMAIN inbox'[m]
      PROVE  inbox'[m][i].name \notin StateTopics
  BY <1>1, PublishedEvents, NothingPending
  DEF IInv, TypeOK, ClockTopics, StateTopics
<1> QED
  BY <1>1 DEF InvPending

(* A tick moves the clock beyond every stored time.                        *)
LEMMA IndPublishTick ==
  ASSUME IInv, TypeOK', PublishTick, UNCHANGED modelVars
  PROVE  IInv'
<1> USE DEF IInv, modelVars
<1> DEFINE ev == [name |-> "SimTimeChanged", timestamp |-> mCurrentSimTime]
<1>1. /\ simPc \in {"tick", "loop"}
      /\ simPc' = "check"
      /\ mCurrentSimTime' = mCurrentSimTime + SimTimeStep
      /\ mCurrentSimTime \in Nat
  BY DEF PublishTick, InCycle, TypeOK, SimTypeOK
<1>2. ev \in Event /\ Publish(ev) /\ ev.name \in ClockTopics
  BY <1>1 DEF PublishTick, Event, ClockTopics
<1>3. RoundsMatch'
  BY <1>1 DEF RoundsMatch, Barriers
<1>4. CountedAreDone'
  <2>1. syncCount = 0
    BY <1>1, NothingCounted DEF Barriers
  <2> QED
    BY <2>1, CountReset DEF PublishTick
<1>5. InvStart'
  BY <1>1 DEF InvStart
<1>6. InvPrepared'
  BY <1>1 DEF InvPrepared, Prepared
<1>7. InvPending'
  BY <1>1, <1>2, ClockEventPending
<1>8. InvWaiting'
  BY <1>1 DEF InvWaiting, RoundsMatch, Barriers
<1>9. InvStored'
  <2> SUFFICES ASSUME NEW m \in Models, NEW t \in saved[m]
               PROVE  t < mCurrentSimTime'
    BY <1>1 DEF InvStored, TypeOK, ModelTypeOK, SimTypeOK
  <2>1. t \in Nat /\ t <= mCurrentSimTime
    BY DEF InvStored, TypeOK, ModelTypeOK
  <2> QED
    BY <1>1, <2>1
<1>10. InvRunning'
  BY <1>1 DEF InvRunning, PublishTick
<1> QED
  BY <1>3, <1>4, <1>5, <1>6, <1>7, <1>8, <1>9, <1>10

(* The other steps of run() publish nothing, or End.                       *)
LEMMA IndCheckInterrupt ==
  ASSUME IInv, TypeOK', CheckInterrupt \/ LoopExit, UNCHANGED modelVars
  PROVE  IInv'
<1> USE DEF IInv, modelVars, CheckInterrupt, LoopExit
<1>1. simPc \in {"check", "loop"} /\ simPc' \in {"stop", "loop"}
  OBVIOUS
<1>2. simPc' = "loop" => simPc = "check"
  OBVIOUS
<1>3. RoundsMatch'
  BY <1>1 DEF RoundsMatch, Barriers
<1>4. CountedAreDone'
  <2>1. syncCount = 0
    BY <1>1, NothingCounted DEF Barriers
  <2> QED
    BY <2>1, CountReset
<1>5. InvStart'
  BY <1>1 DEF InvStart
<1>6. InvPrepared'
  BY <1>1 DEF InvPrepared, Prepared
<1>7. InvPending'
  BY <1>1 DEF InvPending, StateTopics, busVars
<1>8. InvWaiting'
  BY <1>1 DEF InvWaiting, RoundsMatch, Barriers
<1>9. InvStored'
  BY <1>1, <1>2 DEF InvStored
<1>10. InvRunning'
  BY <1>1, <1>2 DEF InvRunning
<1> QED
  BY <1>3, <1>4, <1>5, <1>6, <1>7, <1>8, <1>9, <1>10

LEMMA IndStopSim ==
  ASSUME IInv, TypeOK', StopSim, UNCHANGED modelVars
  PROVE  IInv'
<1> USE DEF IInv, modelVars
<1> DEFINE ev == [name |-> "End", timestamp |-> mCurrentSimTime]
<1>1. simPc = "stop" /\ simPc' = "done" /\ mCurrentSimTime' = mCurrentSimTime
  BY DEF StopSim
<1>2. ev \in Event /\ Publish(ev) /\ ev.name \in ClockTopics
  BY DEF StopSim, Event, ClockTopics, TypeOK, SimTypeOK
<1>3. RoundsMatch'
  BY <1>1 DEF RoundsMatch, Barriers
<1>4. CountedAreDone'
  <2>1. syncCount = 0
    BY <1>1, NothingCounted DEF Barriers
  <2> QED
    BY <2>1, CountReset DEF StopSim
<1>5. InvStart'
  BY <1>1 DEF InvStart
<1>6. InvPrepared'
  BY <1>1 DEF InvPrepared, Prepared
<1>7. InvPending'
  BY <1>1, <1>2, ClockEventPending
<1>8. InvWaiting'
  BY <1>1 DEF InvWaiting, RoundsMatch, Barriers
<1>9. InvStored'
  BY <1>1 DEF InvStored
<1>10. InvRunning'
  BY <1>1 DEF InvRunning, StopSim
<1> QED
  BY <1>3, <1>4, <1>5, <1>6, <1>7, <1>8, <1>9, <1>10

-----------------------------------------------------------------------------
(* The steps of the models keep the inductive invariant                    *)

(* A model in prepare() still misses from the first barrier.               *)
LEMMA IndPrepare ==
  ASSUME IInv, TypeOK', NEW m \in Models, Prepare(m)
  PROVE  IInv'
<1> USE DEF IInv, simVars, Prepare
<1>1. /\ pc[m] = "prepare"
      /\ simPc \in Unbound \union {"prepSync"}
      /\ \A n \in Models \ {m} : pc'[n] = pc[n]
      /\ pc'[m] \in {"prepSync", "aborted"}
  BY DEF InvPrepared, Prepared, TypeOK, ModelTypeOK
<1>2. Prepared' = Prepared
  BY <1>1 DEF Prepared
<1>3. RoundsMatch'
  BY <1>1 DEF RoundsMatch, Barriers
<1>4. CountedAreDone'
  BY <1>1, <1>2, CountKept DEF Done
<1>5. InvStart'
  BY DEF InvStart
<1>6. InvPrepared'
  BY <1>1 DEF InvPrepared
<1>7. InvPending'
  BY <1>1 DEF InvPending, InvStart
<1>8. InvWaiting'
  BY <1>1 DEF InvWaiting
<1>9. InvStored'
  BY DEF InvStored
<1>10. InvRunning'
  BY DEF InvRunning
<1> QED
  BY <1>3, <1>4, <1>5, <1>6, <1>7, <1>8, <1>9, <1>10

(* The answered model was not yet counted among those who are done.        *)
LEMMA IndSync ==
  ASSUME IInv, TypeOK', NEW m \in Models, Sync(m)
  PROVE  IInv'
<1> USE DEF IInv, busVars, Sync
<1>1. /\ pc[m] \in Barriers
      /\ pc[m] = simPc
      /\ pc' = [pc EXCEPT ![m] = "run"]
      /\ simPc' = simPc
  BY DEF RoundsMatch, Barriers
<1>2. \A n \in Models : pc'[n] = IF n = m THEN "run" ELSE pc[n]
  BY <1>1 DEF TypeOK, ModelTypeOK
<1>3. m \notin Done /\ Done' = Done \union {m}
  BY <1>1, <1>2 DEF Done, Prepared, Barriers, InvWaiting
<1>4. RoundsMatch'
  BY <1>2 DEF RoundsMatch, Barriers
<1>5. CountedAreDone'
  <2>1. IsFiniteSet(Done) /\ Cardinality(Done) \in Nat
    BY DoneIsFinite
  <2>2. Cardinality(Done)' = Cardinality(Done) + 1
    BY <1>3, <2>1, FS_AddElement
  <2> QED
    BY <2>1, <2>2 DEF CountedAreDone, TypeOK, SimTypeOK
<1>6. InvStart'
  BY DEF InvStart
<1>7. InvPrepared'
  BY <1>2 DEF InvPrepared, Prepared
<1>8. InvPending'
  BY DEF InvPending
<1>9. InvWaiting'
  BY <1>2 DEF InvWaiting
<1>10. InvStored'
  BY DEF InvStored
<1>11. InvRunning'
  BY DEF InvRunning
<1> QED
  BY <1>4, <1>5, <1>6, <1>7, <1>8, <1>9, <1>10, <1>11

(* A model that runs or waits may leave: it counts as done for ever, or,   *)
(* in prepare(), never was.                                                *)
LEMMA IndLeave ==
  ASSUME IInv, TypeOK', NEW m \in Models,
         UNCHANGED <<simVars, initialised, saved, failed>>,
         pc[m] \in Barriers \union {"run"},
         \/ UNCHANGED pc
         \/ pc' = [pc EXCEPT ![m] = IF @ = "prepSync" THEN "aborted" ELSE "exited"],
         InvStart', InvPending'
  PROVE  IInv'
<1> USE DEF IInv, simVars
<1>1. \A n \in Models :
        \/ pc'[n] = pc[n]
        \/ n = m /\ pc[n] = "prepSync" /\ pc'[n] = "aborted"
        \/ n = m /\ pc[n] \notin {"prepare", "prepSync", "aborted"} /\ pc'[n] = "exited"
  BY DEF TypeOK, ModelTypeOK, Barriers
<1>2. Prepared' = Prepared
  BY <1>1 DEF Prepared
<1>3. Done \subseteq Done'
  <2>1. CASE simPc = "prepSync"
    BY <1>2, <2>1 DEF Done
  <2>2. CASE simPc = "loadSync"
    BY <1>1, <2>2 DEF Done
  <2>3. CASE simPc = "saveSync"
    BY <1>1, <2>3 DEF Done
  <2>4. CASE simPc \notin Barriers
    BY <2>4 DEF Done, Barriers
  <2> QED
    BY <2>1, <2>2, <2>3, <2>4 DEF Barriers
<1>4. RoundsMatch'
  BY <1>1 DEF RoundsMatch, Barriers
<1>5. CountedAreDone'
  BY <1>3, CountKept
<1>6. InvPrepared'
  BY <1>2 DEF InvPrepared
<1>7. InvWaiting'
  BY <1>1 DEF InvWaiting
<1>8. InvStored'
  BY DEF InvStored
<1>9. InvRunning'
  BY DEF InvRunning
<1> QED
  BY <1>4, <1>5, <1>6, <1>7, <1>8, <1>9

(* Taking an event leaves the other requests as they are.                  *)
LEMMA EventReceived ==
  ASSUME IInv, NEW m \in Models, NEW name, Receive(m, name),
         UNCHANGED <<simVars, initialised, saved>>
  PROVE  InvStart' /\ InvPending'
<1> USE DEF IInv, simVars
<1>1. InvStart'
  BY DEF InvStart, Receive
<1>2. ASSUME NEW n \in Models, NEW i \in DOMAIN inbox'[n],
             inbox'[n][i].name \in StateTopics
      PROVE  /\ n \in Persist
             /\ \A j \in DOMAIN inbox'[n] :
                  inbox'[n][j].name \in StateTopics => j = i
             /\ inbox'[n][i].name = "LoadState"
                  => simPc = "loadSync" /\ ~initialised[n]
             /\ inbox'[n][i].name = "SaveState"
                  => /\ simPc = "saveSync"
                     /\ inbox'[n][i].timestamp = mCurrentSimTime
                     /\ mCurrentSimTime \notin saved[n]
  <2>1. inbox[n] \in Seq(Event)
    BY DEF TypeOK, BusTypeOK
  <2>2. CASE n # m
    BY <1>2, <2>2, ReceivedEvents DEF InvPending, Receive, TypeOK, BusTypeOK
  <2>3. CASE n = m
    <3>1. \A j \in DOMAIN inbox'[n] :
            j + 1 \in DOMAIN inbox[n] /\ inbox'[n][j] = inbox[n][j + 1]
      BY <2>3, ReceivedEvents DEF TypeOK
    <3>2. DOMAIN inbox'[n] \subseteq Nat
      BY <2>1, <2>3, ReceiveType DEF TypeOK, BusTypeOK
    <3> QED
      BY <1>2, <3>1, <3>2 DEF InvPending
  <2> QED
    BY <2>2, <2>3
<1>3. InvPending'
  BY <1>2 DEF InvPending
<1> QED
  BY <1>1, <1>3

(* The request at the head of a queue is the only one in it.               *)
LEMMA RequestReceived ==
  ASSUME IInv, NEW m \in Models, NEW name \in StateTopics, Receive(m, name)
  PROVE  /\ m \in Persist
         /\ name = "LoadState" => simPc = "loadSync" /\ ~initialised[m]
         /\ name = "SaveState" => /\ simPc = "saveSync"
                                  /\ Head(inbox[m]).timestamp = mCurrentSimTime
                                  /\ mCurrentSimTime \notin saved[m]
         /\ \A i \in DOMAIN inbox'[m] : inbox'[m][i].name \notin StateTopics
         /\ \A n \in Models \ {m} : inbox'[n] = inbox[n]
<1> USE DEF IInv
<1>1. /\ inbox[m] \in Seq(Event)
      /\ inbox[m] # <<>>
      /\ Head(inbox[m]) = inbox[m][1]
      /\ 1 \in DOMAIN inbox[m]
      /\ inbox[m][1].name = name
  BY DEF TypeOK, BusTypeOK, Receive
<1>2. ASSUME NEW i \in DOMAIN inbox'[m], inbox'[m][i].name \in StateTopics
      PROVE  FALSE
  <2>1. i + 1 \in DOMAIN inbox[m] /\ inbox'[m][i] = inbox[m][i + 1]
    BY ReceivedEvents DEF TypeOK
  <2>2. i + 1 = 1
    BY <1>1, <1>2, <2>1 DEF InvPending
  <2>3. i \in Nat \ {0}
    BY ReceiveType DEF TypeOK, BusTypeOK
  <2> QED
    BY <2>2, <2>3
<1>3. \A n \in Models \ {m} : inbox'[n] = inbox[n]
  BY DEF Receive, TypeOK, BusTypeOK
<1>4. pc[m] = "run"
  BY DEF Receive
<1> QED
  BY <1>1, <1>2, <1>3 DEF InvPending

(* Restoring: from now on the model waits for the barrier that is open.    *)
LEMMA IndHandleLoadState ==
  ASSUME IInv, TypeOK', NEW m \in Models, HandleLoadState(m)
  PROVE  IInv'
<1> USE DEF IInv, simVars, HandleLoadState
<1>1. /\ simPc = "loadSync" /\ m \in Persist /\ ~initialised[m]
      /\ \A i \in DOMAIN inbox'[m] : inbox'[m][i].name \notin StateTopics
      /\ \A n \in Models \ {m} : inbox'[n] = inbox[n]
  BY RequestReceived DEF StateTopics
<1>2. /\ pc'[m] = "loadSync" /\ initialised'[m]
      /\ \A n \in Models \ {m} : pc'[n] = pc[n] /\ initialised'[n] = initialised[n]
  BY DEF TypeOK, ModelTypeOK
<1>3. Done' = Done
  BY <1>1, <1>2 DEF Done
<1>4. RoundsMatch'
  BY <1>1, <1>2 DEF RoundsMatch
<1>5. CountedAreDone'
  BY <1>3, CountKept
<1>6. InvStart'
  BY <1>1 DEF InvStart
<1>7. InvPrepared'
  BY <1>2 DEF InvPrepared, Prepared
<1>8. InvPending'
  <2> SUFFICES ASSUME NEW n \in Models, NEW i \in DOMAIN inbox'[n],
                      inbox'[n][i].name \in StateTopics
               PROVE  n # m /\ inbox'[n] = inbox[n] /\ initialised'[n] = initialised[n]
    BY <1>1 DEF InvPending
  <2> QED
    BY <1>1, <1>2
<1>9. InvWaiting'
  BY <1>1, <1>2 DEF InvWaiting
<1>10. InvStored'
  BY DEF InvStored
<1>11. InvRunning'
  BY <1>1, <1>2 DEF InvRunning, ArchiveThrows
<1> QED
  BY <1>4, <1>5, <1>6, <1>7, <1>8, <1>9, <1>10, <1>11

(* Storing: from now on the model waits for the barrier that is open.      *)
LEMMA IndHandleSaveState ==
  ASSUME IInv, TypeOK', NEW m \in Models, HandleSaveState(m)
  PROVE  IInv'
<1> USE DEF IInv, simVars, HandleSaveState
<1>1. /\ simPc = "saveSync" /\ m \in Persist
      /\ Head(inbox[m]).timestamp = mCurrentSimTime
      /\ mCurrentSimTime \notin saved[m]
      /\ \A i \in DOMAIN inbox'[m] : inbox'[m][i].name \notin StateTopics
      /\ \A n \in Models \ {m} : inbox'[n] = inbox[n]
  BY RequestReceived DEF StateTopics
<1>2. \A n \in Models :
        /\ pc'[n] = IF n = m THEN "saveSync" ELSE pc[n]
        /\ saved'[n] = IF n = m THEN saved[n] \union {mCurrentSimTime}
                                 ELSE saved[n]
  BY <1>1 DEF TypeOK, ModelTypeOK
<1>3. Done' = Done
  BY <1>1, <1>2 DEF Done
<1>4. RoundsMatch'
  BY <1>1, <1>2 DEF RoundsMatch
<1>5. CountedAreDone'
  BY <1>3, CountKept
<1>6. InvStart'
  BY <1>1 DEF InvStart
<1>7. InvPrepared'
  BY <1>2 DEF InvPrepared, Prepared
<1>8. InvPending'
  <2> SUFFICES ASSUME NEW n \in Models, NEW i \in DOMAIN inbox'[n],
                      inbox'[n][i].name \in StateTopics
               PROVE  n # m /\ inbox'[n] = inbox[n] /\ saved'[n] = saved[n]
    BY <1>1 DEF InvPending
  <2> QED
    BY <1>1, <1>2
<1>9. InvWaiting'
  BY <1>1, <1>2 DEF InvWaiting
<1>10. InvStored'
  BY <1>1, <1>2 DEF InvStored, TypeOK, SimTypeOK
<1>11. InvRunning'
  BY <1>1, <1>2 DEF InvRunning, ArchiveThrows
<1> QED
  BY <1>4, <1>5, <1>6, <1>7, <1>8, <1>9, <1>10, <1>11

(* Every step of a model keeps the inductive invariant.                    *)
LEMMA ModelStepInv ==
  ASSUME IInv, NEW m \in Models, ModelProcess(m) \/ ModelSignal(m)
  PROVE  IInv'
<1>1. TypeOK'
  BY ModelStepType DEF IInv
<1>2. CASE Prepare(m)
  BY <1>1, <1>2, IndPrepare
<1>3. CASE SubscriptionArrives(m)
  BY <1>1, <1>3 DEF SubscriptionArrives, simVars, modelVars, IInv, RoundsMatch,
     CountedAreDone, Done, Prepared, InvStart, InvPrepared, InvPending,
     InvWaiting, InvStored, InvRunning
<1>4. CASE Sync(m)
  BY <1>1, <1>4, IndSync
<1>5. CASE HandleTick(m)
  <2>1. Receive(m, "SimTimeChanged") /\ "SimTimeChanged" \in ClockTopics
    BY <1>5 DEF HandleTick, ClockTopics
  <2>2. UNCHANGED <<simVars, initialised, saved, failed>>
    BY <1>5 DEF HandleTick
  <2>3. InvStart' /\ InvPending'
    BY <2>1, <2>2, EventReceived
  <2> QED
    BY <1>1, <1>5, <2>2, <2>3, IndLeave DEF HandleTick, Receive
<1>6. CASE HandleLoadState(m)
  BY <1>1, <1>6, IndHandleLoadState
<1>7. CASE HandleSaveState(m)
  BY <1>1, <1>7, IndHandleSaveState
<1>8. CASE HandleEnd(m)
  <2>1. Receive(m, "End") /\ "End" \in ClockTopics
    BY <1>8 DEF HandleEnd, ClockTopics
  <2>2. UNCHANGED <<simVars, initialised, saved, failed>>
    BY <1>8 DEF HandleEnd
  <2>3. InvStart' /\ InvPending'
    BY <2>1, <2>2, EventReceived
  <2> QED
    BY <1>1, <1>8, <2>2, <2>3, IndLeave DEF HandleEnd, Receive
<1>9. CASE ModelSignal(m)
  <2>1. InvStart' /\ InvPending'
    BY <1>9 DEF ModelSignal, InterruptModel, IInv, InvStart, InvPending, simVars, busVars
  <2> QED
    BY <1>1, <1>9, <2>1, IndLeave DEF ModelSignal, InterruptModel
<1>10. CASE HandleOther(m)
  <2>1. InvStart' /\ InvPending'
    BY <1>10 DEF HandleOther, IInv, InvStart, InvPending, simVars, busVars
  <2>2. pc' = pc \/ pc' = [pc EXCEPT ![m] = IF @ = "prepSync" THEN "aborted" ELSE "exited"]
    BY <1>10 DEF HandleOther
  <2> QED
    BY <1>1, <1>10, <2>1, <2>2, IndLeave DEF HandleOther
<1> QED
  BY <1>2, <1>3, <1>4, <1>5, <1>6, <1>7, <1>8, <1>9, <1>10
  DEF ModelProcess, Waits, HandleEvent

(* The inductive invariant holds initially ...                             *)
LEMMA InitInv == Init => IInv
<1> SUFFICES ASSUME Init PROVE IInv
  OBVIOUS
<1> USE DEF Init, SimInit, BusInit, ModelInit
<1>1. TypeOK
  BY InitType
<1>2. CountedAreDone
  <2>1. Done = {}
    BY DEF Done, Prepared
  <2> QED
    BY <2>1, FS_EmptySet DEF CountedAreDone
<1>3. RoundsMatch /\ InvStart /\ InvPrepared /\ InvPending
  BY DEF RoundsMatch, Barriers, InvStart, InvPrepared, InvPending
<1>4. InvWaiting /\ InvStored /\ InvRunning
  BY DEF InvWaiting, InvStored, InvRunning
<1> QED
  BY <1>1, <1>2, <1>3, <1>4 DEF IInv

(* ... and every step keeps it.                                            *)
LEMMA NextInv ==
  ASSUME "syncFail" \notin Faults, IInv, [Next]_vars
  PROVE  IInv'
<1>1. TypeOK'
  BY NextType DEF IInv
<1>2. CASE SimProcess
  BY <1>1, <1>2, IndPrepareDone, IndPrepareFails, IndGiveUp, IndInvalidOption,
     IndLoadState, IndLoadStateDone, IndSaveState, IndSaveStateDone, IndPublishTick, IndCheckInterrupt, IndStopSim
  DEF SimProcess, SimStep
<1>3. CASE ServerProcess
  BY <1>1, <1>3 DEF ServerProcess, ServerStop, modelVars, busVars, IInv,
     RoundsMatch, CountedAreDone, Done, Prepared, InvStart, InvPrepared,
     InvPending, InvWaiting, InvStored, InvRunning
<1>4. CASE Signal \/ SimDies
  <2>1. UNCHANGED <<simPc, modes, mCurrentSimTime, syncCount, server, busVars, modelVars>>
    BY <1>4 DEF Signal, Interrupt, SimDies
  <2>2. CountedAreDone'
    BY <2>1 DEF modelVars, IInv, CountedAreDone, Done, Prepared
  <2> QED
    BY <1>1, <2>1, <2>2 DEF modelVars, busVars, IInv, RoundsMatch, Prepared,
       InvStart, InvPrepared, InvPending, InvWaiting, InvStored, InvRunning
<1>5. CASE \E m \in Models : ModelProcess(m) \/ ModelSignal(m)
  BY <1>5, ModelStepInv
<1>6. CASE UNCHANGED vars
  BY <1>1, <1>6 DEF vars, simVars, modelVars, busVars, IInv,
     RoundsMatch, CountedAreDone, Done, Prepared, InvStart, InvPrepared,
     InvPending, InvWaiting, InvStored, InvRunning
<1> QED
  BY <1>2, <1>3, <1>4, <1>5, <1>6 DEF Next

(* The barriers of the simulation model keep the models in step.           *)
THEOREM InductiveInvariant ==
  ASSUME "syncFail" \notin Faults
  PROVE  Spec => []IInv
<1>1. IInv /\ [Next]_vars => IInv'
  BY NextInv
<1> QED
  BY <1>1, InitInv, PTL DEF Spec

-----------------------------------------------------------------------------
(* What follows from the inductive invariant                               *)

(* A model that waits waits for what the simulation model waits for.       *)
THEOREM BarriersMatch ==
  ASSUME "syncFail" \notin Faults
  PROVE  Spec => []RoundsMatch
<1>1. IInv => RoundsMatch
  BY DEF IInv
<1> QED
  BY <1>1, InductiveInvariant, PTL

(* The configuration server answers until every model is prepared; only a  *)
(* simulation model without its sockets stops it before that (stopSim).    *)
THEOREM ServerOutlives ==
  ASSUME "syncFail" \notin Faults
  PROVE  Spec => []ServerOutlivesPrepare
<1>1. IInv => ServerOutlivesPrepare
  BY DEF IInv, InvRunning, InvPrepared, ServerOutlivesPrepare
<1> QED
  BY <1>1, InductiveInvariant, PTL

(* Only a tick that is published takes the simulation model to "check".    *)
LEMMA TickedByPublish ==
  ASSUME [Next]_vars, Ticked
  PROVE  PublishTick
BY DEF Next, vars, simVars, Ticked, SimProcess, SimStep, PrepareDone, PrepareFails,
   GiveUp, InvalidOption, LoadState, LoadStateDone, SaveState, SaveStateDone, CheckInterrupt, LoopExit, StopSim,
   ServerProcess, ServerStop, Signal, Interrupt, SimDies, ModelProcess, Waits, HandleEvent,
   Prepare, SubscriptionArrives, Sync, HandleTick, HandleLoadState,
   HandleSaveState, HandleEnd, HandleOther, ModelSignal, InterruptModel

(* No tick before every persistent model has restored its state, or, if an *)
(* archive may throw, has initialised itself with what it has              *)
(* (RouterAdapter::loadState).                                             *)
THEOREM RestoreBeforeTick ==
  ASSUME "syncFail" \notin Faults
  PROVE  Spec => TickAfterRestore
<1> DEFINE A == Ticked => \A m \in Persist :
                  \/ Restored(m)
                  \/ "archive" \in Faults /\ initialised[m]
<1>1. IInv /\ [Next]_vars => [A]_vars
  <2> SUFFICES ASSUME IInv, [Next]_vars, Ticked, NEW m \in Persist
               PROVE  Restored(m) \/ ("archive" \in Faults /\ initialised[m])
    OBVIOUS
  <2>1. PublishTick
    BY TickedByPublish
  <2>2. initialised[m] /\ (failed # {} => "archive" \in Faults)
    BY <2>1 DEF PublishTick, InCycle, IInv, InvRunning
  <2> QED
    BY <2>2 DEF Restored
<1> QED
  BY <1>1, InductiveInvariant, PTL DEF Spec, TickAfterRestore

(* No tick of a savepoint before every persistent model has stored, or, if *)
(* an archive may throw, has tried to (RouterAdapter::saveState).          *)
THEOREM StoreBeforeTick ==
  ASSUME "syncFail" \notin Faults
  PROVE  Spec => TickAfterStore
<1> DEFINE A == Ticked /\ mCurrentSimTime \in Savepoints => \A m \in Persist :
                  \/ Stored(m, mCurrentSimTime)
                  \/ "archive" \in Faults /\ mCurrentSimTime \in saved[m]
<1>1. IInv /\ [Next]_vars => [A]_vars
  <2> SUFFICES ASSUME IInv, [Next]_vars, Ticked, mCurrentSimTime \in Savepoints,
                      NEW m \in Persist
               PROVE  \/ Stored(m, mCurrentSimTime)
                      \/ "archive" \in Faults /\ mCurrentSimTime \in saved[m]
    OBVIOUS
  <2>1. PublishTick
    BY TickedByPublish
  <2>2. mCurrentSimTime \in saved[m] /\ (failed # {} => "archive" \in Faults)
    BY <2>1 DEF PublishTick, InCycle, IInv, InvRunning
  <2> QED
    BY <2>2 DEF Stored
<1> QED
  BY <1>1, InductiveInvariant, PTL DEF Spec, TickAfterStore

-----------------------------------------------------------------------------
(* The refinement                                                          *)

(* The initial states of the two specifications correspond.                *)
LEMMA LockstepInit == Init => Lockstep!Init
BY DEF Init, SimInit, BusInit, ModelInit, Lockstep!Init, Phase, Prepared

(* A step of the simulation model is a step or a stutter of the lock step. *)
LEMMA LockstepSimStep ==
  ASSUME "syncFail" \notin Faults, IInv, SimStep, UNCHANGED modelVars
  PROVE  [Lockstep!Next]_(Lockstep!vars)
<1> USE DEF modelVars
<1>1. CASE PrepareDone
  <2>1. syncCount = Expected /\ simPc = "prepSync" /\ simPc' = "main"
    BY <1>1 DEF PrepareDone, SyncResults
  <2>2. Prepared = Models
    BY <2>1, FullCount DEF Barriers, Done, IInv
  <2>3. Lockstep!EndConfigure
    BY <1>1, <2>1, <2>2 DEF PrepareDone, Lockstep!EndConfigure, Phase, Prepared
  <2> QED
    BY <2>3 DEF Lockstep!Next
<1>2. CASE LoadState
  <2>1. Lockstep!BeginRestore
    BY <1>2 DEF LoadState, Lockstep!BeginRestore, Phase, Prepared
  <2> QED
    BY <2>1 DEF Lockstep!Next
<1>3. CASE LoadStateDone
  <2>1. syncCount = Expected /\ simPc = "loadSync" /\ simPc' = "loop"
    BY <1>3 DEF LoadStateDone, SyncResults
  <2>2. {m \in Persist : initialised[m]} = Persist
    BY <2>1, FullCount DEF Barriers, Done, IInv
  <2>3. Lockstep!EndRestore
    BY <1>3, <2>1, <2>2 DEF LoadStateDone, Lockstep!EndRestore, Phase, Prepared
  <2> QED
    BY <2>3 DEF Lockstep!Next
<1>4. CASE SaveState
  <2>1. CASE simPc = "main"
    <3>1. Lockstep!BeginCreate
      BY <1>4, <2>1 DEF SaveState, InCycle, Lockstep!BeginCreate, Phase, Prepared
    <3> QED
      BY <3>1 DEF Lockstep!Next
  <2>2. CASE simPc = "loop"
    BY <1>4, <2>2
    DEF SaveState, Lockstep!vars, Phase, Prepared, IInv, InvRunning
  <2> QED
    BY <1>4, <2>1, <2>2 DEF SaveState, InCycle
<1>5. CASE SaveStateDone
  <2>1. syncCount = Expected /\ simPc = "saveSync"
    BY <1>5 DEF SaveStateDone, SyncResults
  <2>2. \A m \in Persist : mCurrentSimTime \in saved[m]
    BY <2>1, FullCount DEF Barriers, Done, IInv
  <2>3. CASE mConfigMode
    <3>1. Lockstep!AllStored
      BY <2>2 DEF Lockstep!AllStored
    <3>2. Lockstep!Stop
      BY <1>5, <2>1, <2>3, <3>1
      DEF SaveStateDone, Lockstep!Stop, Phase, Prepared
    <3> QED
      BY <3>2 DEF Lockstep!Next
  <2>4. CASE ~mConfigMode
    BY <1>5, <2>1, <2>4 DEF SaveStateDone, Lockstep!vars, Phase, Prepared
  <2> QED
    BY <2>3, <2>4
<1>6. CASE PublishTick
  <2>1. /\ simPc \in {"tick", "loop"}
        /\ mCurrentSimTime \in Savepoints
             => \A m \in Persist : mCurrentSimTime \in saved[m]
    BY <1>6 DEF PublishTick, InCycle, IInv, InvRunning
  <2>2. mCurrentSimTime \in Savepoints => Lockstep!AllStored
    BY <2>1 DEF Lockstep!AllStored
  <2>3. Lockstep!Tick
    BY <1>6, <2>1, <2>2 DEF PublishTick, Lockstep!Tick, Phase, Prepared
  <2> QED
    BY <2>3 DEF Lockstep!Next
<1>7. CASE CheckInterrupt
  <2>1. CASE interruptOccured
    <3>1. Lockstep!Stop
      BY <1>7, <2>1 DEF CheckInterrupt, Lockstep!Stop, Phase, Prepared
    <3> QED
      BY <3>1 DEF Lockstep!Next
  <2>2. CASE ~interruptOccured
    BY <1>7, <2>2 DEF CheckInterrupt, Lockstep!vars, Phase, Prepared
  <2> QED
    BY <2>1, <2>2
<1>8. CASE LoopExit
  <2>1. Lockstep!Stop
    BY <1>8 DEF LoopExit, Lockstep!Stop, Phase, Prepared
  <2> QED
    BY <2>1 DEF Lockstep!Next
<1>9. CASE StopSim
  BY <1>9 DEF StopSim, Lockstep!vars, Phase, Prepared
<1>10. CASE PrepareFails
  <2>1. Lockstep!GiveUp
    BY <1>10 DEF PrepareFails, Lockstep!GiveUp, Phase, Prepared
  <2> QED
    BY <2>1 DEF Lockstep!Next
<1>11. CASE GiveUp
  BY <1>11 DEF GiveUp, Lockstep!vars, Phase, Prepared
<1>12. CASE InvalidOption
  <2>1. Lockstep!GiveUp
    BY <1>12 DEF InvalidOption, Lockstep!GiveUp, Phase, Prepared
  <2> QED
    BY <2>1 DEF Lockstep!Next
<1> QED
  BY <1>1, <1>2, <1>3, <1>4, <1>5, <1>6, <1>7, <1>8, <1>9, <1>10, <1>11, <1>12
  DEF SimStep

(* A model that leaves, or goes on, changes nothing in the lock step: ready *)
(* stays ready, and who gives up in prepare() never was.                   *)
LEMMA LockstepStays ==
  ASSUME IInv, NEW m \in Models, UNCHANGED <<simVars, initialised, saved>>,
         pc[m] \in Barriers \union {"run"},
         \/ UNCHANGED pc
         \/ pc' = [pc EXCEPT ![m] = IF @ = "prepSync" THEN "aborted" ELSE "exited"]
  PROVE  [Lockstep!Next]_(Lockstep!vars)
<1>1. Phase' = Phase
  BY DEF Phase, simVars
<1>2. Prepared' = Prepared
  BY DEF Prepared, Barriers, IInv, TypeOK, ModelTypeOK
<1> QED
  BY <1>1, <1>2 DEF Lockstep!vars, simVars

(* A step of a model is a step or a stutter of the lock step.              *)
LEMMA LockstepModelStep ==
  ASSUME IInv, NEW m \in Models, ModelProcess(m) \/ ModelSignal(m)
  PROVE  [Lockstep!Next]_(Lockstep!vars)
<1> USE DEF IInv
<1>1. CASE Prepare(m)
  <2>1. Prepared' = Prepared
    BY <1>1 DEF Prepare, Prepared, TypeOK, ModelTypeOK
  <2> QED
    BY <1>1, <2>1 DEF Prepare, simVars, Lockstep!vars, Phase
<1>2. CASE SubscriptionArrives(m)
  BY <1>2 DEF SubscriptionArrives, simVars, modelVars, Lockstep!vars, Phase, Prepared
<1>3. CASE Sync(m)
  <2>1. CASE pc[m] = "prepSync"
    <3>1. simPc = "prepSync"
      BY <1>3, <2>1 DEF Sync, RoundsMatch, Barriers
    <3>2. Prepared' = Prepared \union {m}
      BY <1>3, <2>1 DEF Sync, Prepared, TypeOK, ModelTypeOK
    <3>3. Lockstep!Configure(m)
      BY <1>3, <3>1, <3>2 DEF Sync, Lockstep!Configure, Phase
    <3> QED
      BY <3>3 DEF Lockstep!Next
  <2>2. CASE pc[m] # "prepSync"
    <3>1. Prepared' = Prepared
      BY <1>3, <2>2 DEF Sync, Prepared, Barriers, TypeOK, ModelTypeOK
    <3> QED
      BY <1>3, <3>1 DEF Sync, Lockstep!vars, Phase
  <2> QED
    BY <2>1, <2>2
<1>4. CASE HandleTick(m) \/ HandleEnd(m) \/ HandleOther(m) \/ ModelSignal(m)
  <2>1. pc[m] \in Barriers \union {"run"} /\ UNCHANGED <<simVars, initialised, saved>>
    BY <1>4 DEF HandleTick, HandleEnd, HandleOther, ModelSignal, InterruptModel, Receive
  <2>2. pc' = pc \/ pc' = [pc EXCEPT ![m] = IF @ = "prepSync" THEN "aborted" ELSE "exited"]
    BY <1>4 DEF HandleTick, HandleEnd, HandleOther, ModelSignal, InterruptModel, Receive
  <2> QED
    BY <2>1, <2>2, LockstepStays
<1>5. CASE HandleLoadState(m)
  <2>1. simPc = "loadSync" /\ m \in Persist
    BY <1>5, RequestReceived DEF HandleLoadState, StateTopics
  <2>2. Prepared' = Prepared
    BY <1>5 DEF HandleLoadState, Receive, Prepared, TypeOK, ModelTypeOK
  <2>3. {n \in Persist : initialised'[n]} = {n \in Persist : initialised[n]} \union {m}
    BY <1>5, <2>1 DEF HandleLoadState, TypeOK, ModelTypeOK
  <2>4. Lockstep!Restore(m)
    BY <1>5, <2>1, <2>2, <2>3
    DEF HandleLoadState, Lockstep!Restore, Phase, simVars
  <2> QED
    BY <2>1, <2>4 DEF Lockstep!Next
<1>6. CASE HandleSaveState(m)
  <2>1. /\ simPc = "saveSync" /\ m \in Persist
        /\ Head(inbox[m]).timestamp = mCurrentSimTime
        /\ mCurrentSimTime \notin saved[m]
    BY <1>6, RequestReceived DEF HandleSaveState, StateTopics
  <2>2. Prepared' = Prepared
    BY <1>6 DEF HandleSaveState, Receive, Prepared, TypeOK, ModelTypeOK
  <2>3. [n \in Persist |-> saved'[n]]
          = [[n \in Persist |-> saved[n]]
               EXCEPT ![m] = @ \union {mCurrentSimTime}]
    BY <1>6, <2>1 DEF HandleSaveState, TypeOK, ModelTypeOK
  <2>4. Phase = "create" \/ (Phase = "run" /\ mCurrentSimTime \in Savepoints)
    BY <2>1 DEF Phase, InvRunning
  <2>5. Lockstep!Store(m)
    BY <1>6, <2>1, <2>2, <2>3, <2>4
    DEF HandleSaveState, Lockstep!Store, Phase, simVars
  <2> QED
    BY <2>1, <2>5 DEF Lockstep!Next
<1> QED
  BY <1>1, <1>2, <1>3, <1>4, <1>5, <1>6 DEF ModelProcess, Waits, HandleEvent

(* The system of counting barriers and publish/subscribe, with losses and  *)
(* with models that leave early, implements the lock step.                 *)
THEOREM Refinement ==
  ASSUME "syncFail" \notin Faults
  PROVE  Spec => LockstepSpec
<1>1. IInv /\ [Next]_vars => [Lockstep!Next]_(Lockstep!vars)
  <2> SUFFICES ASSUME IInv, [Next]_vars
               PROVE  [Lockstep!Next]_(Lockstep!vars)
    OBVIOUS
  <2>1. CASE SimProcess
    BY <2>1, LockstepSimStep DEF SimProcess
  <2>2. CASE ServerProcess \/ Signal \/ SimDies
    BY <2>2 DEF ServerProcess, ServerStop, Signal, Interrupt, SimDies, modelVars,
                Lockstep!vars, Phase, Prepared
  <2>3. CASE \E m \in Models : ModelProcess(m) \/ ModelSignal(m)
    BY <2>3, LockstepModelStep
  <2>4. CASE UNCHANGED vars
    BY <2>4 DEF vars, simVars, modelVars, Lockstep!vars, Phase, Prepared
  <2> QED
    BY <2>1, <2>2, <2>3, <2>4 DEF Next
<1> QED
  BY <1>1, LockstepInit, InductiveInvariant, PTL DEF Spec, LockstepSpec, Lockstep!Spec

-----------------------------------------------------------------------------
(* The times of the events                                                 *)

(* What an event in a queue is.                                            *)
LEMMA EventAt ==
  ASSUME NEW q \in Seq(Event), NEW i \in DOMAIN q
  PROVE  /\ q[i] \in Event /\ q[i].timestamp \in Nat
         /\ i \in 1 .. Len(q) /\ i \in Nat
<1>1. q[i] \in Event /\ i \in 1 .. Len(q)
  OBVIOUS
<1> QED
  BY <1>1 DEF Event

(* Publishing the present time keeps queues and clocks in order.           *)
LEMMA OrderPublish ==
  ASSUME TypeOK, mCurrentSimTime' \in Nat, InOrderOfTime, NEW ev \in Event, Publish(ev),
         mCurrentSimTime <= ev.timestamp, ev.timestamp <= mCurrentSimTime',
         UNCHANGED modelVars
  PROVE  InOrderOfTime'
<1>0. \A m \in Models : /\ simTime'[m] <= mCurrentSimTime'
                        /\ \A t \in stamps' : t <= mCurrentSimTime'
  <2>1. mCurrentSimTime \in Nat /\ ev.timestamp \in Nat
    BY DEF TypeOK, SimTypeOK, Event
  <2>2. mCurrentSimTime <= mCurrentSimTime'
    BY <2>1
  <2>3. simTime' = simTime /\ simTime \in [Models -> Nat] /\ stamps' = stamps
          /\ stamps \subseteq Nat
    BY DEF TypeOK, ModelTypeOK, modelVars
  <2>4. \A m \in Models : simTime[m] <= mCurrentSimTime
                           /\ \A t \in stamps : t <= mCurrentSimTime
    BY DEF InOrderOfTime
  <2> QED
    BY <2>1, <2>2, <2>3, <2>4
<1> SUFFICES ASSUME NEW m \in Models
             PROVE  /\ handled'[m] <= mCurrentSimTime'
                    /\ \A i \in DOMAIN inbox'[m] :
                         /\ handled'[m] <= inbox'[m][i].timestamp
                         /\ inbox'[m][i].timestamp <= mCurrentSimTime'
                         /\ \A j \in i .. Len(inbox'[m]) :
                              inbox'[m][i].timestamp <= inbox'[m][j].timestamp
  BY <1>0 DEF InOrderOfTime
<1> USE DEF TypeOK, SimTypeOK, ModelTypeOK, BusTypeOK, modelVars
<1>1. /\ handled' = handled /\ handled[m] \in Nat
      /\ mCurrentSimTime \in Nat
      /\ ev.timestamp \in Nat
      /\ inbox[m] \in Seq(Event)
  BY DEF Event
<1>2. \A i \in DOMAIN inbox[m] : inbox[m][i].timestamp \in Nat
  BY <1>1, EventAt
<1>3. /\ handled[m] <= mCurrentSimTime
      /\ \A i \in DOMAIN inbox[m] :
           /\ handled[m] <= inbox[m][i].timestamp
           /\ inbox[m][i].timestamp <= mCurrentSimTime
           /\ \A j \in i .. Len(inbox[m]) : inbox[m][i].timestamp <= inbox[m][j].timestamp
  BY DEF InOrderOfTime
<1>4. CASE inbox'[m] = inbox[m]
  BY <1>1, <1>2, <1>3, <1>4
<1>5. CASE inbox'[m] = Append(inbox[m], ev)
  <2>1. /\ DOMAIN inbox[m] = 1 .. Len(inbox[m]) /\ Len(inbox[m]) \in Nat
        /\ DOMAIN inbox'[m] = 1 .. Len(inbox[m]) + 1
        /\ Len(inbox'[m]) = Len(inbox[m]) + 1
        /\ inbox'[m][Len(inbox[m]) + 1] = ev
        /\ \A i \in 1 .. Len(inbox[m]) : inbox'[m][i] = inbox[m][i]
    BY <1>1, <1>5
  <2>2. \A i \in 1 .. Len(inbox[m]) :
          /\ handled[m] <= inbox[m][i].timestamp
          /\ inbox[m][i].timestamp <= mCurrentSimTime
          /\ inbox[m][i].timestamp \in Nat
    BY <1>2, <1>3, <2>1
  <2>3. handled[m] <= ev.timestamp /\ handled[m] <= mCurrentSimTime'
    BY <1>1, <1>3
  <2>4. ASSUME NEW i \in 1 .. Len(inbox[m])
        PROVE  /\ inbox'[m][i].timestamp <= mCurrentSimTime'
               /\ \A j \in i .. Len(inbox'[m]) :
                    inbox'[m][i].timestamp <= inbox'[m][j].timestamp
    <3>1. inbox'[m][i].timestamp <= ev.timestamp
      BY <1>1, <2>1, <2>2, <2>4
    <3>2. ASSUME NEW j \in i .. Len(inbox'[m])
          PROVE  inbox'[m][i].timestamp <= inbox'[m][j].timestamp
      <4>1. j = Len(inbox[m]) + 1 \/ (j \in i .. Len(inbox[m]) /\ j \in 1 .. Len(inbox[m]))
        BY <2>1, <2>4, <3>2
      <4> QED
        BY <1>3, <2>1, <2>4, <3>1, <4>1
    <3> QED
      BY <1>1, <2>1, <2>2, <2>4, <3>1, <3>2
  <2>5. ASSUME NEW i \in DOMAIN inbox'[m]
        PROVE  /\ handled'[m] <= inbox'[m][i].timestamp
               /\ inbox'[m][i].timestamp <= mCurrentSimTime'
               /\ \A j \in i .. Len(inbox'[m]) :
                    inbox'[m][i].timestamp <= inbox'[m][j].timestamp
    <3>1. CASE i \in 1 .. Len(inbox[m])
      BY <1>1, <2>1, <2>2, <2>4, <3>1
    <3>2. CASE i = Len(inbox[m]) + 1
      <4>1. \A j \in i .. Len(inbox'[m]) : j = i
        BY <2>1, <3>2
      <4> QED
        BY <1>1, <2>1, <2>3, <3>2, <4>1
    <3> QED
      BY <2>1, <2>5, <3>1, <3>2
  <2> QED
    BY <1>1, <2>3, <2>5
<1> QED
  BY <1>4, <1>5 DEF Publish

(* Receiving the first event of a queue does, too.                         *)
LEMMA OrderReceive ==
  ASSUME TypeOK, InOrderOfTime, NEW n \in Models, NEW name, Receive(n, name),
         UNCHANGED mCurrentSimTime
  PROVE  InOrderOfTime'
<1>0. \A m \in Models : /\ simTime'[m] <= mCurrentSimTime
                        /\ \A t \in stamps' : t <= mCurrentSimTime
  <2> DEFINE at == Head(inbox[n]).timestamp
  <2>1. at \in Nat /\ at <= mCurrentSimTime /\ mCurrentSimTime \in Nat
    <3>1. inbox[n] \in Seq(Event) /\ inbox[n] # <<>>
      BY DEF TypeOK, BusTypeOK, Receive
    <3>2. 1 \in DOMAIN inbox[n] /\ Head(inbox[n]) = inbox[n][1]
      BY <3>1
    <3> QED
      BY <3>1, <3>2, EventAt DEF InOrderOfTime, TypeOK, SimTypeOK
  <2>2. /\ simTime \in [Models -> Nat] /\ stamps \subseteq Nat
        /\ simTime' = [simTime EXCEPT ![n] = Clock(n, at)]
        /\ stamps' = stamps \union Stamps(n, at)
    BY DEF TypeOK, ModelTypeOK, Receive
  <2>3. /\ Clock(n, at) \in Nat /\ Clock(n, at) <= at
        /\ \A u \in Stamps(n, at) : u \in Nat /\ u <= at
    BY <2>1, ClockType, StampsType
  <2>4. \A m \in Models : simTime[m] <= mCurrentSimTime
                           /\ \A t \in stamps : t <= mCurrentSimTime
    BY DEF InOrderOfTime
  <2> HIDE DEF at
  <2> QED
    BY <2>1, <2>2, <2>3, <2>4
<1> SUFFICES ASSUME NEW m \in Models
             PROVE  /\ handled'[m] <= mCurrentSimTime
                    /\ \A i \in DOMAIN inbox'[m] :
                         /\ handled'[m] <= inbox'[m][i].timestamp
                         /\ inbox'[m][i].timestamp <= mCurrentSimTime
                         /\ \A j \in i .. Len(inbox'[m]) :
                              inbox'[m][i].timestamp <= inbox'[m][j].timestamp
  BY <1>0 DEF InOrderOfTime
<1> USE DEF TypeOK, SimTypeOK, ModelTypeOK, BusTypeOK
<1>1. inbox[m] \in Seq(Event)
  OBVIOUS
<1>2. CASE m # n
  BY <1>2 DEF Receive, InOrderOfTime
<1>3. CASE m = n
  <2>1. /\ inbox[m] # <<>> /\ Head(inbox[m]) = inbox[m][1]
        /\ inbox'[m] = Tail(inbox[m])
        /\ handled'[m] = inbox[m][1].timestamp
    BY <1>1, <1>3 DEF Receive
  <2>2. /\ Len(inbox'[m]) = Len(inbox[m]) - 1
        /\ Len(inbox[m]) \in Nat
        /\ DOMAIN inbox'[m] = 1 .. Len(inbox'[m])
        /\ \A i \in DOMAIN inbox'[m] :
             i + 1 \in DOMAIN inbox[m] /\ inbox'[m][i] = inbox[m][i + 1]
    BY <1>1, <2>1, TailAt, HeadTailProperties
  <2>3. /\ 1 \in DOMAIN inbox[m] /\ DOMAIN inbox[m] = 1 .. Len(inbox[m])
        /\ inbox[m][1].timestamp <= mCurrentSimTime
    BY <1>1, <2>1 DEF InOrderOfTime
  <2>4. ASSUME NEW i \in DOMAIN inbox'[m]
        PROVE  /\ handled'[m] <= inbox'[m][i].timestamp
               /\ inbox'[m][i].timestamp <= mCurrentSimTime
               /\ \A j \in i .. Len(inbox'[m]) :
                    inbox'[m][i].timestamp <= inbox'[m][j].timestamp
    <3> HIDE DEF TypeOK, SimTypeOK, ModelTypeOK, BusTypeOK
    <3>0. i \in 1 .. Len(inbox'[m])
      BY <2>2, <2>4
    <3>1. i + 1 \in DOMAIN inbox[m] /\ i + 1 \in 1 .. Len(inbox[m]) /\ i \in Nat /\ 1 <= i
      <4>1. i + 1 \in DOMAIN inbox[m]
        BY <2>2, <2>4
      <4>2. i + 1 \in 1 .. Len(inbox[m])
        BY <2>3, <4>1
      <4>3. i \in Nat /\ 1 <= i
        BY <3>0
      <4> QED
        BY <4>1, <4>2, <4>3
    <3>2. ASSUME NEW j \in i .. Len(inbox'[m])
          PROVE  j + 1 \in (i + 1) .. Len(inbox[m]) /\ inbox'[m][j] = inbox[m][j + 1]
      <4>1. j \in Int /\ i <= j /\ j <= Len(inbox'[m])
        BY <2>2, <3>1, <3>2
      <4>2. j \in DOMAIN inbox'[m]
        BY <2>2, <2>4, <4>1
      <4>3. inbox'[m][j] = inbox[m][j + 1]
        BY <2>2, <4>2
      <4>4. j + 1 <= Len(inbox[m]) /\ i + 1 <= j + 1
        BY <2>2, <3>1, <4>1
      <4> QED
        BY <2>2, <3>1, <4>1, <4>3, <4>4
    <3>3. /\ inbox[m][i + 1].timestamp <= mCurrentSimTime
          /\ \A j \in (i + 1) .. Len(inbox[m]) :
               inbox[m][i + 1].timestamp <= inbox[m][j].timestamp
      BY <3>1 DEF InOrderOfTime
    <3>4. inbox[m][1].timestamp <= inbox[m][i + 1].timestamp
      <4>1. i + 1 \in 1 .. Len(inbox[m])
        BY <3>1
      <4> QED
        BY <2>3, <4>1 DEF InOrderOfTime
    <3> QED
      BY <2>1, <2>2, <2>4, <3>2, <3>3, <3>4
  <2> QED
    BY <2>1, <2>3, <2>4
<1> QED
  BY <1>2, <1>3

(* A published event joins those of the queues.                            *)
LEMMA EventsPublish ==
  ASSUME TypeOK, InvEvents, NEW ev \in Event, Publish(ev), ev.timestamp \in ClockTimes,
         ev.name = "LoadState" => ev.timestamp \in LoadedTimes,
         ev.name = "SaveState" => ev.timestamp \in Savepoints \union {0}
  PROVE  InvEvents'
<1>1. ASSUME NEW m \in Models, NEW i \in DOMAIN inbox'[m]
      PROVE  \/ i \in DOMAIN inbox[m] /\ inbox'[m][i] = inbox[m][i]
             \/ inbox'[m][i] = ev
  BY <1>1, PublishedEvents DEF TypeOK
<1> QED
  BY <1>1 DEF InvEvents

(* The steps of the simulation model: nothing but LoadState moves the      *)
(* clock elsewhere than a tick forward.                                    *)
LEMMA ClockSimStep ==
  ASSUME TypeOK, TypeOK', ClockInv, SimStep, UNCHANGED modelVars
  PROVE  ClockInv'
<1> USE DEF ClockInv
<1>0. TypeOK /\ mCurrentSimTime \in Nat /\ mCurrentSimTime' \in Nat
  BY DEF TypeOK, SimTypeOK
<1>1. CASE \/ PrepareDone   \/ PrepareFails \/ GiveUp \/ InvalidOption
           \/ LoadStateDone \/ CheckInterrupt \/ LoopExit
  <2>1. UNCHANGED <<mCurrentSimTime, mConfigMode, inbox>>
    BY <1>1 DEF PrepareDone, PrepareFails, GiveUp, InvalidOption, LoadStateDone,
                CheckInterrupt, LoopExit, busVars, modes
  <2>2. InOrderOfTime' /\ InvEvents'
    BY <2>1 DEF InOrderOfTime, InvEvents, modelVars
  <2>3. InvTimes'
    BY <1>1, <2>1 DEF InvTimes, PrepareDone, PrepareFails, GiveUp, InvalidOption,
                      LoadStateDone, CheckInterrupt, LoopExit
  <2> QED
    BY <2>2, <2>3
<1>2. CASE LoadState
  <2> DEFINE ev == [name |-> "LoadState", timestamp |-> mCurrentSimTime']
  <2>1. /\ mCurrentSimTime = 0
        /\ mCurrentSimTime' \in LoadedTimes
        /\ ev \in Event /\ Publish(ev)
    BY <1>0, <1>2 DEF LoadState, InvTimes, Event, StateTopics
  <2>2. InOrderOfTime'
    BY <1>0, <2>1, OrderPublish
  <2>3. InvEvents'
    BY <1>0, <2>1, EventsPublish DEF ClockTimes
  <2>4. InvTimes'
    BY <1>2, <2>1 DEF InvTimes, LoadState, ClockTimes
  <2> QED
    BY <2>2, <2>3, <2>4
<1>3. CASE SaveState
  <2> DEFINE ev == [name |-> "SaveState", timestamp |-> mCurrentSimTime]
  <2>1. /\ mCurrentSimTime' = mCurrentSimTime
        /\ mCurrentSimTime \in Savepoints \union {0}
        /\ ev \in Event /\ Publish(ev)
    BY <1>0, <1>3 DEF SaveState, InCycle, InvTimes, Event, StateTopics
  <2>2. InOrderOfTime'
    BY <1>0, <2>1, OrderPublish
  <2>3. InvEvents'
    BY <1>0, <2>1, EventsPublish DEF InvTimes
  <2>4. InvTimes'
    BY <1>3, <2>1 DEF InvTimes, SaveState, InCycle
  <2> QED
    BY <2>2, <2>3, <2>4
<1>4. CASE SaveStateDone
  <2>1. UNCHANGED <<mCurrentSimTime, mConfigMode, inbox>>
    BY <1>4 DEF SaveStateDone, busVars
  <2>2. InOrderOfTime' /\ InvEvents'
    BY <2>1 DEF InOrderOfTime, InvEvents, modelVars
  <2>3. InvTimes'
    BY <1>4, <2>1 DEF InvTimes, SaveStateDone
  <2> QED
    BY <2>2, <2>3
<1>5. CASE PublishTick
  <2> DEFINE ev == [name |-> "SimTimeChanged", timestamp |-> mCurrentSimTime]
  <2>1. /\ mCurrentSimTime' = mCurrentSimTime + SimTimeStep
        /\ mCurrentSimTime <= SimTime
        /\ ~mConfigMode /\ ~mConfigMode'
        /\ ev \in Event /\ Publish(ev)
    BY <1>0, <1>5 DEF PublishTick, InCycle, InvTimes, Event, ClockTopics
  <2>2. mCurrentSimTime <= mCurrentSimTime' /\ mCurrentSimTime' \in ClockTimes
    BY <1>0, <2>1 DEF ClockTimes
  <2>3. InOrderOfTime'
    BY <1>0, <2>1, <2>2, OrderPublish
  <2>4. InvEvents'
    BY <1>0, <2>1, EventsPublish DEF InvTimes
  <2>5. InvTimes'
    BY <1>5, <2>1, <2>2 DEF InvTimes, PublishTick
  <2> QED
    BY <2>3, <2>4, <2>5
<1>6. CASE StopSim
  <2> DEFINE ev == [name |-> "End", timestamp |-> mCurrentSimTime]
  <2>1. /\ mCurrentSimTime' = mCurrentSimTime
        /\ ev \in Event /\ Publish(ev)
    BY <1>0, <1>6 DEF StopSim, Event, ClockTopics
  <2>2. InOrderOfTime'
    BY <1>0, <2>1, OrderPublish
  <2>3. InvEvents'
    BY <1>0, <2>1, EventsPublish DEF InvTimes
  <2>4. InvTimes'
    BY <1>6, <2>1 DEF InvTimes, StopSim
  <2> QED
    BY <2>2, <2>3, <2>4
<1> QED
  BY <1>1, <1>2, <1>3, <1>4, <1>5, <1>6 DEF SimStep

(* A model that receives an event, whatever it does then.                  *)
LEMMA ClockReceive ==
  ASSUME TypeOK, ClockInv, NEW m \in Models, NEW name, Receive(m, name), UNCHANGED simVars
  PROVE  ClockInv'
<1> USE DEF ClockInv, simVars
<1>1. InOrderOfTime'
  BY OrderReceive
<1>2. InvEvents'
  BY ReceivedEvents DEF InvEvents, TypeOK
<1>3. InvTimes'
  BY DEF InvTimes
<1> QED
  BY <1>1, <1>2, <1>3

(* An event of another model, however old, carries no time to come.        *)
LEMMA ClockOther ==
  ASSUME TypeOK, ClockInv, NEW n \in Models, HandleOther(n)
  PROVE  ClockInv'
<1> USE DEF ClockInv, HandleOther, simVars, busVars
<1>1. PICK t \in stamps : simTime' = [simTime EXCEPT ![n] = Clock(n, t)]
  OBVIOUS
<1>2. t \in Nat /\ t <= mCurrentSimTime /\ mCurrentSimTime \in Nat
  BY DEF InOrderOfTime, TypeOK, ModelTypeOK, SimTypeOK
<1>3. Clock(n, t) \in Nat /\ Clock(n, t) <= t
  BY <1>2, ClockType
<1>4. Clock(n, t) <= mCurrentSimTime /\ simTime \in [Models -> Nat]
  BY <1>2, <1>3 DEF TypeOK, ModelTypeOK
<1>5. \A m \in Models : simTime'[m] <= mCurrentSimTime
  BY <1>1, <1>4 DEF InOrderOfTime
<1>6. InOrderOfTime'
  BY <1>5 DEF InOrderOfTime
<1> QED
  BY <1>6 DEF InvTimes, InvEvents

(* Every step of a model keeps the times of the events.                    *)
LEMMA ClockModelStep ==
  ASSUME TypeOK, ClockInv, NEW m \in Models, ModelProcess(m) \/ ModelSignal(m)
  PROVE  ClockInv'
<1>1. CASE HandleEvent(m) /\ ~HandleOther(m)
  <2>1. UNCHANGED simVars /\ \E name : Receive(m, name)
    BY <1>1 DEF HandleEvent, HandleTick, HandleLoadState, HandleSaveState, HandleEnd
  <2> QED
    BY <2>1, ClockReceive
<1>2. CASE Waits(m) \/ ModelSignal(m)
  <2>1. UNCHANGED <<simPc, mConfigMode, mCurrentSimTime, inbox, simTime, handled, stamps>>
    BY <1>2 DEF Waits, Prepare, SubscriptionArrives, Sync, ModelSignal, InterruptModel,
                simVars, modelVars, busVars, modes
  <2> QED
    BY <2>1 DEF ClockInv, InOrderOfTime, InvTimes, InvEvents
<1>3. CASE HandleOther(m)
  BY <1>3, ClockOther
<1> QED
  BY <1>1, <1>2, <1>3 DEF ModelProcess

(* The clock starts at zero.                                               *)
LEMMA ClockInit == Init => ClockInv
BY DEF Init, SimInit, BusInit, ModelInit, ClockInv, InOrderOfTime, InvTimes, InvEvents,
       ClockTimes

(* Every step of the system keeps the times of the events.                 *)
LEMMA ClockNext ==
  ASSUME TypeOK, TypeOK', ClockInv, [Next]_vars
  PROVE  ClockInv'
<1>1. CASE SimProcess
  BY <1>1, ClockSimStep DEF SimProcess
<1>2. CASE ServerProcess \/ Signal \/ SimDies \/ UNCHANGED vars
  <2>1. UNCHANGED <<simPc, mConfigMode, mCurrentSimTime, inbox, simTime, handled, stamps>>
    BY <1>2 DEF ServerProcess, ServerStop, Signal, Interrupt, SimDies, vars, simVars,
                modelVars, busVars, modes
  <2> QED
    BY <2>1 DEF ClockInv, InOrderOfTime, InvTimes, InvEvents
<1>3. CASE \E m \in Models : ModelProcess(m) \/ ModelSignal(m)
  BY <1>3, ClockModelStep
<1> QED
  BY <1>1, <1>2, <1>3 DEF Next

(* Events are handled in the order of their times, and only at times the   *)
(* clock shows, whatever is dropped, late, or ended early.                 *)
THEOREM ClockInvariant == Spec => []ClockInv
<1>1. TypeOK /\ [Next]_vars => TypeOK'
  BY NextType
<1>2. TypeOK /\ TypeOK' /\ ClockInv /\ [Next]_vars => ClockInv'
  BY ClockNext
<1> QED
  BY <1>1, <1>2, ClockInit, TypeCorrect, PTL DEF Spec

(* The events of the simulation model are handled in the order of their    *)
(* times, and whatever event sets a model's clock, none sets it ahead of   *)
(* the simulation time (handleEvent, receiveEvent, run).                   *)
THEOREM OrderOfTime == Spec => []InOrderOfTime
<1>1. ClockInv => InOrderOfTime
  BY DEF ClockInv
<1> QED
  BY <1>1, ClockInvariant, PTL

-----------------------------------------------------------------------------
(* A savepoint is a consistent cut                                         *)

(* The last event of a queue after one was delivered.                      *)
LEMMA LastDelivered ==
  ASSUME TypeOK, NEW m \in Models, NEW ev \in Event, inbox'[m] = Append(inbox[m], ev)
  PROVE  /\ LastTime(m)' = ev.timestamp
         /\ Len(inbox'[m]) = Len(inbox[m]) + 1
         /\ DOMAIN inbox'[m] = 1 .. Len(inbox[m]) + 1
         /\ inbox'[m][Len(inbox[m]) + 1] = ev
         /\ \A i \in DOMAIN inbox[m] : inbox'[m][i] = inbox[m][i]
<1>1. inbox[m] \in Seq(Event)
  BY DEF TypeOK, BusTypeOK
<1>2. /\ inbox'[m] # <<>>
      /\ Len(inbox[m]) \in Nat
      /\ DOMAIN inbox[m] = 1 .. Len(inbox[m])
      /\ Len(inbox'[m]) = Len(inbox[m]) + 1
      /\ DOMAIN inbox'[m] = 1 .. Len(inbox[m]) + 1
      /\ inbox'[m][Len(inbox[m]) + 1] = ev
      /\ \A i \in 1 .. Len(inbox[m]) : inbox'[m][i] = inbox[m][i]
  BY <1>1
<1> QED
  BY <1>2 DEF LastTime

(* The last element of what is behind the first one.                       *)
LEMMA LastOfTail ==
  ASSUME NEW S, NEW q \in Seq(S), q # <<>>
  PROVE  IF Tail(q) = <<>> THEN Len(q) = 1 ELSE Tail(q)[Len(Tail(q))] = q[Len(q)]
<1> DEFINE t == Tail(q)
<1>1. /\ t \in Seq(S) /\ Len(t) = Len(q) - 1 /\ Len(q) \in Nat /\ Len(t) \in Nat
      /\ \A j \in 1 .. Len(t) : t[j] = q[j + 1]
  BY HeadTailProperties
<1> HIDE DEF t
<1>2. t = <<>> => Len(q) = 1
  <2>1. t = <<>> => Len(t) = 0
    OBVIOUS
  <2> QED
    BY <1>1, <2>1
<1>3. t # <<>> => Len(t) \in 1 .. Len(t)
  BY <1>1, EmptySeq
<1>4. t # <<>> => t[Len(t)] = q[Len(q)]
  BY <1>1, <1>3
<1> QED
  BY <1>2, <1>4 DEF t

(* Handling an event leaves the last one that is or was in the queue.      *)
LEMMA LastReceived ==
  ASSUME TypeOK, NEW n \in Models, NEW name, Receive(n, name), NEW m \in Models
  PROVE  LastTime(m)' = LastTime(m)
<1>1. inbox[m] \in Seq(Event) /\ handled \in [Models -> Nat] /\ inbox \in [Models -> Seq(Event)]
  BY DEF TypeOK, BusTypeOK, ModelTypeOK
<1>2. CASE m # n
  BY <1>1, <1>2 DEF Receive, LastTime
<1>3. CASE m = n
  <2>1. /\ inbox[m] # <<>> /\ inbox'[m] = Tail(inbox[m])
        /\ handled'[m] = inbox[m][1].timestamp
    BY <1>1, <1>3 DEF Receive
  <2> QED
    BY <1>1, <2>1, LastOfTail DEF LastTime
<1> QED
  BY <1>2, <1>3

(* As long as no queue is full every persistent model gets every event.    *)
LEMMA AllDelivered ==
  ASSUME TypeOK, InvPrepared, InvCut, NoQueueFull,
         simPc \notin Unbound \union {"prepSync"}, NEW m \in Persist, NEW ev \in Event, Publish(ev)
  PROVE  inbox'[m] = Append(inbox[m], ev)
<1>1. m \in Models /\ pc[m] \notin {"prepare", "aborted"}
  BY DEF InvPrepared, Prepared
<1>2. subscribed[m] /\ Len(inbox[m]) < HighWaterMark
  BY <1>1 DEF InvCut, NoQueueFull
<1>3. ev.name \in Topics(m)
  BY DEF Topics, Event
<1> QED
  BY <1>1, <1>2, <1>3 DEF Publish, Delivers

(* A queue without a request to store keeps none when another event joins. *)
LEMMA NoRequest ==
  ASSUME TypeOK, NEW m \in Models, NEW ev \in Event, inbox'[m] = Append(inbox[m], ev),
         ev.name # "SaveState",
         \A i \in DOMAIN inbox[m] : inbox[m][i].name \notin StateTopics
  PROVE  \A i \in DOMAIN inbox'[m] : inbox'[m][i].name # "SaveState"
<1>1. inbox[m] \in Seq(Event)
  BY DEF TypeOK, BusTypeOK
<1>2. DOMAIN inbox[m] = 1 .. Len(inbox[m]) /\ Len(inbox[m]) \in Nat
  BY <1>1
<1>3. ASSUME NEW i \in DOMAIN inbox'[m]
      PROVE  i \in DOMAIN inbox[m] \/ i = Len(inbox[m]) + 1
  BY <1>2, <1>3, LastDelivered
<1> QED
  BY <1>3, LastDelivered DEF StateTopics

(* The steps of the simulation model keep the cut.                         *)
LEMMA CutSimStep ==
  ASSUME "syncFail" \notin Faults, IInv, ClockInv, InvCut, NoQueueFull,
         SimStep, UNCHANGED modelVars
  PROVE  InvCut'
<1> SUFFICES ASSUME NEW m \in Persist PROVE CutOf(m)'
  BY DEF InvCut, modelVars, SimStep, PrepareDone, PrepareFails, GiveUp, InvalidOption,
         LoadState, LoadStateDone, SaveState, SaveStateDone, PublishTick, CheckInterrupt,
         LoopExit, StopSim, busVars
<1>0. /\ TypeOK /\ InvPrepared /\ m \in Models /\ CutOf(m)
      /\ mCurrentSimTime \in Nat
      /\ handled'[m] = handled[m]
  BY DEF IInv, TypeOK, SimTypeOK, InvCut, modelVars
<1>1. CASE \/ PrepareDone   \/ PrepareFails  \/ GiveUp         \/ InvalidOption
           \/ LoadStateDone \/ SaveStateDone \/ CheckInterrupt \/ LoopExit
  <2>1. /\ inbox' = inbox /\ handled' = handled /\ mCurrentSimTime' = mCurrentSimTime
        /\ simPc' \in {"prepSync", "main"} => simPc = "prepSync"
        /\ simPc' \in {"loadSync", "loop"} => simPc \in {"loadSync", "check"}
        /\ simPc' # "check"
    BY <1>1 DEF PrepareDone, PrepareFails, GiveUp, InvalidOption, LoadStateDone,
                SaveStateDone, CheckInterrupt, LoopExit, busVars, modelVars
  <2>2. LastTime(m)' = LastTime(m) /\ \A t : AtCut(t)' <=> AtCut(t)
    BY <2>1 DEF LastTime, AtCut
  <2>3. simPc = "check" => AtCut(LastTime(m))
    BY <1>0 DEF CutOf, AtCut
  <2> QED
    BY <1>0, <2>1, <2>2, <2>3 DEF CutOf
<1>2. CASE LoadState
  <2> DEFINE ev == [name |-> "LoadState", timestamp |-> mCurrentSimTime']
  <2>1. /\ simPc = "main" /\ simPc' = "loadSync" /\ mCurrentSimTime' \in LoadedTimes
        /\ ev \in Event /\ Publish(ev)
    BY <1>2, LoadedType DEF LoadState, Event, StateTopics
  <2>2. inbox'[m] = Append(inbox[m], ev)
    BY <1>0, <2>1, AllDelivered
  <2>3. LastTime(m)' = mCurrentSimTime'
    BY <1>0, <2>1, <2>2, LastDelivered
  <2>4. \A i \in DOMAIN inbox'[m] : inbox'[m][i].name # "SaveState"
    BY <1>0, <2>1, <2>2, NoRequest, NothingPending DEF IInv
  <2> QED
    BY <2>1, <2>3, <2>4 DEF CutOf, AtCut
<1>3. CASE SaveState
  <2> DEFINE ev == [name |-> "SaveState", timestamp |-> mCurrentSimTime]
  <2>1. /\ simPc \in {"main", "loop"} /\ simPc' = "saveSync"
        /\ mCurrentSimTime' = mCurrentSimTime
        /\ ev \in Event /\ Publish(ev)
    BY <1>0, <1>3 DEF SaveState, InCycle, Event, StateTopics
  <2>2. inbox'[m] = Append(inbox[m], ev)
    BY <1>0, <2>1, AllDelivered
  <2>3. AtCut(LastTime(m))
    BY <1>0, <2>1 DEF CutOf, LastTime, AtCut, ClockInv, InvTimes
  <2>4. ASSUME NEW i \in DOMAIN inbox'[m], inbox'[m][i].name = "SaveState"
        PROVE  i = Len(inbox[m]) + 1
    BY <1>0, <2>1, <2>4, PublishedEvents, NothingPending DEF IInv, TypeOK, StateTopics
  <2>5. LastTime(m) = IF Len(inbox[m]) + 1 = 1 THEN handled'[m]
                      ELSE inbox'[m][Len(inbox[m])].timestamp
    <3>1. inbox[m] \in Seq(Event)
      BY <1>0 DEF TypeOK, BusTypeOK
    <3>2. CASE inbox[m] = <<>>
      BY <1>0, <3>2 DEF LastTime
    <3>3. CASE inbox[m] # <<>>
      <4>1. /\ Len(inbox[m]) \in DOMAIN inbox[m]
            /\ Len(inbox[m]) + 1 # 1
        BY <3>1, <3>3
      <4> QED
        BY <1>0, <2>1, <2>2, <3>3, <4>1, LastDelivered DEF LastTime
    <3> QED
      BY <3>2, <3>3
  <2>6. Len(inbox'[m]) = Len(inbox[m]) + 1 /\ Len(inbox[m]) \in Nat
    BY <1>0, <2>1, <2>2, LastDelivered DEF TypeOK, BusTypeOK
  <2> QED
    BY <2>1, <2>3, <2>4, <2>5, <2>6 DEF CutOf, AtCut
<1>4. CASE PublishTick
  <2> DEFINE ev == [name |-> "SimTimeChanged", timestamp |-> mCurrentSimTime]
  <2>1. /\ simPc \in {"tick", "loop"} /\ simPc' = "check"
        /\ mCurrentSimTime' = mCurrentSimTime + SimTimeStep
        /\ ev \in Event /\ Publish(ev)
    BY <1>0, <1>4 DEF PublishTick, InCycle, Event, ClockTopics
  <2>2. inbox'[m] = Append(inbox[m], ev)
    BY <1>0, <2>1, AllDelivered
  <2>3. LastTime(m)' = mCurrentSimTime
    BY <1>0, <2>1, <2>2, LastDelivered
  <2>4. \A i \in DOMAIN inbox'[m] : inbox'[m][i].name # "SaveState"
    BY <1>0, <2>1, <2>2, NoRequest, NothingPending DEF IInv
  <2> QED
    BY <1>0, <2>1, <2>3, <2>4 DEF CutOf
<1>5. CASE StopSim
  <2> DEFINE ev == [name |-> "End", timestamp |-> mCurrentSimTime]
  <2>1. /\ simPc = "stop" /\ simPc' = "done"
        /\ ev \in Event /\ Publish(ev)
    BY <1>0, <1>5 DEF StopSim, Event, ClockTopics
  <2>2. inbox'[m] = Append(inbox[m], ev)
    BY <1>0, <2>1, AllDelivered
  <2>3. \A i \in DOMAIN inbox'[m] : inbox'[m][i].name # "SaveState"
    BY <1>0, <2>1, <2>2, NoRequest, NothingPending DEF IInv
  <2> QED
    BY <2>1, <2>3 DEF CutOf
<1> QED
  BY <1>1, <1>2, <1>3, <1>4, <1>5 DEF SimStep

(* Handling an event keeps the cut.                                        *)
LEMMA CutReceive ==
  ASSUME TypeOK, NEW n \in Models, NEW name, Receive(n, name), UNCHANGED simVars,
         NEW m \in Persist, CutOf(m)
  PROVE  CutOf(m)'
<1>1. /\ m \in Models /\ inbox[m] \in Seq(Event)
      /\ inbox \in [Models -> Seq(Event)] /\ handled \in [Models -> Nat]
  BY DEF TypeOK, BusTypeOK, ModelTypeOK
<1>2. CASE m # n
  <2>1. inbox'[m] = inbox[m] /\ handled'[m] = handled[m]
    BY <1>1, <1>2 DEF Receive
  <2> QED
    BY <1>1, <2>1, LastReceived DEF CutOf, AtCut, simVars
<1>3. CASE m = n
  <2>1. /\ inbox[m] # <<>> /\ inbox'[m] = Tail(inbox[m])
        /\ handled'[m] = inbox[m][1].timestamp
    BY <1>1, <1>3 DEF Receive
  <2>2. simPc \notin {"prepSync", "main"}
    BY <2>1 DEF CutOf
  <2>3. Len(inbox[m]) \in Nat /\ Len(inbox'[m]) = Len(inbox[m]) - 1
    BY <1>1, <2>1, HeadTailProperties
  <2>4. ASSUME NEW i \in DOMAIN inbox'[m], inbox'[m][i].name = "SaveState"
        PROVE  /\ i = Len(inbox'[m])
               /\ AtCut(IF i = 1 THEN handled'[m] ELSE inbox'[m][i - 1].timestamp)
    <3>1. i + 1 \in DOMAIN inbox[m] /\ inbox'[m][i] = inbox[m][i + 1]
      BY <1>1, <2>1, <2>4, TailAt
    <3>2. \A k \in DOMAIN inbox[m] : inbox[m][k].name = "SaveState" =>
            /\ k = Len(inbox[m])
            /\ k # 1 => AtCut(inbox[m][k - 1].timestamp)
      BY DEF CutOf
    <3>3. i \in Nat \ {0} /\ i \in 1 .. Len(inbox'[m]) /\ DOMAIN inbox'[m] = 1 .. Len(inbox'[m])
      BY <1>1, <2>1, <2>4, HeadTailProperties
    <3>4. i + 1 = Len(inbox[m]) /\ AtCut(inbox[m][i].timestamp)
      <4>1. i + 1 = Len(inbox[m]) /\ AtCut(inbox[m][(i + 1) - 1].timestamp)
        BY <2>4, <3>1, <3>2, <3>3
      <4>2. (i + 1) - 1 = i
        BY <3>3
      <4> QED
        BY <4>1, <4>2
    <3>5. CASE i = 1
      BY <2>1, <2>3, <3>4, <3>5
    <3>6. CASE i # 1
      <4>1. i - 1 \in DOMAIN Tail(inbox[m]) /\ (i - 1) + 1 = i
        BY <2>1, <3>3, <3>6
      <4>2. inbox'[m][i - 1] = inbox[m][i]
        BY <1>1, <2>1, <4>1, TailAt
      <4> QED
        BY <2>3, <3>3, <3>4, <3>6, <4>2
    <3> QED
      BY <3>5, <3>6
  <2> QED
    BY <1>1, <2>2, <2>4, LastReceived DEF CutOf, AtCut, simVars
<1> QED
  BY <1>2, <1>3

(* Every step of a model keeps the cut.                                    *)
LEMMA CutModelStep ==
  ASSUME "slowJoin" \notin Faults, TypeOK, InvCut, NEW n \in Models,
         ModelProcess(n) \/ ModelSignal(n)
  PROVE  InvCut'
<1> USE DEF TypeOK, BusTypeOK, ModelTypeOK, InvCut
<1>1. CASE HandleEvent(n) /\ ~HandleOther(n)
  <2>1. /\ UNCHANGED <<simVars, subscribed>> /\ pc[n] = "run"
        /\ \E name : Receive(n, name)
        /\ \A m \in Models : m # n => pc'[m] = pc[m]
    BY <1>1 DEF HandleEvent, HandleTick, HandleLoadState, HandleSaveState, HandleEnd,
                Receive
  <2>2. \A m \in Models : pc'[m] \notin {"prepare", "aborted"} => subscribed'[m]
    BY <2>1
  <2>3. ASSUME NEW m \in Persist PROVE CutOf(m)'
    BY <2>1, CutReceive
  <2> QED
    BY <2>2, <2>3
<1>2. CASE Waits(n) \/ HandleOther(n) \/ ModelSignal(n)
  <2>1. UNCHANGED <<simPc, mCurrentSimTime, inbox, handled>>
    BY <1>2 DEF Waits, Prepare, SubscriptionArrives, Sync, HandleOther, ModelSignal,
                InterruptModel, simVars, modelVars, busVars
  <2>2. ASSUME NEW m \in Persist PROVE CutOf(m)'
    BY <2>1 DEF CutOf, AtCut, LastTime
  <2>3. \A m \in Models : pc'[m] \notin {"prepare", "aborted"} => subscribed'[m]
    BY <1>2 DEF Waits, Prepare, SubscriptionArrives, Sync, HandleOther, ModelSignal,
                InterruptModel, modelVars, busVars, Barriers
  <2> QED
    BY <2>2, <2>3
<1> QED
  BY <1>1, <1>2 DEF ModelProcess

(* Every step of the system keeps the cut.                                 *)
LEMMA CutNext ==
  ASSUME "syncFail" \notin Faults, "slowJoin" \notin Faults,
         IInv, ClockInv, InvCut, NoQueueFull, [Next]_vars
  PROVE  InvCut'
<1>1. CASE SimProcess
  BY <1>1, CutSimStep DEF SimProcess
<1>2. CASE ServerProcess \/ Signal \/ SimDies \/ UNCHANGED vars
  <2>1. UNCHANGED <<simPc, mCurrentSimTime, busVars, modelVars>>
    BY <1>2 DEF ServerProcess, ServerStop, Signal, Interrupt, SimDies, vars, simVars
  <2> QED
    BY <2>1 DEF InvCut, CutOf, AtCut, LastTime, busVars, modelVars
<1>3. CASE \E m \in Models : ModelProcess(m) \/ ModelSignal(m)
  BY <1>3, CutModelStep DEF IInv
<1> QED
  BY <1>1, <1>2, <1>3 DEF Next

(* At first nothing is published, and nobody subscribed.                   *)
LEMMA CutInit == Init => InvCut
BY DEF Init, SimInit, BusInit, ModelInit, InvCut, CutOf

(* Storing is the handling of the request at the head of the queue, with   *)
(* the event before it handled last.                                       *)
LEMMA StoredAtCut ==
  ASSUME TypeOK, InvCut, [Next]_vars, NEW m \in Persist, saved'[m] # saved[m]
  PROVE  AtCut(handled[m])
<1> USE DEF TypeOK, BusTypeOK, ModelTypeOK
<1>1. HandleSaveState(m)
  BY DEF Next, SimProcess, ServerProcess, Signal, SimDies, ModelProcess, ModelSignal,
         Waits, Prepare, SubscriptionArrives, Sync, HandleEvent, HandleTick,
         HandleLoadState, HandleSaveState, HandleEnd, HandleOther, InterruptModel,
         vars, modelVars
<1>2. inbox[m] \in Seq(Event) /\ inbox[m] # <<>> /\ Head(inbox[m]).name = "SaveState"
  BY <1>1 DEF HandleSaveState, Receive
<1>3. 1 \in DOMAIN inbox[m] /\ inbox[m][1].name = "SaveState"
  BY <1>2
<1> QED
  BY <1>3 DEF InvCut, CutOf

(* As long as no queue is full it is known in each state of the clock what *)
(* the last event is that a persistent model has or will get, and its      *)
(* request to store comes last, right behind the tick or start before it   *)
(* (continueSim, saveState, handleEvent).                                  *)
THEOREM CutInvariant ==
  ASSUME "syncFail" \notin Faults, "slowJoin" \notin Faults
  PROVE  Spec /\ []NoQueueFull => []InvCut
<1>1. IInv /\ ClockInv /\ InvCut /\ NoQueueFull /\ [Next]_vars => InvCut'
  BY CutNext
<1> QED
  BY <1>1, CutInit, InductiveInvariant, ClockInvariant, PTL DEF Spec

(* A savepoint is a consistent cut in every behaviour in which no model    *)
(* subscribes late and no queue is ever full: each model stores right      *)
(* behind the tick, or the start, before the savepoint.                    *)
THEOREM ConsistentCut ==
  ASSUME "syncFail" \notin Faults, "slowJoin" \notin Faults
  PROVE  Spec /\ []NoQueueFull => StoreAtCut
<1> DEFINE Stores ==
      \A m \in Persist : saved'[m] # saved[m] =>
        handled[m] \in {mCurrentSimTime, mCurrentSimTime - SimTimeStep}
          /\ (handled[m] = mCurrentSimTime => mCurrentSimTime \in LoadedTimes \union {0})
<1>1. IInv /\ InvCut /\ [Next]_vars => [Stores]_vars
  BY StoredAtCut DEF IInv, AtCut
<1> QED
  BY <1>1, CutInvariant, InductiveInvariant, PTL DEF Spec, StoreAtCut

-----------------------------------------------------------------------------
(* No savepoint is skipped                                                 *)

(* What leaves no remainder is a multiple.                                 *)
LEMMA Multiple ==
  ASSUME NEW d \in Nat \ {0}, NEW n \in Nat, n % d = 0
  PROVE  \E k \in Nat : n = k * d
OBVIOUS

(* A time is no step away from itself.                                     *)
LEMMA ZeroSteps ==
  ASSUME NEW d \in Nat \ {0}, NEW t \in Nat
  PROVE  t <= t /\ (t - t) % d = 0
<1>1. t - t = 0 /\ t <= t
  OBVIOUS
<1>2. 0 % d = 0
  OBVIOUS
<1> QED
  BY <1>1, <1>2

(* Two times that are a number of steps from a third one are a number of   *)
(* steps apart: the same, or at least one.                                 *)
LEMMA StepsApart ==
  ASSUME NEW d \in Nat \ {0}, NEW t \in Nat, NEW a \in Nat, NEW b \in Nat,
         t <= a, a <= b, b < a + d, (a - t) % d = 0, (b - t) % d = 0
  PROVE  a = b
<1>2. a - t \in Nat /\ b - t \in Nat
  OBVIOUS
<1>3. PICK k \in Nat : a - t = k * d
  BY <1>2, Multiple
<1>4. PICK j \in Nat : b - t = j * d
  BY <1>2, Multiple
<1>5. k * d <= j * d /\ j * d < k * d + d
  <2>1. a - t <= b - t /\ b - t < (a - t) + d
    OBVIOUS
  <2> QED
    BY <1>3, <1>4, <2>1
<1>6. k = j
  BY <1>5
<1> QED
  BY <1>3, <1>4, <1>6

(* A step further is still a number of steps away.                         *)
LEMMA StepFurther ==
  ASSUME NEW d \in Nat \ {0}, NEW n \in Nat, n % d = 0
  PROVE  (n + d) % d = 0
<1>1. PICK k \in Nat : n = k * d
  BY Multiple
<1>2. n + d = (k + 1) * d
  BY <1>1
<1>3. ((k + 1) * d) % d = 0
  OBVIOUS
<1> QED
  BY <1>2, <1>3

(* The clock of a run only shows times of its grid.                        *)
LEMMA GridNext ==
  ASSUME TypeOK, InvTimes, InvGrid, [Next]_vars
  PROVE  InvGrid'
<1>0. mCurrentSimTime \in Nat
  BY DEF TypeOK, SimTypeOK
<1>1. CASE LoadState
  <2>1. mCurrentSimTime' \in LoadedTimes /\ mCurrentSimTime' \in Nat
    BY <1>1, LoadedType DEF LoadState
  <2>2. PICK t \in LoadedTimes : t = mCurrentSimTime'
    BY <2>1
  <2>3. t \in Nat /\ SimTimeStep \in Nat \ {0}
    BY <2>2, LoadedType
  <2>4. t <= t /\ (t - t) % SimTimeStep = 0
    BY <2>3, ZeroSteps
  <2> QED
    BY <2>2, <2>4 DEF InvGrid
<1>2. CASE PublishTick
  <2>1. /\ simPc \notin {"prepSync", "main", "invalid"} \union Unbound /\ ~mConfigMode
        /\ mCurrentSimTime' = mCurrentSimTime + SimTimeStep
    BY <1>2 DEF PublishTick, InCycle, InvTimes
  <2>2. PICK t \in LoadedTimes : /\ t <= mCurrentSimTime
                                 /\ (mCurrentSimTime - t) % SimTimeStep = 0
    BY <2>1 DEF InvGrid
  <2>3. /\ mCurrentSimTime - t \in Nat /\ t \in Nat
        /\ mCurrentSimTime' - t = (mCurrentSimTime - t) + SimTimeStep
    BY <1>0, <2>1, <2>2, LoadedType
  <2>4. (mCurrentSimTime' - t) % SimTimeStep = 0
    BY <2>2, <2>3, StepFurther
  <2>5. t <= mCurrentSimTime'
    BY <1>0, <2>1, <2>2, <2>3
  <2> QED
    BY <2>4, <2>5 DEF InvGrid
<1>3. CASE ~LoadState /\ ~PublishTick
  <2>1. /\ UNCHANGED <<mCurrentSimTime, mConfigMode>>
        /\ simPc \in {"prepSync", "main", "invalid"} \union Unbound =>
             simPc' \in {"prepSync", "main", "invalid"} \union Unbound \/ mConfigMode
    BY <1>3 DEF Next, SimProcess, SimStep, PrepareDone, PrepareFails, GiveUp,
                InvalidOption, LoadStateDone, SaveState, InCycle, SaveStateDone,
                CheckInterrupt, LoopExit, StopSim, ServerProcess, ServerStop, Signal,
                Interrupt, SimDies, ModelProcess, ModelSignal, Waits, Prepare,
                SubscriptionArrives, Sync, HandleEvent, HandleTick, HandleLoadState,
                HandleSaveState, HandleEnd, HandleOther, InterruptModel, simVars, vars
  <2> QED
    BY <2>1 DEF InvGrid
<1> QED
  BY <1>1, <1>2, <1>3

(* The clock only shows times that are a number of steps from its start.   *)
THEOREM ClockOnGrid == Spec => []InvGrid
<1>1. Init => InvGrid
  BY DEF Init, SimInit, InvGrid
<1>2. TypeOK /\ ClockInv /\ InvGrid /\ [Next]_vars => InvGrid'
  BY GridNext DEF ClockInv
<1> QED
  BY <1>1, <1>2, TypeCorrect, ClockInvariant, PTL DEF Spec

(* On the grid a tick steps over no savepoint but one that is stored.      *)
LEMMA TickSkipsNone ==
  ASSUME OnGrid, IInv, ClockInv, InvGrid, [Next]_vars, Ticked,
         NEW s \in Savepoints, NEW m \in Persist,
         mCurrentSimTime <= s, s < mCurrentSimTime'
  PROVE  s \in saved[m]
<1>1. PublishTick
  BY TickedByPublish
<1>2. /\ simPc \in {"tick", "loop"} /\ ~mConfigMode
      /\ mCurrentSimTime' = mCurrentSimTime + SimTimeStep
      /\ mCurrentSimTime \in Nat /\ s \in Nat
  BY <1>1 DEF PublishTick, InCycle, ClockInv, InvTimes, IInv, TypeOK, SimTypeOK
<1>3. PICK t \in LoadedTimes : /\ t <= mCurrentSimTime
                               /\ (mCurrentSimTime - t) % SimTimeStep = 0
  BY <1>2 DEF InvGrid
<1>4. t \in Nat /\ s >= t
  BY <1>2, <1>3, LoadedType
<1>5. (s - t) % SimTimeStep = 0
  BY <1>4 DEF OnGrid
<1>6. mCurrentSimTime = s
  BY <1>2, <1>3, <1>4, <1>5, StepsApart
<1> QED
  BY <1>1, <1>6 DEF PublishTick, InCycle, IInv, InvRunning

(* When every savepoint lies a number of steps behind every start before   *)
(* it, the clock does not move beyond one at which a model has not stored. *)
THEOREM NoneSkipped ==
  ASSUME "syncFail" \notin Faults, OnGrid
  PROVE  Spec => SavepointNotSkipped
<1> DEFINE A == Ticked => \A s \in Savepoints, m \in Persist :
                  mCurrentSimTime <= s /\ s < mCurrentSimTime' => s \in saved[m]
<1>1. IInv /\ ClockInv /\ InvGrid /\ [Next]_vars => [A]_vars
  BY TickSkipsNone
<1> QED
  BY <1>1, InductiveInvariant, ClockInvariant, ClockOnGrid, PTL
  DEF Spec, SavepointNotSkipped

=============================================================================
