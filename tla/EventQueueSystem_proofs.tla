----------------------- MODULE EventQueueSystem_proofs -----------------------
(***************************************************************************)
(* Proofs about EventQueueSystem: the queue does not disturb the life of   *)
(* the simulation, and the simulation gives the queue what EventQueue      *)
(* supposes, so that the theorems about each hold for both together.       *)
(***************************************************************************)
EXTENDS EventQueueSystem, SimulationSystem_proofs

USE BusAssumption, ClockAssumption, QueueIsPersistent DEF modes, AtSavepoint

-----------------------------------------------------------------------------
(* The invariants of the simulation                                        *)

(* The queue's process ends with an exception in loadState or saveState.   *)
Throws == (\E name \in StateTopics : QueueDies(name)) /\ UNCHANGED simDied

(* Everything but this exception is a step of the simulation.              *)
LEMMA StepOrThrow ==
  ASSUME [SystemNext]_systemVars
  PROVE  [Next]_vars \/ Throws
<1>1. CASE UNCHANGED systemVars
  BY <1>1 DEF systemVars
<1>2. CASE Simulation \/ Server \/ Signals
  BY <1>2 DEF Simulation, Server, Signals, Next
<1>3. CASE QueueProcess
  <2>1. CASE QueueWaits
    BY <2>1 DEF QueueWaits, Next, ModelProcess
  <2>2. CASE QueueHandles
    BY <2>2 DEF QueueHandles, Throws, StateTopics, Next, ModelProcess, HandleEvent
  <2>3. CASE QueueInit
    BY <2>3 DEF QueueInit
  <2> QED
    BY <1>3, <2>1, <2>2, <2>3 DEF QueueProcess
<1>4. CASE \E m \in Models : OtherModel(m)
  BY <1>4 DEF OtherModel, Next
<1>5. CASE QueueHandlesAgain
  BY <1>5 DEF QueueHandlesAgain
<1> QED
  BY <1>1, <1>2, <1>3, <1>4, <1>5 DEF SystemNext

(* The exception keeps the types, ...                                      *)
LEMMA ThrowType == TypeOK /\ Throws => TypeOK'
<1> SUFFICES ASSUME TypeOK, Throws PROVE TypeOK'
  OBVIOUS
<1>1. PICK name \in StateTopics : QueueDies(name)
  BY DEF Throws
<1>2. /\ inbox' \in [Models -> Seq(Event)] /\ simTime' \in [Models -> Nat]
      /\ handled' \in [Models -> Nat] /\ stamps' \subseteq Nat
  BY <1>1, ReceiveType DEF QueueDies, TypeOK
<1> QED
  BY <1>1, <1>2 DEF Throws, QueueDies, TypeOK, SimTypeOK, BusTypeOK, ModelTypeOK,
                    ModelPcs, simVars

(* ... and is for the others like any other early end.                     *)
LEMMA ThrowIInv == IInv /\ Throws => IInv'
<1> SUFFICES ASSUME IInv, Throws PROVE IInv'
  OBVIOUS
<1>1. TypeOK' /\ queue \in Models
  BY ThrowType DEF IInv
<1>2. PICK name \in StateTopics : QueueDies(name)
  BY DEF Throws
<1>3. InvStart' /\ InvPending'
  BY <1>1, <1>2, EventReceived DEF QueueDies
<1>4. pc[queue] = "run" /\ pc' = [pc EXCEPT ![queue] = "exited"]
  BY <1>2 DEF QueueDies, Receive
<1>5. pc' = [pc EXCEPT ![queue] = IF @ = "prepSync" THEN "aborted" ELSE "exited"]
  BY <1>4
<1> QED
  BY <1>1, <1>2, <1>3, <1>4, <1>5, IndLeave DEF QueueDies

(* Every step keeps the types and the times of the events.                 *)
LEMMA SystemStepTimes ==
  ASSUME TypeOK, ClockInv, [SystemNext]_systemVars
  PROVE  TypeOK' /\ ClockInv'
<1>1. CASE [Next]_vars
  BY <1>1, NextType, ClockNext
<1>2. CASE Throws
  BY <1>2, ThrowType, ClockReceive DEF Throws, QueueDies
<1> QED
  BY <1>1, <1>2, StepOrThrow

(* With a queue in it, too, the simulation handles events in their order.  *)
THEOREM SystemTimes == SystemSpec => [](TypeOK /\ ClockInv)
<1>1. SystemInit => TypeOK /\ ClockInv
  BY InitType, ClockInit DEF SystemInit
<1>2. TypeOK /\ ClockInv /\ [SystemNext]_systemVars => TypeOK' /\ ClockInv'
  BY SystemStepTimes
<1> QED
  BY <1>1, <1>2, PTL DEF SystemSpec

(* With a queue in it, too, the barriers keep the models in step.          *)
THEOREM SystemInvariant ==
  ASSUME "syncFail" \notin Faults
  PROVE  SystemSpec => []IInv
<1>1. SystemInit => IInv
  BY InitInv DEF SystemInit
<1>2. IInv /\ [SystemNext]_systemVars => IInv'
  BY NextInv, ThrowIInv, StepOrThrow
<1> QED
  BY <1>1, <1>2, PTL DEF SystemSpec

-----------------------------------------------------------------------------
(* The queue in the simulation implements EventQueue                       *)

(* What the queue receives carries a time of EventQueue.                   *)
LEMMA ReceivedTime ==
  ASSUME TypeOK, ClockInv, NEW name, Receive(queue, name)
  PROVE  LET t == Head(inbox[queue]).timestamp IN
         /\ t \in Times /\ t >= handled[queue]
         /\ name \in StateTopics => t \in Cuts
<1> DEFINE ev == Head(inbox[queue])
<1>1. queue \in Models /\ inbox[queue] \in Seq(Event) /\ inbox[queue] # <<>>
  BY DEF TypeOK, BusTypeOK, Receive
<1>2. 1 \in DOMAIN inbox[queue] /\ ev = inbox[queue][1] /\ ev.name = name
  BY <1>1 DEF Receive
<1>3. ev.timestamp \in ClockTimes /\ (name \in StateTopics => ev.timestamp \in Cuts)
  BY <1>1, <1>2 DEF ClockInv, InvEvents, StateTopics, Cuts, LoadedTimes
<1>4. handled[queue] <= ev.timestamp
  BY <1>1, <1>2 DEF ClockInv, InOrderOfTime
<1> QED
  BY <1>3, <1>4 DEF ClockTimes, Times, Cuts

(* What keeps ticks from a queue that is not initialised: nothing in it,   *)
(* but the barrier of the simulation model; and that nothing is loaded for *)
(* a second time.                                                          *)
InvQueue ==
  /\ initialised[queue] => phase # "constructed"
  /\ ~initialised[queue] => phase \notin {"loading", "running"} /\ loads = 0
  /\ loads \in {0, 1}
  /\ \A i \in DOMAIN inbox[queue] :
       inbox[queue][i].name = "SimTimeChanged" => initialised[queue]

(* A tick is published when every persistent model is initialised.         *)
LEMMA QueuePublish ==
  ASSUME IInv, InvQueue, SimStep, UNCHANGED <<modelVars, dataVars>>
  PROVE  InvQueue'
<1> USE DEF modelVars, dataVars
<1>1. queue \in Models /\ BusTypeOK /\ mCurrentSimTime \in Nat
  BY DEF IInv, TypeOK, SimTypeOK
<1>2. CASE UNCHANGED inbox
  BY <1>2 DEF InvQueue
<1>3. CASE PublishTick
  <2>1. initialised[queue]
    BY <1>3 DEF PublishTick, InCycle, IInv, InvRunning
  <2> QED
    BY <2>1 DEF InvQueue
<1>4. ASSUME NEW ev \in Event, Publish(ev), ev.name # "SimTimeChanged"
      PROVE  InvQueue'
  <2>1. \A i \in DOMAIN inbox'[queue] :
          \/ i \in DOMAIN inbox[queue] /\ inbox'[queue][i] = inbox[queue][i]
          \/ inbox'[queue][i] = ev
    BY <1>1, <1>4, PublishedEvents
  <2> QED
    BY <1>4, <2>1 DEF InvQueue
<1>5. CASE LoadState
  <2>1. [name |-> "LoadState", timestamp |-> mCurrentSimTime'] \in Event
    BY <1>5, LoadedType DEF LoadState, Event, StateTopics
  <2> QED
    BY <1>4, <1>5, <2>1 DEF LoadState
<1>6. CASE SaveState
  <2>1. [name |-> "SaveState", timestamp |-> mCurrentSimTime] \in Event
    BY <1>1 DEF Event, StateTopics
  <2> QED
    BY <1>4, <1>6, <2>1 DEF SaveState
<1>7. CASE StopSim
  <2>1. [name |-> "End", timestamp |-> mCurrentSimTime] \in Event
    BY <1>1 DEF Event, ClockTopics
  <2> QED
    BY <1>4, <1>7, <2>1 DEF StopSim
<1> QED
  BY <1>2, <1>3, <1>5, <1>6, <1>7
  DEF SimStep, PrepareDone, PrepareFails, GiveUp, InvalidOption, LoadStateDone,
      SaveStateDone, CheckInterrupt, LoopExit, busVars

(* What the others do leaves the queue and its clock alone.                *)
LEMMA OthersStutter ==
  ASSUME TypeOK, \/ Simulation \/ Server \/ Signals \/ QueueWaits
                 \/ UNCHANGED systemVars
                 \/ \E m \in Models : OtherModel(m)
  PROVE  UNCHANGED <<handled[queue], initialised[queue], dataVars>>
<1>1. CASE Simulation \/ Server \/ Signals \/ UNCHANGED systemVars
  BY <1>1 DEF Simulation, Server, Signals, SimProcess, ServerProcess, Signal, SimDies,
              modelVars, systemVars, vars
<1>2. CASE QueueWaits
  BY <1>2 DEF QueueWaits, Waits, Prepare, SubscriptionArrives, Sync, modelVars
<1>3. ASSUME NEW m \in Models, OtherModel(m)
      PROVE  UNCHANGED <<handled[queue], initialised[queue], dataVars>>
  BY <1>3 DEF OtherModel, ModelProcess, Waits, Prepare, SubscriptionArrives, Sync,
              HandleEvent, HandleTick, HandleLoadState, HandleSaveState, HandleEnd,
              HandleOther, Receive, modelVars, TypeOK, ModelTypeOK
<1> QED
  BY <1>1, <1>2, <1>3

(* What the queue still has to handle when it has handled one event.       *)
LEMMA QueueReceived ==
  ASSUME TypeOK, InvQueue, NEW name, Receive(queue, name), initialised[queue] =>
         initialised'[queue]
  PROVE  \A i \in DOMAIN inbox'[queue] :
           inbox'[queue][i].name = "SimTimeChanged" => initialised'[queue]
<1>1. \A i \in DOMAIN inbox'[queue] :
        i + 1 \in DOMAIN inbox[queue] /\ inbox'[queue][i] = inbox[queue][i + 1]
  BY ReceivedEvents DEF TypeOK
<1> QED
  BY <1>1 DEF InvQueue

(* The queue's own steps.                                                  *)
LEMMA QueueHandled ==
  ASSUME IInv, InvQueue, QueueHandles
  PROVE  InvQueue'
<1> DEFINE t == Head(inbox[queue]).timestamp
<1>0. TypeOK /\ queue \in Models
  BY DEF IInv
<1>1. CASE HandleTick(queue) /\ Queue!HandleTick(t)
  <2>1. Receive(queue, "SimTimeChanged") /\ UNCHANGED <<initialised, phase, loads>>
    BY <1>1 DEF HandleTick, Queue!HandleTick
  <2> QED
    BY <1>0, <2>1, QueueReceived DEF InvQueue
<1>2. CASE HandleEnd(queue) /\ Queue!HandleEnd(t)
  <2>1. Receive(queue, "End") /\ phase' = "ended" /\ UNCHANGED <<initialised, loads>>
    BY <1>2 DEF HandleEnd, Queue!HandleEnd
  <2> QED
    BY <1>0, <2>1, QueueReceived DEF InvQueue
<1>3. CASE HandleSaveState(queue) /\ Queue!saveState(t)
  <2>1. Receive(queue, "SaveState") /\ UNCHANGED <<initialised, phase, loads>>
    BY <1>3 DEF HandleSaveState, Queue!saveState
  <2> QED
    BY <1>0, <2>1, QueueReceived DEF InvQueue
<1>4. CASE HandleLoadState(queue) /\ Queue!loadState(t)
  <2>1. /\ Receive(queue, "LoadState") /\ phase' = "loading" /\ loads' = loads + 1
        /\ initialised'[queue]
    BY <1>0, <1>4 DEF HandleLoadState, Queue!loadState, TypeOK, ModelTypeOK
  <2>2. ~initialised[queue]
    BY <1>0, <2>1, RequestReceived DEF StateTopics
  <2> QED
    BY <1>0, <2>1, <2>2, QueueReceived DEF InvQueue
<1>5. CASE \/ QueueDies("SaveState") /\ Queue!saveStateThrows(t)
           \/ QueueDies("LoadState") /\ Queue!loadStateThrows(t)
  <2>1. /\ \E name : Receive(queue, name)
        /\ phase' = "dead" /\ UNCHANGED <<initialised, loads>>
    BY <1>5 DEF QueueDies, Queue!saveStateThrows, Queue!loadStateThrows
  <2> QED
    BY <1>0, <2>1, QueueReceived DEF InvQueue
<1> QED
  BY <1>1, <1>2, <1>3, <1>4, <1>5 DEF QueueHandles

(* Every step of the system keeps this.                                    *)
LEMMA QueueNext ==
  ASSUME IInv, InvQueue, [SystemNext]_systemVars
  PROVE  InvQueue'
<1>0. TypeOK /\ queue \in Models
  BY DEF IInv
<1>1. CASE Simulation
  BY <1>1, QueuePublish DEF Simulation, SimProcess
<1>2. CASE QueueHandles
  BY <1>2, QueueHandled
<1>3. CASE QueueHandlesAgain \/ QueueInit
  <2>1. UNCHANGED <<initialised, inbox, loads>>
    BY <1>3 DEF QueueHandlesAgain, QueueInit, Queue!HandleTick, Queue!init, vars, modelVars,
                busVars
  <2>2. phase' = phase \/ (phase = "loading" /\ phase' = "running")
    BY <1>3 DEF QueueHandlesAgain, QueueInit, Queue!HandleTick, Queue!init
  <2> QED
    BY <2>1, <2>2 DEF InvQueue
<1>4. CASE \/ Server \/ Signals \/ QueueWaits \/ UNCHANGED systemVars
           \/ \E m \in Models : OtherModel(m)
  <2>1. UNCHANGED <<initialised[queue], dataVars>>
    BY <1>0, <1>4, OthersStutter
  <2>2. inbox'[queue] = inbox[queue]
    BY <1>0, <1>4 DEF Server, Signals, ServerProcess, ServerStop, Signal, Interrupt,
       SimDies, QueueWaits, OtherModel, ModelProcess, Waits, Prepare, SubscriptionArrives,
       Sync, HandleEvent, HandleTick, HandleLoadState, HandleSaveState, HandleEnd,
       HandleOther, Receive, systemVars, vars, busVars, TypeOK, BusTypeOK
  <2> QED
    BY <2>1, <2>2 DEF InvQueue, dataVars
<1> QED
  BY <1>1, <1>2, <1>3, <1>4 DEF SystemNext, QueueProcess

(* Nothing is in the queue when it starts.                                 *)
LEMMA QueueStarts == SystemInit => InvQueue
BY DEF SystemInit, Init, BusInit, ModelInit, Queue!Init, InvQueue

(* The barrier of loading keeps every tick from a queue that has no events *)
(* of its own yet (Queue::handleEvent would handle it).                    *)
THEOREM QueueGuarded ==
  ASSUME "syncFail" \notin Faults
  PROVE  SystemSpec => []InvQueue
<1>1. IInv /\ InvQueue /\ [SystemNext]_systemVars => InvQueue'
  BY QueueNext
<1> QED
  BY <1>1, QueueStarts, SystemInvariant, PTL DEF SystemSpec

(* Handling an event is a step of EventQueue.                              *)
LEMMA HandlesRefines ==
  ASSUME IInv, ClockInv, InvQueue, QueueHandles
  PROVE  Queue!Next
<1> DEFINE t == Head(inbox[queue]).timestamp
<1>0. TypeOK
  BY DEF IInv
<1>1. CASE HandleTick(queue) /\ Queue!HandleTick(t)
  <2>1. t \in Times /\ t >= handled[queue]
    BY <1>0, <1>1, ReceivedTime DEF HandleTick
  <2>2. initialised[queue]
    <3>1. inbox[queue] \in Seq(Event) /\ inbox[queue] # <<>>
            /\ Head(inbox[queue]).name = "SimTimeChanged"
      BY <1>0, <1>1 DEF HandleTick, Receive, TypeOK, BusTypeOK
    <3>2. 1 \in DOMAIN inbox[queue] /\ inbox[queue][1].name = "SimTimeChanged"
      BY <3>1
    <3> QED
      BY <3>2 DEF InvQueue
  <2>3. phase = "running"
    BY <1>1, <2>2 DEF InvQueue, Queue!HandleTick, Queue!Receives
  <2> QED
    BY <1>1, <2>1, <2>3 DEF Queue!Next
<1>2. CASE HandleEnd(queue) /\ Queue!HandleEnd(t)
  <2>1. t \in Times /\ t >= handled[queue]
    BY <1>0, <1>2, ReceivedTime DEF HandleEnd
  <2> QED
    BY <1>2, <2>1 DEF Queue!Next
<1>3. CASE \/ HandleSaveState(queue) /\ Queue!saveState(t)
           \/ QueueDies("SaveState") /\ Queue!saveStateThrows(t)
  <2>1. t \in Cuts /\ t >= handled[queue]
    BY <1>0, <1>3, ReceivedTime DEF HandleSaveState, QueueDies, StateTopics
  <2> QED
    BY <1>3, <2>1 DEF Queue!Next
<1>4. CASE \/ HandleLoadState(queue) /\ Queue!loadState(t)
           \/ QueueDies("LoadState") /\ Queue!loadStateThrows(t)
  <2>1. Receive(queue, "LoadState")
    BY <1>4 DEF HandleLoadState, QueueDies
  <2>2. t \in Cuts /\ t >= handled[queue] /\ ~initialised[queue]
    BY <1>0, <2>1, ReceivedTime, RequestReceived DEF StateTopics
  <2>3. phase = "constructed"
    BY <1>4, <2>2 DEF InvQueue, Queue!loadState, Queue!loadStateThrows, Queue!Receives
  <2> QED
    BY <1>4, <2>2, <2>3 DEF Queue!Next
<1> QED
  BY <1>1, <1>2, <1>3, <1>4 DEF QueueHandles

(* Every step of the simulation is a step of EventQueue or none.           *)
LEMMA StepRefines ==
  ASSUME IInv, ClockInv, InvQueue, [SystemNext]_systemVars
  PROVE  [Queue!Next]_(Queue!queueVars)
<1>0. TypeOK
  BY DEF IInv
<1>1. CASE QueueHandles
  BY <1>1, HandlesRefines
<1>2. CASE QueueInit
  BY <1>2 DEF QueueInit, Queue!Next
<1>3. CASE QueueHandlesAgain
  BY <1>3 DEF QueueHandlesAgain, Queue!Next, Queue!HandleAgain
<1>4. CASE UNCHANGED <<handled[queue], dataVars>>
  BY <1>4 DEF dataVars, Queue!queueVars
<1> QED
  BY <1>0, <1>1, <1>2, <1>3, <1>4, OthersStutter DEF SystemNext, QueueProcess

(* Whatever the order of the steps of the system, the queue sees what      *)
(* EventQueue supposes in its Next, although its handlers ask for none of  *)
(* it: ticks only once it is loaded, nothing loaded twice, no time         *)
(* backwards, and no other times than the clock has.                       *)
THEOREM QueueRefines ==
  ASSUME "syncFail" \notin Faults
  PROVE  SystemSpec => QueueSpec
<1>1. SystemInit => Queue!Init
  BY DEF SystemInit
<1>2. IInv /\ ClockInv /\ InvQueue /\ [SystemNext]_systemVars
        => [Queue!Next]_(Queue!queueVars)
  BY StepRefines
<1> QED
  BY <1>1, <1>2, SystemInvariant, SystemTimes, QueueGuarded, PTL
  DEF SystemSpec, QueueSpec, Queue!Spec

-----------------------------------------------------------------------------
(* Savepoints with a queue                                                 *)

(* The queue takes its events like the other models, also if it ends with  *)
(* an exception, so that the last event of each model is known with it,    *)
(* too.                                                                    *)
THEOREM SystemCutInvariant ==
  ASSUME "syncFail" \notin Faults, "slowJoin" \notin Faults
  PROVE  SystemSpec /\ []NoQueueFull => []InvCut
<1>1. IInv /\ ClockInv /\ InvCut /\ NoQueueFull /\ [SystemNext]_systemVars => InvCut'
  <2> SUFFICES ASSUME IInv, ClockInv, InvCut, NoQueueFull, [SystemNext]_systemVars
               PROVE  InvCut'
    OBVIOUS
  <2>1. CASE [Next]_vars
    BY <2>1, CutNext
  <2>2. CASE Throws
    <3>1. \A m \in Persist : CutOf(m)'
      BY <2>2, CutReceive DEF Throws, QueueDies, InvCut, IInv
    <3>2. \A m \in Models : pc'[m] \notin {"prepare", "aborted"} => subscribed'[m]
      BY <2>2 DEF Throws, QueueDies, InvCut, IInv, TypeOK, ModelTypeOK, Receive
    <3> QED
      BY <3>1, <3>2 DEF InvCut
  <2> QED
    BY <2>1, <2>2, StepOrThrow
<1>2. SystemInit => InvCut
  BY CutInit DEF SystemInit
<1> QED
  BY <1>1, <1>2, SystemInvariant, SystemTimes, PTL DEF SystemSpec

(* The queue, too, stores right behind the tick before the savepoint.      *)
THEOREM SystemConsistentCut ==
  ASSUME "syncFail" \notin Faults, "slowJoin" \notin Faults
  PROVE  SystemSpec /\ []NoQueueFull => StoreAtCut
<1> DEFINE Stores ==
      \A m \in Persist : saved'[m] # saved[m] =>
        handled[m] \in {mCurrentSimTime, mCurrentSimTime - SimTimeStep}
          /\ (handled[m] = mCurrentSimTime => mCurrentSimTime \in LoadedTimes \union {0})
<1>1. IInv /\ InvCut /\ [SystemNext]_systemVars => [Stores]_vars
  <2> SUFFICES ASSUME IInv, InvCut, [Next]_vars \/ Throws PROVE [Stores]_vars
    BY StepOrThrow
  <2>1. CASE [Next]_vars
    BY <2>1, StoredAtCut DEF IInv, AtCut
  <2>2. CASE Throws
    BY <2>2 DEF Throws, QueueDies
  <2> QED
    BY <2>1, <2>2
<1> QED
  BY <1>1, SystemCutInvariant, SystemInvariant, PTL DEF SystemSpec, StoreAtCut

(* No savepoint is skipped, with a queue among the models.                 *)
THEOREM SystemNoneSkipped ==
  ASSUME "syncFail" \notin Faults, OnGrid
  PROVE  SystemSpec => SavepointNotSkipped
<1> DEFINE A == Ticked => \A s \in Savepoints, m \in Persist :
                  mCurrentSimTime <= s /\ s < mCurrentSimTime' => s \in saved[m]
<1>1. SystemInit => InvGrid
  BY DEF SystemInit, Init, SimInit, InvGrid
<1>2. TypeOK /\ ClockInv /\ InvGrid /\ [SystemNext]_systemVars => InvGrid'
  <2> SUFFICES ASSUME TypeOK, ClockInv, InvGrid, [Next]_vars \/ Throws PROVE InvGrid'
    BY StepOrThrow
  <2>1. CASE [Next]_vars
    BY <2>1, GridNext DEF ClockInv
  <2>2. CASE Throws
    BY <2>2 DEF Throws, QueueDies, simVars, InvGrid
  <2> QED
    BY <2>1, <2>2
<1>3. IInv /\ ClockInv /\ InvGrid /\ [SystemNext]_systemVars => [A]_vars
  <2> SUFFICES ASSUME IInv, ClockInv, InvGrid, [Next]_vars \/ Throws PROVE [A]_vars
    BY StepOrThrow
  <2>1. CASE [Next]_vars
    BY <2>1, TickSkipsNone
  <2>2. CASE Throws
    BY <2>2 DEF Throws, QueueDies, simVars, Ticked
  <2> QED
    BY <2>1, <2>2
<1> QED
  BY <1>1, <1>2, <1>3, SystemInvariant, SystemTimes, PTL
  DEF SystemSpec, SavepointNotSkipped

-----------------------------------------------------------------------------
(* The theorems about EventQueue                                           *)

Facts == INSTANCE EventQueue_proofs WITH clock <- handled[queue]

(* The parameters of the system are as EventQueue supposes.                *)
LEMMA FactsApply == Facts!QueueAssumption
<1>1. Cuts \subseteq Times
  BY DEF Cuts, Times
<1> QED
  BY <1>1, QueueParameters DEF Facts!QueueAssumption

(* The theorems are about the same specification.                          *)
LEMMA SameSpec == QueueSpec => Facts!Spec
<1>1. Queue!Init => Facts!Init
  BY DEF Queue!Init, Facts!Init, Queue!LocalReq, Facts!LocalReq
<1>2. [Queue!Next]_(Queue!queueVars) => [Facts!Next]_(Facts!queueVars)
  BY DEF Queue!Next, Facts!Next, Queue!queueVars, Facts!queueVars,
         Queue!HandleTick, Facts!HandleTick, Queue!HandleEnd, Facts!HandleEnd,
         Queue!saveState, Facts!saveState, Queue!loadState, Facts!loadState,
         Queue!saveStateThrows, Facts!saveStateThrows,
         Queue!loadStateThrows, Facts!loadStateThrows, Queue!init, Facts!init,
         Queue!HandleAgain, Facts!HandleAgain, Queue!Receives, Facts!Receives,
         Queue!Restart, Facts!Restart, Queue!Due, Facts!Due, Queue!back, Facts!back,
         Queue!AllBut, Facts!AllBut, Queue!PassedOver, Facts!PassedOver,
         Queue!updateEvents, Facts!updateEvents, Queue!Repeated, Facts!Repeated,
         Queue!ViaInt, Facts!ViaInt,
         Queue!Fewer, Facts!Fewer, Queue!Scheduled, Facts!Scheduled,
         Queue!Permutes, Facts!Permutes, Queue!Latest, Facts!Latest,
         Queue!LocalReq, Facts!LocalReq
<1> QED
  BY <1>1, <1>2, PTL DEF QueueSpec, Queue!Spec, Facts!Spec

(* What was proved about the queue alone holds for the queue in every      *)
(* simulation, which loads its state once at most: its events are          *)
(* published when they are due, in their order and not more often than two *)
(* in a period, as long as the next time fits into an int.                 *)
THEOREM QueueInSystem ==
  ASSUME "syncFail" \notin Faults
  PROVE  SystemSpec => [](Queue!NoStarvation /\ Queue!Spacing /\ Queue!DueOrder)
<1>1. Facts!Spec => []Facts!IInv
  BY FactsApply, Facts!QueueInvariant
<1>2. InvQueue => loads <= 1
  BY DEF InvQueue
<1>3. Facts!IInv /\ loads <= 1 => Queue!NoStarvation /\ Queue!Spacing /\ Queue!DueOrder
  <2>1. Facts!Fits <=> Queue!Fits
    BY DEF Facts!Fits, Queue!Fits
  <2>2. Facts!IInv /\ loads <= 1 => Facts!NoStarvation /\ Facts!Spacing /\ Facts!DueOrder
    BY DEF Facts!IInv, Facts!InvOnce, Facts!NoStarvation, Facts!Spacing
  <2> QED
    BY <2>1, <2>2 DEF Facts!NoStarvation, Queue!NoStarvation, Facts!Spacing,
       Queue!Spacing, Facts!DueOrder, Queue!DueOrder
<1> QED
  BY <1>1, <1>2, <1>3, QueueRefines, QueueGuarded, SameSpec, PTL

=============================================================================
