-------------------------- MODULE SimulationSystem --------------------------
(***************************************************************************)
(* The simulation model, the models that follow it and the configuration   *)
(* server as one system, with the properties of its start and of its       *)
(* restoring and storing of the state.                                     *)
(***************************************************************************)
EXTENDS SubscriberModel

VARIABLE simDied   \* a signal has ended the simulation model while it waited

vars == <<simVars, busVars, modelVars, simDied>>

Init == SimInit /\ BusInit /\ ModelInit /\ simDied = FALSE

SimProcess    == ~simDied /\ SimStep /\ UNCHANGED <<modelVars, simDied>>
ServerProcess == ServerStop /\ UNCHANGED <<modelVars, simDied>>
Signal        == Interrupt /\ UNCHANGED <<modelVars, simDied>>

(* A signal makes the receive of synchronizePub throw, too, but this main  *)
(* catches nothing: the process is gone, and with it its service.          *)
SimDies ==
  /\ "simInterrupt" \in Faults
  /\ simPc \in Barriers \union {"unbound"}
  /\ ~simDied
  /\ simDied' = TRUE
  /\ interruptOccured' = TRUE
  /\ UNCHANGED <<simPc, modes, mCurrentSimTime, syncCount, server, busVars, modelVars>>

(* prepare(), and the answers that synchronizeSub waits for.               *)
Waits(m) ==
  \/ Prepare(m)
  \/ SubscriptionArrives(m)
  \/ ~simDied /\ Sync(m)

ModelProcess(m) == (Waits(m) \/ HandleEvent(m)) /\ UNCHANGED simDied

ModelSignal(m) == InterruptModel(m) /\ UNCHANGED simDied

Next ==
  \/ SimProcess
  \/ ServerProcess
  \/ Signal
  \/ SimDies
  \/ \E m \in Models : ModelProcess(m) \/ ModelSignal(m)

Spec == Init /\ [][Next]_vars

TypeOK == SimTypeOK /\ BusTypeOK /\ ModelTypeOK /\ simDied \in BOOLEAN

-----------------------------------------------------------------------------
(* Safety                                                                  *)

(* The simulation model could not bind its sockets.                        *)
Unbound == {"unbound", "failed"}

(* The requests of synchronizeSub carry no name and no round; still the    *)
(* barrier that is open only ever finds requests made for it: a model that *)
(* waits to start, to have loaded or to have saved waits while the         *)
(* simulation model waits for the same thing (or could not bind its        *)
(* sockets, when there is nobody to count).                                *)
RoundsMatch == \A m \in Models : pc[m] \in Barriers =>
  \/ pc[m] = simPc
  \/ pc[m] = "prepSync" /\ simPc \in Unbound

(* The configuration server is told to end only when no model still has to *)
(* ask it for ports, addresses and parameters in prepare().  The one       *)
(* exception is a simulation model that could not bind its own sockets: it *)
(* stops the server at once, whoever still has to ask, and no other        *)
(* failure of whatever process does.                                       *)
ServerOutlivesPrepare ==
  server # "serving" => Prepared = Models \/ simPc = "failed"

Ticked == simPc' = "check" /\ simPc # "check"

(* "the simulation has to wait until the other models finished their       *)
(* Restore-method" (loadState): no tick is published before every          *)
(* persistent model has read its fields, or has caught the exception of    *)
(* its archive, and has initialised itself with what it then has.          *)
TickAfterRestore ==
  [][Ticked => \A m \in Persist :
       \/ Restored(m)
       \/ "archive" \in Faults /\ initialised[m]]_vars

(* "the simulation has to wait until the other models finished their       *)
(* Store-method" (saveState): the tick of a savepoint is published only    *)
(* after every persistent model has written its state for that savepoint,  *)
(* or has caught the exception of its archive.                             *)
TickAfterStore ==
  [][Ticked /\ mCurrentSimTime \in Savepoints => \A m \in Persist :
       \/ Stored(m, mCurrentSimTime)
       \/ "archive" \in Faults /\ mCurrentSimTime \in saved[m]]_vars

(* A savepoint is a consistent cut of the clock: when a model stores its   *)
(* state it has handled every tick published so far, for the event it had  *)
(* handled last is the previous tick or, at the start time, LoadState      *)
(* (no event at all when the default configuration is created).            *)
StoreAtCut ==
  [][\A m \in Persist : saved'[m] # saved[m] =>
       handled[m] \in {mCurrentSimTime, mCurrentSimTime - SimTimeStep}
         /\ (handled[m] = mCurrentSimTime =>
               mCurrentSimTime \in LoadedTimes \union {0})]_vars

(* "If the simulation reaches a breakpoint (e.g. after 200 time units),    *)
(* the store method of all subscribed models [...] is called": the clock   *)
(* does not move beyond a savepoint at which some model has not stored.    *)
SavepointNotSkipped ==
  [][Ticked => \A s \in Savepoints, m \in Persist :
       mCurrentSimTime <= s /\ s < mCurrentSimTime' => s \in saved[m]]_vars

(* The models that are done with the round for which the simulation model  *)
(* waits.  Every request counted is one of theirs, so that a barrier that  *)
(* counts is as good as one that knows its models by name.                 *)
Done == CASE simPc = "prepSync" -> Prepared
          [] simPc = "loadSync" -> {m \in Persist : initialised[m] /\ pc[m] # "loadSync"}
          [] simPc = "saveSync" -> {m \in Persist : mCurrentSimTime \in saved[m]
                                                     /\ pc[m] # "saveSync"}
          [] OTHER -> {}

CountedAreDone == syncCount <= Cardinality(Done)

(* Before the clock is restored nothing has been published or stored.      *)
InvStart == \A m \in Models :
  /\ simPc \in Unbound \union {"prepSync"} => inbox[m] = <<>>
  /\ simPc \in {"prepSync", "main"} => ~initialised[m]
  /\ simPc \in {"prepSync", "main", "loadSync"} => saved[m] = {}

InvPrepared == simPc \notin Unbound \union {"prepSync"} => Prepared = Models

(* Each model has at most one LoadState and one SaveState to handle, for   *)
(* the barrier that is open, and has not handled it yet.                   *)
InvPending == \A m \in Models : \A i \in DOMAIN inbox[m] :
  inbox[m][i].name \in StateTopics =>
    /\ m \in Persist
    /\ \A j \in DOMAIN inbox[m] : inbox[m][j].name \in StateTopics => j = i
    /\ inbox[m][i].name = "LoadState" => simPc = "loadSync" /\ ~initialised[m]
    /\ inbox[m][i].name = "SaveState" =>
         /\ simPc = "saveSync"
         /\ inbox[m][i].timestamp = mCurrentSimTime
         /\ mCurrentSimTime \notin saved[m]

(* A waiting model has done what it waits for.                             *)
InvWaiting == \A m \in Models :
  /\ pc[m] = "loadSync" => m \in Persist /\ initialised[m]
  /\ pc[m] = "saveSync" => m \in Persist /\ mCurrentSimTime \in saved[m]

(* Nobody has stored a time that the clock has not reached, nor the        *)
(* present one unless its barrier was opened.                              *)
InvStored == \A m \in Models : \A t \in saved[m] :
  /\ t <= mCurrentSimTime
  /\ simPc \in {"loop", "check"} => t < mCurrentSimTime

InvRunning ==
  /\ simPc \in {"loadSync", "loop", "tick", "check"} => ~mConfigMode
  /\ simPc \in {"loop", "tick", "check", "saveSync"} /\ ~mConfigMode =>
        \A m \in Persist : initialised[m]
  /\ simPc = "saveSync" /\ ~mConfigMode => mCurrentSimTime \in Savepoints
  /\ simPc = "tick" => \A m \in Persist : mCurrentSimTime \in saved[m]
  /\ server # "serving" => simPc \in {"done", "failed"}
  /\ failed # {} => "archive" \in Faults

(* The inductive invariant behind the theorems.                            *)
IInv ==
  /\ TypeOK
  /\ RoundsMatch
  /\ CountedAreDone
  /\ InvStart
  /\ InvPrepared
  /\ InvPending
  /\ InvWaiting
  /\ InvStored
  /\ InvRunning

-----------------------------------------------------------------------------
(* The times of the events                                                 *)

(* All the times that the clock can show.                                  *)
ClockTimes == LoadedTimes \union 0 .. (SimTime + SimTimeStep)

(* Whatever is dropped and whoever is late: the events of the simulation   *)
(* model are handled in the order of their timestamps, and no clock of a   *)
(* model, nor any flit or credit, is ever ahead of the simulation time.    *)
(* (A model's own clock does go back, when a flit or credit comes from a   *)
(* model that is behind: nothing is claimed about that.)                   *)
InOrderOfTime == \A m \in Models :
  /\ simTime[m] <= mCurrentSimTime
  /\ \A t \in stamps : t <= mCurrentSimTime
  /\ handled[m] <= mCurrentSimTime
  /\ \A i \in DOMAIN inbox[m] :
       /\ handled[m] <= inbox[m][i].timestamp
       /\ inbox[m][i].timestamp <= mCurrentSimTime
       /\ \A j \in i .. Len(inbox[m]) : inbox[m][i].timestamp <= inbox[m][j].timestamp

(* The clock only shows its times, and savepoints lie before its end.      *)
InvTimes ==
  /\ mCurrentSimTime \in ClockTimes
  /\ simPc = "tick" \/ (simPc = "saveSync" /\ ~mConfigMode) =>
       mCurrentSimTime <= SimTime
  /\ simPc \in {"prepSync", "main", "invalid"} \union Unbound \/ mConfigMode =>
       mCurrentSimTime = 0
  /\ simPc \in {"loadSync", "loop", "tick", "check"} => ~mConfigMode

(* What is loaded was created or stored, and what is stored was asked for. *)
InvEvents == \A m \in Models : \A i \in DOMAIN inbox[m] :
  LET ev == inbox[m][i] IN
  /\ ev.timestamp \in ClockTimes
  /\ ev.name = "LoadState" => ev.timestamp \in LoadedTimes
  /\ ev.name = "SaveState" => ev.timestamp \in Savepoints \union {0}

ClockInv == InOrderOfTime /\ InvTimes /\ InvEvents

(* No queue of a model is full: the condition under which nothing is lost. *)
NoQueueFull == \A m \in Models : Len(inbox[m]) < HighWaterMark

(* The time of the last event that a model has handled or will handle.     *)
LastTime(m) == IF inbox[m] = <<>> THEN handled[m]
                                  ELSE inbox[m][Len(inbox[m])].timestamp

(* The event before the request to store: the last tick, or the start.     *)
AtCut(t) == /\ t \in {mCurrentSimTime, mCurrentSimTime - SimTimeStep}
            /\ t = mCurrentSimTime => mCurrentSimTime \in LoadedTimes \union {0}

(* What makes a savepoint a consistent cut as long as nothing is lost: the *)
(* last event of every queue is known in each state of the clock, and the  *)
(* request to store comes last, behind the tick before it.                 *)
CutOf(m) ==
  /\ simPc \in {"prepSync", "main"} => inbox[m] = <<>> /\ handled[m] = 0
  /\ simPc \in {"loadSync", "loop"} => AtCut(LastTime(m))
  /\ simPc = "check" => LastTime(m) = mCurrentSimTime - SimTimeStep
  /\ \A i \in DOMAIN inbox[m] : inbox[m][i].name = "SaveState" =>
       /\ i = Len(inbox[m])
       /\ AtCut(IF i = 1 THEN handled[m] ELSE inbox[m][i - 1].timestamp)

InvCut ==
  /\ \A m \in Models : pc[m] \notin {"prepare", "aborted"} => subscribed[m]
  /\ \A m \in Persist : CutOf(m)

(* Each start time and each savepoint behind it are a number of steps      *)
(* apart.                                                                  *)
OnGrid == \A t \in LoadedTimes, s \in Savepoints :
            s >= t => (s - t) % SimTimeStep = 0

(* The clock only shows times that are a number of steps from its start.   *)
InvGrid ==
  simPc \notin {"prepSync", "main", "invalid"} \union Unbound /\ ~mConfigMode =>
    \E t \in LoadedTimes : /\ t <= mCurrentSimTime
                           /\ (mCurrentSimTime - t) % SimTimeStep = 0

-----------------------------------------------------------------------------
(* The abstract specification, by a refinement mapping                     *)

(* What has been executed counts, with or without an exception.            *)
Phase == CASE simPc = "prepSync" -> "configure"
           [] simPc = "main" -> "idle"
           [] simPc = "loadSync" -> "restore"
           [] simPc \in {"loop", "tick", "check"} -> "run"
           [] simPc = "saveSync" -> IF mConfigMode THEN "create" ELSE "run"
           [] OTHER -> "stopped"

Lockstep == INSTANCE LockstepSimulation WITH
  StartTimes <- LoadedTimes,
  phase      <- Phase,
  time       <- mCurrentSimTime,
  configured <- Prepared,
  restored   <- {m \in Persist : initialised[m]},
  stored     <- [m \in Persist |-> saved[m]]

(* The counting barrier over lossy publish/subscribe implements the lock   *)
(* step of LockstepSimulation.                                             *)
LockstepSpec == Lockstep!Spec

=============================================================================
