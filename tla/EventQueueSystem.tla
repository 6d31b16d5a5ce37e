-------------------------- MODULE EventQueueSystem --------------------------
(***************************************************************************)
(* The event queue in a simulation: its life is that of the other models   *)
(* (SubscriberModel), except that loadState synchronises before its last   *)
(* statement, init().  One run, which creates the configuration files or   *)
(* loads one of those that are there, from its start to its end.  Signals  *)
(* to single models are left to SimulationSystem: after one of them the    *)
(* others wait for ever.                                                   *)
(***************************************************************************)
EXTENDS SimulationSystem

CONSTANTS queue, FirstTime, Period, Repeat, HalfInt, Long, MaxLoads

VARIABLES phase, mEventSet, file, published, buffer, loads

Cuts  == Savepoints \union LoadedTimes
Times == Cuts \union 0 .. (SimTime + SimTimeStep)

Queue == INSTANCE EventQueue WITH clock <- handled[queue]

ASSUME QueueIsPersistent == queue \in Persist \ Peers /\ 0 \in StartTimes

(* What EventQueue supposes of its constants.                              *)
ASSUME QueueParameters ==
  /\ HalfInt \in Nat \ {0}
  /\ Long \in Nat
  /\ 2 * HalfInt <= Long
  /\ FirstTime \in Nat
  /\ Period \in Nat \ {0}
  /\ Repeat \in Nat \union {-1}
  /\ MaxLoads \in Nat \ {0}
  /\ Times \subseteq 0 .. Long - 1

dataVars   == <<phase, mEventSet, file, published, buffer, loads>>
systemVars == <<vars, dataVars>>

SystemInit == Init /\ Queue!Init

Simulation    == SimProcess /\ UNCHANGED dataVars
Server        == ServerProcess /\ UNCHANGED dataVars
Signals       == (Signal \/ SimDies) /\ UNCHANGED dataVars
OtherModel(m) == m # queue /\ ModelProcess(m) /\ UNCHANGED dataVars

QueueWaits == Waits(queue) /\ UNCHANGED <<simDied, dataVars>>

(* Its exceptions are not caught: they end the process.                    *)
QueueDies(name) ==
  /\ Receive(queue, name)
  /\ pc' = [pc EXCEPT ![queue] = "exited"]
  /\ UNCHANGED <<simVars, subscribed, initialised, saved, failed>>

(* handleEvent: whatever comes is handled; the handlers of EventQueue do   *)
(* not ask whether it may come now.                                        *)
QueueHandles ==
  LET t == Head(inbox[queue]).timestamp IN
  /\ \/ HandleTick(queue) /\ Queue!HandleTick(t)
     \/ HandleSaveState(queue) /\ UNCHANGED failed /\ Queue!saveState(t)
     \/ HandleLoadState(queue) /\ UNCHANGED failed /\ Queue!loadState(t)
     \/ QueueDies("SaveState") /\ "archive" \in Faults /\ Queue!saveStateThrows(t)
     \/ QueueDies("LoadState") /\ Queue!loadStateThrows(t)
     \/ HandleEnd(queue) /\ Queue!HandleEnd(t)
  /\ UNCHANGED simDied

(* receiveEvent has failed, and the tick in the buffer is handled again.   *)
(* (A request in the buffer is left to EventQueue: saveState or loadState  *)
(* would send one more request, which is answered when a barrier is open.) *)
QueueHandlesAgain ==
  /\ "stale" \in Faults
  /\ pc[queue] = "run"
  /\ buffer = "SimTimeChanged"
  /\ UNCHANGED vars
  /\ Queue!HandleTick(handled[queue])

QueueInit == pc[queue] = "run" /\ UNCHANGED vars /\ Queue!init

QueueProcess == QueueWaits \/ QueueHandles \/ QueueInit

SystemNext ==
  \/ Simulation \/ Server \/ Signals
  \/ QueueProcess \/ QueueHandlesAgain
  \/ \E m \in Models : OtherModel(m)

SystemSpec == SystemInit /\ [][SystemNext]_systemVars

(* Every process is scheduled again and again by its operating system, and *)
(* every connection makes progress.  Signals and failures are not owed.    *)
SystemFairSpec ==
  /\ SystemSpec
  /\ WF_systemVars(Simulation)
  /\ WF_systemVars(Server)
  /\ WF_systemVars(QueueProcess)
  /\ \A m \in Models : WF_systemVars(OtherModel(m))

-----------------------------------------------------------------------------

(* The queue only sees what EventQueue supposes: no tick comes before the  *)
(* state is loaded and init() has added its event, although nothing in the *)
(* queue would keep it from being handled; nothing is loaded for a second  *)
(* time; and the times do not go back.                                     *)
QueueSpec == Queue!Spec

(* What "Stop all running models and the dns server" (stopSim) cannot      *)
(* reach: a signal that the simulation model catches in synchronizePub     *)
(* ends it at once; when the queue cannot read or write its file the       *)
(* simulation model waits for it; and with an invalid option main()        *)
(* returns without stopSim when it has started everybody.                  *)
CutShort == simDied \/ phase = "dead" \/ simPc = "invalid"

(* "Stop all running models and the dns server" (stopSim): every           *)
(* simulation that is not cut short comes to its end, by the clock or by a *)
(* signal, and with it every model and the configuration server.           *)
EverythingStops ==
  <>(CutShort \/ (simPc = "done" /\ server = "stopped"
                    /\ \A m \in Models : pc[m] = "exited"))

(* When the last tick comes late enough, every repetition of both events   *)
(* is published in every run that loads a configuration and is neither     *)
(* interrupted nor ended by an exception of the queue's archive.           *)
AllPublished ==
  (phase = "running") ~>
    (interruptOccured \/ phase = "dead" \/ (phase = "ended" /\ mEventSet = <<>>
                            /\ Len(published) = 2 * (Repeat + 1)))

=============================================================================
