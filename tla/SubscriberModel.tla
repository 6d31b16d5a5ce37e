--------------------------- MODULE SubscriberModel ---------------------------
(***************************************************************************)
(* The life of a model that follows the clock: RouterAdapter,              *)
(* ProcessingElement and SystemcAdapter.  The constructor runs prepare(),  *)
(* which asks the configuration server, subscribes, and waits in           *)
(* synchronizeSub; run() then handles one event at a time until End comes  *)
(* or foundCriticalSimCycle (fraser library: any outcome) says so.         *)
(* What a model computes on a tick is in the modules of its own class;     *)
(* here a tick only moves the model's clock.                               *)
(***************************************************************************)
EXTENDS SimulationModel

CONSTANTS
  Peers,  \* the models that publish flits and credits to one another
  Word    \* 2^32: their fields for the time have 32 bits

ASSUME PeersAssumption == Peers \subseteq Models /\ Word \in Nat \ {0}

VARIABLES
  pc,           \* pc[m]: where model m is in its constructor and in run()
  simTime,      \* simTime[m]: its mCurrentSimTime
  handled,      \* handled[m]: timestamp of its last event of simulation_model
  stamps,       \* the timestamps that the models' own events may carry
  initialised,  \* initialised[m]: its loadState has called init()
  saved,        \* saved[m]: timestamps for which its saveState was executed
  failed        \* <<m, name, t>>: the archive of that request has thrown

modelVars == <<pc, simTime, handled, stamps, initialised, saved, failed>>

ModelPcs == Barriers \union {"prepare", "aborted", "run", "exited"}

(* The models that have been through prepare().                            *)
Prepared == {m \in Models : pc[m] \notin {"prepare", "prepSync", "aborted"}}

(* The fields were read from the file, and the file was written.           *)
Restored(m)  == initialised[m] /\ \A f \in failed : f[1] = m => f[2] # "LoadState"
Stored(m, t) == t \in saved[m] /\ <<m, "SaveState", t>> \notin failed

ModelInit ==
  /\ pc = [m \in Models |-> "prepare"]
  /\ simTime = [m \in Models |-> 0]
  /\ handled = [m \in Models |-> 0]
  /\ stamps = {0}
  /\ initialised = [m \in Models |-> FALSE]
  /\ saved = [m \in Models |-> {}]
  /\ failed = {}

ModelTypeOK ==
  /\ pc \in [Models -> ModelPcs]
  /\ simTime \in [Models -> Nat]
  /\ handled \in [Models -> Nat]
  /\ stamps \subseteq Nat
  /\ initialised \in [Models -> BOOLEAN]
  /\ saved \in [Models -> SUBSET Nat]
  /\ failed \subseteq Models \X StateTopics \X Nat

-----------------------------------------------------------------------------

(* prepare() up to the request of synchronizeSub.  The questions to the    *)
(* configuration server block until it answers.  When the publisher cannot *)
(* bind its port the constructor gives up and the process ends.            *)
Prepare(m) ==
  /\ pc[m] = "prepare"
  /\ server # "stopped"
  /\ \/ /\ pc' = [pc EXCEPT ![m] = "prepSync"]
        /\ subscribed' = [subscribed EXCEPT ![m] = "slowJoin" \notin Faults]
     \/ /\ "bind" \in Faults
        /\ pc' = [pc EXCEPT ![m] = "aborted"]
        /\ UNCHANGED subscribed
  /\ UNCHANGED <<simVars, inbox, simTime, handled, stamps, initialised, saved, failed>>

(* subscribeTo only queues the subscription; with slow joiners it reaches  *)
(* the publisher at some later time.                                       *)
SubscriptionArrives(m) ==
  /\ pc[m] \notin {"prepare", "aborted"}
  /\ ~subscribed[m]
  /\ subscribed' = [subscribed EXCEPT ![m] = TRUE]
  /\ UNCHANGED <<simVars, inbox, modelVars>>

(* The service of synchronizePub answers one waiting request, whoever sent *)
(* it and in whichever call; the answered model returns to its loop.       *)
Sync(m) ==
  /\ simPc \in Barriers
  /\ syncCount < Expected
  /\ pc[m] \in Barriers
  /\ syncCount' = syncCount + 1
  /\ pc' = [pc EXCEPT ![m] = "run"]
  /\ UNCHANGED <<simPc, modes, mCurrentSimTime, interruptOccured, server, busVars,
                 simTime, handled, stamps, initialised, saved, failed>>

-----------------------------------------------------------------------------
(* run() and handleEvent()                                                 *)

(* The clock of a model after an event with timestamp t.  The event queue  *)
(* has 64 bits for it.  (ProcessingElement reads its 32 as a signed int.)  *)
Clock(m, t) == IF m \in Peers THEN t % Word ELSE t

(* What a model may publish when its clock has come to t: a flit or credit *)
(* with that time, the event queue an event that was due at some time.     *)
Stamps(m, t) == IF m \in Peers THEN {Clock(m, t)} ELSE 0 .. t

(* Every event of whatever topic sets the clock of the model.              *)
Receive(m, name) ==
  /\ pc[m] = "run"
  /\ inbox[m] # <<>>
  /\ Head(inbox[m]).name = name
  /\ LET t == Head(inbox[m]).timestamp IN
       /\ handled' = [handled EXCEPT ![m] = t]
       /\ simTime' = [simTime EXCEPT ![m] = Clock(m, t)]
       /\ stamps' = stamps \union Stamps(m, t)
  /\ inbox' = [inbox EXCEPT ![m] = Tail(@)]

(* A flit, a credit or an event of the queue, from a publisher that may be *)
(* behind: its timestamp is what was some model's clock some time ago.     *)
(* What it does to a router or an element is in the modules of the network.*)
HandleOther(m) ==
  /\ m \in Peers
  /\ pc[m] = "run"
  /\ \E t \in stamps : simTime' = [simTime EXCEPT ![m] = Clock(m, t)]
  /\ \/ UNCHANGED pc
     \/ "critical" \in Faults /\ pc' = [pc EXCEPT ![m] = "exited"]
  /\ UNCHANGED <<simVars, busVars, handled, stamps, initialised, saved, failed>>

HandleTick(m) ==
  /\ Receive(m, "SimTimeChanged")
  /\ \/ UNCHANGED pc
     \/ "critical" \in Faults /\ pc' = [pc EXCEPT ![m] = "exited"]
  /\ UNCHANGED <<simVars, subscribed, initialised, saved, failed>>

(* The archive throws; the exception is printed, and the method goes on.   *)
ArchiveThrows(m) ==
  LET ev == Head(inbox[m]) IN
  /\ "archive" \in Faults
  /\ failed' = failed \union {<<m, ev.name, ev.timestamp>>}

(* A bug: loadState synchronises first, init() is still to come.           *)
HandleLoadStateLater(m) ==
  /\ Receive(m, "LoadState")
  /\ pc' = [pc EXCEPT ![m] = "loadSync"]
  /\ UNCHANGED <<simVars, subscribed, initialised, saved, failed>>

(* loadState restores and initialises before it synchronises.  The result  *)
(* of synchronizeSub replaces that of foundCriticalSimCycle in mRun.       *)
HandleLoadState(m) ==
  /\ Receive(m, "LoadState")
  /\ UNCHANGED failed \/ ArchiveThrows(m)
  /\ initialised' = [initialised EXCEPT ![m] = TRUE]
  /\ pc' = [pc EXCEPT ![m] = "loadSync"]
  /\ UNCHANGED <<simVars, subscribed, saved>>

(* A bug: saveState synchronises first, the file is still to be written.   *)
HandleSaveStateLater(m) ==
  /\ Receive(m, "SaveState")
  /\ pc' = [pc EXCEPT ![m] = "saveSync"]
  /\ UNCHANGED <<simVars, subscribed, initialised, saved, failed>>

HandleSaveState(m) ==
  /\ Receive(m, "SaveState")
  /\ UNCHANGED failed \/ ArchiveThrows(m)
  /\ saved' = [saved EXCEPT ![m] = @ \union {Head(inbox[m]).timestamp}]
  /\ pc' = [pc EXCEPT ![m] = "saveSync"]
  /\ UNCHANGED <<simVars, subscribed, initialised>>

HandleEnd(m) ==
  /\ Receive(m, "End")
  /\ pc' = [pc EXCEPT ![m] = "exited"]
  /\ UNCHANGED <<simVars, subscribed, initialised, saved, failed>>

(* A signal makes a blocking receive throw, in receiveEvent or in          *)
(* synchronizeSub; main() catches it and returns, or the process dies in   *)
(* its constructor.  A request it had sent may still be counted: that is   *)
(* Sync followed by this action.                                           *)
InterruptModel(m) ==
  /\ "interrupt" \in Faults
  /\ pc[m] \in Barriers \union {"run"}
  /\ pc' = [pc EXCEPT ![m] = IF @ = "prepSync" THEN "aborted" ELSE "exited"]
  /\ UNCHANGED <<simVars, busVars, simTime, handled, stamps, initialised, saved, failed>>

HandleEvent(m) ==
  \/ HandleTick(m)
  \/ HandleLoadState(m)
  \/ HandleSaveState(m)
  \/ HandleEnd(m)
  \/ HandleOther(m)

=============================================================================
