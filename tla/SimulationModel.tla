--------------------------- MODULE SimulationModel ---------------------------
(***************************************************************************)
(* models/simulation_model: the process that owns the simulation clock.    *)
(* Its constructor waits for every other model (prepare); main then either *)
(* creates the default configuration files (saveState in config mode) or   *)
(* restores a configuration (loadState) and runs the clock (run).  Every   *)
(* wait is a call of Publisher::synchronizePub, which counts anonymous     *)
(* requests until as many have come as the caller expects.                 *)
(*                                                                         *)
(* run() keeps the clock in a local currentSimTime and copies it to the    *)
(* field mCurrentSimTime at the end of every cycle; the two differ only    *)
(* inside a step of this module, which therefore keeps one variable.       *)
(***************************************************************************)
EXTENDS EventBus

CONSTANTS
  SimTimeStep,  \* mSimTimeStep
  SimTime,      \* mSimTime: the last simulation time that is published
  Savepoints,   \* mSavepoints
  StartTimes    \* values of CurrentSimTime in the configurations to restore

ASSUME ClockAssumption ==
  /\ SimTimeStep \in Nat \ {0}
  /\ SimTime \in Nat
  /\ Savepoints \subseteq Nat
  /\ StartTimes \subseteq Nat

VARIABLES
  simPc,             \* where the simulation model is in main() and run()
  mRun, mPause, mConfigMode, mCurrentSimTime,
  syncCount,         \* requests counted by the synchronizePub in progress
  interruptOccured,  \* set by the signal handler
  server             \* the configuration server: "serving", "ending", "stopped"

modes   == <<mRun, mPause, mConfigMode>>
simVars == <<simPc, modes, mCurrentSimTime, syncCount, interruptOccured, server>>

Barriers == {"prepSync", "loadSync", "saveSync"}
Over     == {"done", "failed", "invalid"}   \* the process has ended
SimPcs   == Barriers \union Over \union
              {"unbound", "main", "loop", "tick", "check", "stop"}

SimInit ==
  /\ simPc = "prepSync"
  /\ mRun = TRUE
  /\ mPause = FALSE
  /\ mConfigMode \in BOOLEAN
  /\ mCurrentSimTime = 0
  /\ syncCount = 0
  /\ interruptOccured = FALSE
  /\ server = "serving"

SimTypeOK ==
  /\ simPc \in SimPcs
  /\ mRun \in BOOLEAN
  /\ mPause \in BOOLEAN
  /\ mConfigMode \in BOOLEAN
  /\ mCurrentSimTime \in Nat
  /\ syncCount \in Nat
  /\ interruptOccured \in BOOLEAN
  /\ server \in {"serving", "ending", "stopped"}

-----------------------------------------------------------------------------
(* Publisher::synchronizePub                                               *)

(* A bug: the configuration server is left out of the answer.              *)
mTotalNumOfModelsTooFew == Cardinality(Models) + 1

(* What the configuration server answers: the <Model> elements of the      *)
(* hosts file, simulation_model and configuration_server among them, and   *)
(* the persistent ones, simulation_model among them.                       *)
mTotalNumOfModels   == Cardinality(Models) + 2
mNumOfPersistModels == Cardinality(Persist) + 1

(* A bug: the barriers of loading and saving open one request too early.   *)
ExpectedTooFew == IF simPc = "prepSync" THEN mTotalNumOfModels - 2
                                        ELSE mNumOfPersistModels - 2

Expected == IF simPc = "prepSync" THEN mTotalNumOfModels - 2
                                  ELSE mNumOfPersistModels - 1

(* It returns true once the expected number of requests was counted, and   *)
(* may return false before that when it fails.                             *)
SyncResults == {ok \in BOOLEAN : IF ok THEN syncCount = Expected
                                       ELSE "syncFail" \in Faults}

-----------------------------------------------------------------------------
(* The steps of main(), loadState(), saveState(), run() and stopSim()      *)

PrepareDone ==
  /\ simPc = "prepSync"
  /\ mRun' \in SyncResults
  /\ simPc' = "main"
  /\ syncCount' = 0
  /\ UNCHANGED <<mPause, mConfigMode, mCurrentSimTime, interruptOccured,
                 server, busVars>>

(* It cannot bind one of its sockets: the constructor notes it in mRun,    *)
(* and main() goes on.                                                     *)
PrepareFails ==
  /\ simPc = "prepSync"
  /\ syncCount = 0
  /\ "bind" \in Faults
  /\ mRun' = FALSE
  /\ simPc' = "unbound"
  /\ UNCHANGED <<mPause, mConfigMode, mCurrentSimTime, syncCount,
                 interruptOccured, server, busVars>>

(* Then loadState or saveState publishes its request to nobody who could   *)
(* handle it, and synchronises on a socket that may not be there; when it  *)
(* returns, run() skips its loop, and stopSim reaches the configuration    *)
(* server only.  With an invalid option main() does none of this.          *)
GiveUp ==
  /\ simPc = "unbound"
  /\ simPc' = "failed"
  /\ server' \in {"ending"} \union {s \in {server} : "option" \in Faults}
  /\ UNCHANGED <<modes, mCurrentSimTime, syncCount, interruptOccured, busVars>>

(* The third branch of main(): the option is looked at when the constructor*)
(* has started everybody, and main() returns without stopSim.              *)
InvalidOption ==
  /\ simPc = "main"
  /\ "option" \in Faults
  /\ simPc' = "invalid"
  /\ UNCHANGED <<modes, mCurrentSimTime, syncCount, interruptOccured, server, busVars>>

(* The time to resume at: that of the file; when the archive throws, it is *)
(* caught and the field may still have the value of the constructor.       *)
LoadedTimes == IF "archive" \in Faults THEN StartTimes \union {0} ELSE StartTimes

LoadState ==
  /\ simPc = "main"
  /\ ~mConfigMode
  /\ mPause' = TRUE
  /\ mCurrentSimTime' \in LoadedTimes
  /\ Publish([name |-> "LoadState", timestamp |-> mCurrentSimTime'])
  /\ simPc' = "loadSync"
  /\ UNCHANGED <<mRun, mConfigMode, syncCount, interruptOccured, server,
                 subscribed>>

LoadStateDone ==
  /\ simPc = "loadSync"
  /\ mRun' \in SyncResults
  /\ mPause' = FALSE
  /\ simPc' = IF mRun' THEN "loop" ELSE "stop"
  /\ syncCount' = 0
  /\ UNCHANGED <<mConfigMode, mCurrentSimTime, interruptOccured, server,
                 busVars>>

(* A bug: run() looks for the savepoint of the next tick.                  *)
AtSavepointOfNext == mCurrentSimTime + SimTimeStep \in Savepoints

AtSavepoint == mCurrentSimTime \in Savepoints

InCycle == simPc = "loop" /\ mCurrentSimTime <= SimTime /\ ~mPause

SaveState ==
  /\ \/ simPc = "main" /\ mConfigMode
     \/ InCycle /\ AtSavepoint
  /\ mPause' = TRUE
  /\ Publish([name |-> "SaveState", timestamp |-> mCurrentSimTime])
  /\ simPc' = "saveSync"
  /\ UNCHANGED <<mRun, mConfigMode, mCurrentSimTime, syncCount,
                 interruptOccured, server, subscribed>>

(* In a run the result of the synchronisation is stored in mRun, but the   *)
(* loop of run() does not look at it.                                      *)
SaveStateDone ==
  /\ simPc = "saveSync"
  /\ mRun' \in SyncResults
  /\ mPause' = mConfigMode
  /\ simPc' = IF mConfigMode THEN "stop" ELSE "tick"
  /\ syncCount' = 0
  /\ UNCHANGED <<mConfigMode, mCurrentSimTime, interruptOccured, server,
                 busVars>>

PublishTick ==
  /\ \/ simPc = "tick"
     \/ InCycle /\ ~AtSavepoint
  /\ Publish([name |-> "SimTimeChanged", timestamp |-> mCurrentSimTime])
  /\ mCurrentSimTime' = mCurrentSimTime + SimTimeStep
  /\ simPc' = "check"
  /\ UNCHANGED <<modes, syncCount, interruptOccured, server, subscribed>>

(* A bug: run() returns when it was interrupted, without stopSim.          *)
CheckInterruptSilent ==
  /\ simPc = "check"
  /\ simPc' = IF interruptOccured THEN "done" ELSE "loop"
  /\ UNCHANGED <<modes, mCurrentSimTime, syncCount, interruptOccured, server, busVars>>

CheckInterrupt ==
  /\ simPc = "check"
  /\ simPc' = IF interruptOccured THEN "stop" ELSE "loop"
  /\ UNCHANGED <<modes, mCurrentSimTime, syncCount, interruptOccured, server, busVars>>

LoopExit ==
  /\ simPc = "loop"
  /\ mCurrentSimTime > SimTime
  /\ simPc' = "stop"
  /\ UNCHANGED <<modes, mCurrentSimTime, syncCount, interruptOccured, server, busVars>>


StopSim ==
  /\ simPc = "stop"
  /\ Publish([name |-> "End", timestamp |-> mCurrentSimTime])
  /\ server' = "ending"
  /\ simPc' = "done"
  /\ UNCHANGED <<modes, mCurrentSimTime, syncCount, interruptOccured, subscribed>>

(* The signal handler of registerInterruptSignal.                          *)
Interrupt ==
  /\ "simInterrupt" \in Faults
  /\ ~interruptOccured
  /\ simPc \notin Over
  /\ interruptOccured' = TRUE
  /\ UNCHANGED <<simPc, modes, mCurrentSimTime, syncCount, server, busVars>>

(* The configuration server leaves its loop when it receives "End".        *)
ServerStop ==
  /\ server = "ending"
  /\ server' = "stopped"
  /\ UNCHANGED <<simPc, modes, mCurrentSimTime, syncCount, interruptOccured, busVars>>

(* What run() and stopSim() do on their own, waiting for nobody.           *)
SimStep ==
  \/ PrepareDone   \/ PrepareFails \/ GiveUp        \/ InvalidOption
  \/ LoadState     \/ LoadStateDone \/ SaveState    \/ SaveStateDone
  \/ PublishTick   \/ CheckInterrupt \/ LoopExit    \/ StopSim

=============================================================================
