------------------------- MODULE LockstepSimulation -------------------------
(***************************************************************************)
(* What the simulation environment promises, without events, queues or     *)
(* counting: the clock and the models move in lock step.  A configuration  *)
(* is restored only when every model is ready; the clock starts only when  *)
(* every persistent model has been restored; it leaves a savepoint only    *)
(* when every persistent model has stored its state there.                 *)
(***************************************************************************)
EXTENDS Integers

CONSTANTS Models, Persist, SimTimeStep, Savepoints, StartTimes

VARIABLES
  phase,       \* "configure", "idle", "restore", "run", "create" or "stopped"
  time,        \* the simulation time
  configured,  \* the models that are ready
  restored,    \* the persistent models that are through with restoring
  stored       \* stored[m]: the times at which m is through with storing

vars == <<phase, time, configured, restored, stored>>

Init ==
  /\ phase = "configure"
  /\ time = 0
  /\ configured = {}
  /\ restored = {}
  /\ stored = [m \in Persist |-> {}]

Configure(m) ==
  /\ phase = "configure"
  /\ configured' = configured \union {m}
  /\ UNCHANGED <<phase, time, restored, stored>>

EndConfigure ==
  /\ phase = "configure"
  /\ configured = Models
  /\ phase' = "idle"
  /\ UNCHANGED <<time, configured, restored, stored>>

BeginRestore ==
  /\ phase = "idle"
  /\ phase' = "restore"
  /\ time' \in StartTimes
  /\ UNCHANGED <<configured, restored, stored>>

Restore(m) ==
  /\ phase = "restore"
  /\ restored' = restored \union {m}
  /\ UNCHANGED <<phase, time, configured, stored>>

EndRestore ==
  /\ phase = "restore"
  /\ restored = Persist
  /\ phase' = "run"
  /\ UNCHANGED <<time, configured, restored, stored>>

BeginCreate ==
  /\ phase = "idle"
  /\ phase' = "create"
  /\ UNCHANGED <<time, configured, restored, stored>>

Store(m) ==
  /\ phase = "create" \/ (phase = "run" /\ time \in Savepoints)
  /\ time \notin stored[m]
  /\ stored' = [stored EXCEPT ![m] = @ \union {time}]
  /\ UNCHANGED <<phase, time, configured, restored>>

AllStored == \A m \in Persist : time \in stored[m]

Tick ==
  /\ phase = "run"
  /\ time \in Savepoints => AllStored
  /\ time' = time + SimTimeStep
  /\ UNCHANGED <<phase, configured, restored, stored>>

Stop ==
  /\ phase = "run" \/ (phase = "create" /\ AllStored)
  /\ phase' = "stopped"
  /\ UNCHANGED <<time, configured, restored, stored>>

(* Nothing is simulated at all.                                            *)
GiveUp ==
  /\ phase \in {"configure", "idle"}
  /\ phase' = "stopped"
  /\ UNCHANGED <<time, configured, restored, stored>>

Next ==
  \/ \E m \in Models : Configure(m)
  \/ \E m \in Persist : Restore(m) \/ Store(m)
  \/ EndConfigure \/ BeginRestore \/ EndRestore \/ BeginCreate
  \/ Tick \/ Stop \/ GiveUp

Spec == Init /\ [][Next]_vars

=============================================================================
