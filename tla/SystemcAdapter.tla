---------------------------- MODULE SystemcAdapter ----------------------------
(***************************************************************************)
(* models/systemc_adapter: puts a SystemC processing element in the place  *)
(* of a ProcessingElement.  Events of the router and of the simulation     *)
(* model become TLM transactions of the element; the element's become      *)
(* "PacketGenerator" events.                                               *)
(*                                                                         *)
(* The adapter's thread waits for events in a receive that blocks the      *)
(* whole SystemC kernel, and with it the element, which runs only before   *)
(* the thread is started, during the wait(delay) at the end of             *)
(* handleEvent, or when the thread is over.                                *)
(* The element (proc_elem.h) and the router's side are external: like a    *)
(* ProcessingElement the element sends with credit only, and the router    *)
(* gives back the credit of a flit it has got.  prepare() is part of       *)
(* SubscriberModel; here it has succeeded.                                 *)
(***************************************************************************)
EXTENDS Integers, Sequences, FiniteSets

CONSTANTS
  LastTime,   \* the last tick of the simulation model
  Flits,      \* how many flits the router sends to the element, ...
  Packets,    \* ... and the element to the router, at most
  MaxCredit   \* the places of the router's local FIFO

ASSUME AdapterAssumption ==
  {LastTime, Flits, Packets, MaxCredit} \subseteq Nat

VARIABLES
  time,          \* the next tick of the simulation model; LastTime + 2 after End
  routed,        \* the names of what the router has published, in order
  link,          \* link[p]: events of publisher p that are not received
  critical,      \* foundCriticalSimCycle finds critical cycles in this run
  mRun, mCurrentSimTime,
  kernel,        \* what the SystemC kernel does with the adapter's thread
  transactions,  \* the sockets on which the adapter has called the element
  generated      \* the timestamps of the flits of the element

linkVars    == <<time, routed, link>>
adapterVars == <<critical, mRun, mCurrentSimTime, kernel, transactions>>
vars        == <<linkVars, adapterVars, generated>>

Publishers  == {"simulation_model", "router"}
RouterNames == {"Local", "Credit_in_L++"}
Sockets     == {"memory", "creditCnt", "interrupt"}
Event == [name : {"SimTimeChanged", "End"} \union RouterNames, timestamp : Nat]

HowMany(x, s) == Cardinality({i \in DOMAIN s : s[i] = x})

Init ==
  /\ time = 0
  /\ routed = <<>>
  /\ link = [p \in Publishers |-> <<>>]
  /\ critical \in BOOLEAN
  /\ mRun = TRUE
  /\ mCurrentSimTime = 0
  /\ kernel = "starting"
  /\ transactions = <<>>
  /\ generated = <<>>

-----------------------------------------------------------------------------
(* The other models                                                        *)

Publish(p, ev) == link' = [link EXCEPT ![p] = Append(@, ev)]

(* There is one End, after the last tick.                                  *)
Ends == LastTime + 2

(* Nobody waits for the adapter between two ticks, nor before End.         *)
SimulationModel ==
  /\ time < Ends
  /\ LET name == IF time <= LastTime THEN "SimTimeChanged" ELSE "End"
     IN  Publish("simulation_model", [name |-> name, timestamp |-> time])
  /\ time' = time + 1
  /\ UNCHANGED <<routed, adapterVars, generated>>

(* The flits of the element for which the router has not given credit.     *)
Held == Len(generated) - HowMany("Credit_in_L++", routed)

(* The router stamps its events with a clock that may be behind.           *)
Router ==
  /\ \E name \in RouterNames, t \in 0 .. time - 1 :
       /\ name = "Local" => HowMany("Local", routed) < Flits
       /\ name = "Credit_in_L++" => Held > 0
       /\ Publish("router", [name |-> name, timestamp |-> t])
       /\ routed' = Append(routed, name)
  /\ UNCHANGED <<time, adapterVars, generated>>

-----------------------------------------------------------------------------
(* The adapter's thread                                                    *)

(* A bug: End only ends the loop.                                          *)
SocketOfNoInterrupt(name) ==
  CASE name = "Local"         -> <<"memory">>
    [] name = "Credit_in_L++" -> <<"creditCnt">>
    [] OTHER                  -> <<>>

(* A bug: a flit counts as a credit, too.                                  *)
SocketOfBoth(name) ==
  CASE name = "Local"         -> <<"memory", "creditCnt">>
    [] name = "Credit_in_L++" -> <<"creditCnt">>
    [] name = "End"           -> <<"interrupt">>
    [] OTHER                  -> <<>>

(* The socket of the transaction that an event causes, if it causes one.   *)
SocketOf(name) ==
  CASE name = "Local"         -> <<"memory">>
    [] name = "Credit_in_L++" -> <<"creditCnt">>
    [] name = "End"           -> <<"interrupt">>
    [] OTHER                  -> <<>>

(* A bug: mRun = false is missing.                                         *)
GoesOnForEver(name) == IF critical THEN BOOLEAN ELSE {TRUE}

(* mRun: false after a critical cycle (fraser library) and after End.      *)
GoesOn(name) == IF name = "End" THEN {FALSE} ELSE IF critical THEN BOOLEAN ELSE {TRUE}

(* sc_start takes the processes in any order: some of the element's may    *)
(* have run before this thread.                                            *)
ThreadStart ==
  /\ kernel = "starting"
  /\ kernel' = "receiving"
  /\ UNCHANGED <<linkVars, critical, mRun, mCurrentSimTime, transactions, generated>>

(* receiveEvent, and handleEvent up to its wait.  A transaction is a call  *)
(* of the element in this thread, with a new payload.  The data of a flit  *)
(* is left out: the variable that the payload points to has ended, so that *)
(* the element may read anything.                                          *)
HandleEvent(p) ==
  /\ kernel = "receiving"
  /\ link[p] # <<>>
  /\ LET ev == Head(link[p]) IN
       /\ mCurrentSimTime' = ev.timestamp
       /\ mRun' \in GoesOn(ev.name)
       /\ transactions' = transactions \o SocketOf(ev.name)
  /\ link' = [link EXCEPT ![p] = Tail(@)]
  /\ kernel' = "delay"
  /\ UNCHANGED <<time, routed, critical, generated>>

(* wait(delay) returns to the loop of run().                               *)
DelayOver ==
  /\ kernel = "delay"
  /\ kernel' = IF mRun THEN "receiving" ELSE "ended"
  /\ UNCHANGED <<linkVars, critical, mRun, mCurrentSimTime, transactions, generated>>

Adapter == ThreadStart \/ DelayOver \/ \E p \in Publishers : HandleEvent(p)

-----------------------------------------------------------------------------
(* The element                                                             *)

ElementCredit == MaxCredit - Len(generated) + HowMany("creditCnt", transactions)

(* A bug: the delay that is over is added to the timestamp.                *)
b_transportAfterDelay ==
  /\ kernel # "receiving"
  /\ Len(generated) < Packets
  /\ ElementCredit > 0
  /\ generated' = Append(generated, mCurrentSimTime + 1)
  /\ UNCHANGED <<linkVars, adapterVars>>

(* The element calls the adapter with a flit, which publishes it with the  *)
(* timestamp of the event it has handled last.                             *)
b_transport ==
  /\ kernel # "receiving"
  /\ Len(generated) < Packets
  /\ ElementCredit > 0
  /\ generated' = Append(generated, mCurrentSimTime)
  /\ UNCHANGED <<linkVars, adapterVars>>

Next == SimulationModel \/ Router \/ Adapter \/ b_transport

Spec == Init /\ [][Next]_vars

(* The simulation model goes on ticking and the adapter receiving, from    *)
(* one publisher as well as from the other (a ZeroMQ SUB socket takes      *)
(* turns).  The router and the element owe nothing.                        *)
Fairness ==
  /\ WF_vars(SimulationModel)
  /\ WF_vars(ThreadStart)
  /\ WF_vars(DelayOver)
  /\ \A p \in Publishers : SF_vars(HandleEvent(p))

FairSpec == Spec /\ Fairness

-----------------------------------------------------------------------------

TypeOK ==
  /\ time \in 0 .. LastTime + 2
  /\ routed \in Seq(RouterNames)
  /\ link \in [Publishers -> Seq(Event)]
  /\ critical \in BOOLEAN
  /\ mRun \in BOOLEAN
  /\ mCurrentSimTime \in Nat
  /\ kernel \in {"starting", "receiving", "delay", "ended"}
  /\ transactions \in Seq(Sockets)
  /\ generated \in Seq(Nat)

(* Between ticks and End, what the router has published and the adapter    *)
(* has received is what the element was told, in that order, with nothing  *)
(* but the interrupt behind it: no flit and no credit is lost, told twice  *)
(* or taken for the other.                                                 *)
Received    == Len(routed) - Len(link["router"])
Interrupted == Len(transactions) > 0 /\ transactions[Len(transactions)] = "interrupt"
ToldAsRouted ==
  /\ Len(transactions) = IF Interrupted THEN Received + 1 ELSE Received
  /\ \A i \in 1 .. Received :
       transactions[i] = IF routed[i] = "Local" THEN "memory" ELSE "creditCnt"

(* The thread ends with the interrupt: nothing is told after it, whatever  *)
(* is still in the links.                                                  *)
InterruptIsLast ==
  \A i \in DOMAIN transactions :
    transactions[i] = "interrupt" => i = Len(transactions)

(* The router sets its clock to the timestamps of the element, which come  *)
(* from the router's and the simulation model's, or are 0 when the element *)
(* is faster than the first tick: nobody's clock is ever ahead of the      *)
(* simulation.                                                             *)
Over(t) == t < time \/ t = 0
NeverAhead == \A i \in DOMAIN generated : Over(generated[i])

(* The inductive invariant behind the theorems: what is in the links, ...  *)
InvLinks ==
  LET fromSim    == link["simulation_model"]
      fromRouter == link["router"]
  IN  /\ \A i \in DOMAIN fromSim : fromSim[i].name \in {"SimTimeChanged", "End"}
      /\ Len(fromRouter) <= Len(routed)
      /\ \A i \in DOMAIN fromRouter : fromRouter[i].name = routed[Received + i]

(* ... that the clock is ahead of every timestamp on its way, ...          *)
InvTimes ==
  /\ \A p \in Publishers : \A i \in DOMAIN link[p] : link[p][i].timestamp < time
  /\ Over(mCurrentSimTime)

(* ... and that an interrupt has ended the loop.                           *)
InvThread == Interrupted => kernel \in {"delay", "ended"} /\ ~mRun

IInv ==
  /\ TypeOK
  /\ InvLinks
  /\ InvTimes
  /\ InvThread
  /\ ToldAsRouted
  /\ NeverAhead

(* The element is interrupted in the end, although the router may send     *)
(* more than there is time for and the receive blocks the kernel; unless a *)
(* critical cycle comes first, which ends the thread without a word.       *)
EndReachesElement ==
  ~critical => <>(\E i \in DOMAIN transactions : transactions[i] = "interrupt")

(* The receive blocks the kernel, and with it the element, whatever credit *)
(* it has: never for good, also when no event will ever come again.        *)
ElementRuns == []<>(kernel # "receiving")

=============================================================================
