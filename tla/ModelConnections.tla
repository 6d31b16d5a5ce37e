--------------------------- MODULE ModelConnections ---------------------------
(***************************************************************************)
(* The prepare methods of all processes against the configuration server:  *)
(* each asks for ports, addresses and parameters, binds its sockets and    *)
(* connects to the simulation model and to the models it depends on, until *)
(* it is ready to synchronise.                                             *)
(*                                                                         *)
(* A process works through a sequence of steps.  A step is a record: what  *)
(* it does (op), with which socket, for a connection of which model (of),  *)
(* the key of the port, and all questions it asks (asks).  The arguments   *)
(* of connectToPub are evaluated in any order, so the questions of a step  *)
(* are asked in any order.                                                 *)
(***************************************************************************)
EXTENDS ConfigurationServer

simulation_model == <<"simulation", "model">>

(* "Do not remove this model!"                                             *)
ASSUME SimulationModelAssumption ==
  \A file \in HostsFiles : simulation_model \in Names(file)

VARIABLES
  todo,              \* todo[m]: the steps that m has not done
  known,             \* known[m]: the answers to the questions of the present step
  asking,            \* asking[m]: the question m waits for, <<>> if none
  status,            \* status[m]: "absent", "preparing", "ready", "failed" or "ended"
  bound,             \* bound[m]: the sockets of m, records [socket, port]
  connected,         \* connected[m]: its connections, [to, socket, ip, port]
  mTotalNumOfModels  \* of the simulation model

processVars == <<todo, known, asking, status, bound, connected, mTotalNumOfModels>>
vars == <<serverVars, processVars>>

-----------------------------------------------------------------------------

Step(op, socket, of, key, asks) ==
  [op |-> op, socket |-> socket, of |-> of, key |-> key, asks |-> asks]

Know(asks) == Step("know", "none", <<>>, <<>>, asks)
Depend     == Step("depend", "none", <<>>, <<>>, {DependenciesOfMine})
Bind(m)    == Step("bind", "publisher", m, PortKey(m), {PortKey(m)})
BindSync   == Step("bind", "sync", simulation_model, SyncKey, {SyncKey})
Connect(m) == Step("connect", "publisher", m, PortKey(m), {IpKey(m), PortKey(m)})
Complain(m) == Step("fail", "none", <<>>, <<>>, {PortKey(m)})

(* A bug: the synchronisation socket connects to the port of the publisher. *)
ConnectSyncToPub ==
  Step("connect", "sync", simulation_model, PortKey(simulation_model),
       {IpKey(simulation_model), PortKey(simulation_model)})

ConnectSync ==
  Step("connect", "sync", simulation_model, SyncKey, {IpKey(simulation_model), SyncKey})

RouterParameters(m) ==
  {Append(m, "address"), Append(m, "routingBits"), Append(m, "connectivityBits")}

(* What prepare does in each class, up to the synchronisation.  main calls *)
(* the simulation model by its name, whatever the file says.               *)
Script(path, m) ==
  IF m = simulation_model
    THEN <<Know({TotalNumModels}), Know({NumPersistModels}), Bind(m), BindSync>>
    ELSE (IF path = "router" THEN <<Know(RouterParameters(m))>> ELSE <<>>)
           \o <<Bind(m), Connect(simulation_model)>>
           \o (IF path = "event_queue_1" THEN <<>> ELSE <<Depend>>)
           \o <<ConnectSync>>

(* A model connects to each model it depends on; an element then also asks *)
(* for the address of that router.                                         *)
ForDependencies(path, names) ==
  IF path = "processing_element"
    THEN [i \in 1 .. 2 * Len(names) |->
            IF i % 2 = 1 THEN Connect(names[(i + 1) \div 2])
                         ELSE Know({Append(names[i \div 2], "address")})]
    ELSE [i \in DOMAIN names |-> Connect(names[i])]

Path(m) == FirstModel(mDocument, m).path
Started(m) == m \in Names(mDocument) /\ Path(m) # "configuration_server"

Init ==
  /\ ServerInit
  /\ todo = [m \in Processes |-> IF Started(m) THEN Script(Path(m), m) ELSE <<>>]
  /\ status = [m \in Processes |-> IF Started(m) THEN "preparing" ELSE "absent"]
  /\ known = [m \in Processes |-> NoEntries]
  /\ asking = [m \in Processes |-> <<>>]
  /\ bound = [m \in Processes |-> {}]
  /\ connected = [m \in Processes |-> {}]
  /\ mTotalNumOfModels = 0

-----------------------------------------------------------------------------

(* A question of the Dealer to the server ...                              *)
Ask(m) ==
  /\ status[m] = "preparing"
  /\ asking[m] = <<>>
  /\ \E q \in Head(todo[m]).asks \ DOMAIN known[m] :
       /\ asking' = [asking EXCEPT ![m] = q]
       /\ mFrontend' = Append(mFrontend, [identity |-> m, msg |-> q])
  /\ UNCHANGED <<server, mDocument, mModelInformation, interruptOccured, mailbox,
                 todo, known, status, bound, connected, mTotalNumOfModels>>

(* ... and its answer.                                                     *)
Hear(m) ==
  /\ mailbox[m] # <<>>
  /\ known' = [known EXCEPT ![m] = Overwrite(@, [q \in {asking[m]} |-> Head(mailbox[m])])]
  /\ asking' = [asking EXCEPT ![m] = <<>>]
  /\ mailbox' = [mailbox EXCEPT ![m] = Tail(@)]
  /\ UNCHANGED <<server, mDocument, mModelInformation, interruptOccured, mFrontend,
                 todo, status, bound, connected, mTotalNumOfModels>>

(* Process m has all answers for its next step, which is an op.            *)
Knows(m, op) ==
  /\ status[m] = "preparing"
  /\ Head(todo[m]).op = op
  /\ Head(todo[m]).asks \subseteq DOMAIN known[m]

(* It goes on with steps and what comes after this one.                    *)
GoOn(m, steps) ==
  /\ todo' = [todo EXCEPT ![m] = steps \o Tail(@)]
  /\ known' = [known EXCEPT ![m] = NoEntries]
  /\ status' = [status EXCEPT ![m] =
                  IF steps \o Tail(todo[m]) = <<>> THEN "ready" ELSE "preparing"]

(* prepare returns false.                                                  *)
GiveUp(m) ==
  /\ todo' = [todo EXCEPT ![m] = <<>>]
  /\ known' = [known EXCEPT ![m] = NoEntries]
  /\ status' = [status EXCEPT ![m] = "failed"]
  /\ UNCHANGED <<bound, connected>>

(* bindSocket and preparePubSynchronization fail without a port, or when   *)
(* some other program uses it.  The adapter then asks for its port again,  *)
(* for its message, before prepare returns.                                *)
BindSocket(m) ==
  /\ Knows(m, "bind")
  /\ LET step == Head(todo[m])
         port == known[m][step.key]
     IN  \/ /\ port # Empty
            /\ bound' = [bound EXCEPT ![m] = @ \cup {[socket |-> step.socket, port |-> port]}]
            /\ GoOn(m, <<>>)
            /\ UNCHANGED connected
         \/ /\ port = Empty \/ "busy" \in Faults[mDocument]
            /\ Path(m) # "systemc_adapter"
            /\ GiveUp(m)
         \/ /\ port = Empty \/ "busy" \in Faults[mDocument]
            /\ Path(m) = "systemc_adapter"
            /\ todo' = [todo EXCEPT ![m] = <<Complain(m)>>]
            /\ known' = [known EXCEPT ![m] = NoEntries]
            /\ UNCHANGED <<status, bound, connected>>
  /\ UNCHANGED <<serverVars, asking, mTotalNumOfModels>>

ComplaintMade(m) ==
  /\ Knows(m, "fail")
  /\ GiveUp(m)
  /\ UNCHANGED <<serverVars, asking, mTotalNumOfModels>>

(* connectToPub and prepareSubSynchronization fail without an address.     *)
ConnectSocket(m) ==
  /\ Knows(m, "connect")
  /\ LET step == Head(todo[m])
         ip   == known[m][IpKey(step.of)]
         port == known[m][step.key]
     IN  \/ /\ ip # Empty /\ port # Empty
            /\ connected' = [connected EXCEPT ![m] = @ \cup
                 {[to |-> step.of, socket |-> step.socket, ip |-> ip, port |-> port]}]
            /\ GoOn(m, <<>>)
            /\ UNCHANGED bound
         \/ /\ ip = Empty \/ port = Empty
            /\ GiveUp(m)
  /\ UNCHANGED <<serverVars, asking, mTotalNumOfModels>>

(* for (auto depModel : mDealer.getModelDependencies())                    *)
FindDependencies(m) ==
  /\ Knows(m, "depend")
  /\ GoOn(m, ForDependencies(Path(m), known[m][DependenciesOfMine]))
  /\ UNCHANGED <<serverVars, asking, bound, connected, mTotalNumOfModels>>

(* Parameters and numbers are kept; only mTotalNumOfModels matters here.   *)
Keep(m) ==
  /\ Knows(m, "know")
  /\ mTotalNumOfModels' = IF TotalNumModels \in DOMAIN known[m]
                            THEN known[m][TotalNumModels] ELSE mTotalNumOfModels
  /\ GoOn(m, <<>>)
  /\ UNCHANGED <<serverVars, asking, bound, connected>>

(* stopDNSserver, at the end of a simulation which began when all but the  *)
(* simulation model and the server (mTotalNumOfModels - 2) were there, or  *)
(* which never began because prepare failed.                               *)
StopServer ==
  /\ \/ status[simulation_model] = "failed"
     \/ /\ status[simulation_model] = "ready"
        /\ Cardinality({m \in Processes \ {simulation_model} : status[m] = "ready"}) + 2
             >= mTotalNumOfModels
  /\ status' = [status EXCEPT ![simulation_model] = "ended"]
  /\ mFrontend' = Append(mFrontend, [identity |-> simulation_model, msg |-> <<"End">>])
  /\ UNCHANGED <<server, mDocument, mModelInformation, interruptOccured, mailbox,
                 todo, known, asking, bound, connected, mTotalNumOfModels>>

ServerStep == (Configure \/ Serve \/ ServeEnd) /\ UNCHANGED processVars
Signal     == Interrupt /\ UNCHANGED processVars

Prepare(m) ==
  \/ Ask(m)
  \/ Hear(m)
  \/ BindSocket(m)
  \/ ComplaintMade(m)
  \/ ConnectSocket(m)
  \/ FindDependencies(m)
  \/ Keep(m)

Next ==
  \/ ServerStep
  \/ Signal
  \/ \E m \in Processes : Prepare(m)
  \/ StopServer

Spec == Init /\ [][Next]_vars

(* The server and every process go on working.                             *)
FairSpec ==
  /\ Spec
  /\ WF_vars(ServerStep)
  /\ \A m \in Processes : WF_vars(Prepare(m))
  /\ WF_vars(StopServer)

-----------------------------------------------------------------------------

Ports == Nat \cup Texts

TypeOK ==
  /\ server \in {"configuring", "serving", "stopped"}
  /\ mDocument \in HostsFiles
  /\ interruptOccured \in BOOLEAN
  /\ mFrontend \in Seq([identity : Processes, msg : Seq(Words)])
  /\ \A m \in Processes :
       /\ Len(mailbox[m]) <= 1
       /\ asking[m] \in Seq(Words)
       /\ status[m] \in {"absent", "preparing", "ready", "failed", "ended"}
       /\ status[m] = "preparing" <=> todo[m] # <<>>
       /\ \A b \in bound[m] : b.port \in Ports
       /\ \A c \in connected[m] : c.ip \in Texts /\ c.port \in Ports
  /\ mTotalNumOfModels \in Nat

(* Whoever connects to a socket of a model uses the port on which that     *)
(* model has bound it, or will: even if keys clash or ports run out, two   *)
(* processes that ask at different times hear the same.                    *)
MeetingPoint ==
  \A m, n \in Processes : \A c \in connected[m] : \A b \in bound[n] :
    c.to = n /\ c.socket = b.socket => c.port = b.port

(* No two sockets are bound to one port, the one for synchronisation       *)
(* included, in whatever order the processes ask; an interval that is too  *)
(* small leaves processes without a port.                                  *)
NoPortTwice ==
  NoClash(mDocument) =>
    \A m, n \in Processes : \A b \in bound[m] : \A c \in bound[n] :
      b.port = c.port => m = n /\ b.socket = c.socket

(* A model that is ready to synchronise listens to the simulation model    *)
(* and to exactly the models its file names, each at its host; an event    *)
(* queue to the simulation model only.                                     *)
Publishers(m) == {c \in connected[m] : c.socket = "publisher"}
DependsOf(m) ==
  LET depends == FirstModel(mDocument, m).depends
  IN  IF Path(m) = "event_queue_1" THEN {} ELSE {depends[d] : d \in DOMAIN depends}
Wanted(m) == {simulation_model} \cup DependsOf(m)
Wired ==
  NoClash(mDocument) /\ NoFalseAddress(mDocument) =>
    \A m \in Processes \ {simulation_model} : status[m] = "ready" =>
      {<<c.to, c.ip>> : c \in Publishers(m)} =
        {<<n, Address(mDocument, FirstModel(mDocument, n))>> : n \in Wanted(m)}

(* With a complete file every model gets through its prepare before the    *)
(* server is stopped, and the server stops, unless something fails.        *)
EverybodyConfigured ==
  Complete(mDocument) /\ Faults[mDocument] = {} =>
    <>(/\ server = "stopped"
       /\ \A m \in Processes : status[m] \in {"absent", "ready", "ended"})

(* The inductive invariant behind the theorems.  The table of the server   *)
(* reads as it did after the constructor; a process waits for at most one  *)
(* answer, and what it hears is what the file says; its sockets follow.    *)
Said(m, q) == Answer(mDocument, Information(mDocument), m, q)

InvTable == server = "serving" =>
  LET first == Information(mDocument) IN
  \A k \in DOMAIN mModelInformation \cup DOMAIN first :
    getModelInformation(mModelInformation, k) = getModelInformation(first, k)

Steps == [op : {"know", "depend", "bind", "connect", "fail"},
          socket : {"none", "publisher", "sync"},
          of : Seq(Words), key : Seq(Words), asks : SUBSET (Seq(Words) \ {<<>>})]

InvShape ==
  /\ mDocument \in HostsFiles
  /\ todo \in [Processes -> Seq(Steps)]
  /\ DOMAIN mailbox = Processes /\ DOMAIN known = Processes
  /\ DOMAIN asking = Processes /\ DOMAIN status = Processes
  /\ DOMAIN bound = Processes /\ DOMAIN connected = Processes
  /\ \A m \in Processes : status[m] = "preparing" => todo[m] # <<>>

InvQuestions ==
  /\ mFrontend \in Seq([identity : Processes, msg : Seq(Words)])
  /\ \A i, j \in DOMAIN mFrontend :
       LET request == mFrontend[i] IN
       request.msg # <<"End">> =>
         /\ request.msg = asking[request.identity] /\ request.msg # <<>>
         /\ mailbox[request.identity] = <<>>
         /\ mFrontend[j].identity = request.identity /\ mFrontend[j].msg # <<"End">>
              => i = j

InvAnswers == \A m \in Processes :
  /\ mailbox[m] # <<>> => asking[m] # <<>> /\ mailbox[m] = <<Said(m, asking[m])>>
  /\ \A q \in DOMAIN known[m] : known[m][q] = Said(m, q)

KeyOf(m, socket) == IF socket = "sync" THEN SyncKey ELSE PortKey(m)
Sockets(m) == IF m = simulation_model THEN {"publisher", "sync"} ELSE {"publisher"}

InvTodo == \A m \in Processes : \A i \in DOMAIN todo[m] :
  LET step == todo[m][i] IN
    /\ m \in Names(mDocument)
    /\ step.op \in {"bind", "connect"} =>
         /\ step.socket \in Sockets(step.of)
         /\ step.key = KeyOf(step.of, step.socket)
         /\ step.key \in step.asks
    /\ step.op = "bind" => step.of = m
    /\ step.op = "depend" => step.asks = {DependenciesOfMine}

InvSockets == \A m \in Processes :
  /\ \A b \in bound[m] :
       /\ m \in Names(mDocument)
       /\ b.socket \in Sockets(m)
       /\ b.port # Empty
       /\ b.port = Said(m, KeyOf(m, b.socket))
  /\ \A c \in connected[m] : c.port = Said(m, KeyOf(c.to, c.socket))

IInv == InvShape /\ InvTable /\ InvQuestions /\ InvAnswers /\ InvTodo /\ InvSockets

(* Where a model listens and what its remaining steps will lead to makes   *)
(* up what it is meant to listen to, unless it is about to give up; no     *)
(* socket was connected without a port and an address, and each to the     *)
(* address of its model.                                                   *)
Remaining(m) == {todo[m][i] : i \in DOMAIN todo[m]}
LeadsTo(m, step) ==
  CASE step.op = "connect" /\ step.socket = "publisher" -> {step.of}
    [] step.op = "depend" -> DependsOf(m)
    [] OTHER -> {}

Addressed(m, c) ==
  /\ c.to \in Seq(Words)
  /\ c.ip # Empty /\ c.port # Empty
  /\ c.ip = Said(m, IpKey(c.to))

InvPlan == \A m \in Processes :
  /\ status[m] # "absent" => m \in Names(mDocument)
  /\ todo[m] # <<>> => status[m] = "preparing"
  /\ \A step \in Remaining(m) :
       /\ step.op = "connect" => IpKey(step.of) \in step.asks
       /\ step.op = "depend" => Path(m) # "event_queue_1"
  /\ \A c \in connected[m] : Addressed(m, c)
  /\ /\ m # simulation_model /\ status[m] \in {"preparing", "ready"}
     /\ \A step \in Remaining(m) : step.op # "fail"
     => {c.to : c \in Publishers(m)} \cup UNION {LeadsTo(m, step) : step \in Remaining(m)}
          = Wanted(m)

InvConfiguration == TypeOK /\ IInv /\ InvPlan

(* No socket is bound outside the interval of the hosts file, but for that *)
(* of the synchronisation, which is at most one port further.              *)
PortsOfInterval ==
  NoClash(mDocument) =>
    \A m \in Processes : \A b \in bound[m] :
      \/ b.port \in mDocument.minPort .. mDocument.maxPort
      \/ b.socket = "sync" /\ b.port = mDocument.maxPort + 1

(* The ports that are bound come from the interval of the hosts file.      *)
PortsInInterval ==
  NoClash(mDocument) =>
    \A m \in Processes : \A b \in bound[m] :
      b.port \in mDocument.minPort .. mDocument.maxPort

=============================================================================
