----------------------- MODULE ModelConnections_proofs -----------------------
(***************************************************************************)
(* Proofs about ModelConnections, for any set of hosts files, any failures *)
(* and any order of the questions: connections meet the sockets they are   *)
(* meant for, and no port is bound twice.                                  *)
(***************************************************************************)
EXTENDS ModelConnections, SequenceTheorems, WellFoundedInduction, TLAPS

-----------------------------------------------------------------------------
(* The hosts file.                                                         *)

(* A set of numbers has a least one.                                       *)
LEMMA Least ==
  ASSUME NEW S \in SUBSET Nat, S # {}
  PROVE  \E i \in S : \A j \in S : i <= j
<1>1. PICK i \in S : \A j \in S : ~ (<<j, i>> \in OpToRel(<, Nat))
  BY WFMin, NatLessThanWellFounded, Zenon
<1>2. \A j \in S : ~ (j < i)
  BY <1>1 DEF OpToRel
<1>3. i \in Nat /\ \A j \in S : j \in Nat
  OBVIOUS
<1> QED BY <1>2, <1>3

(* A set of indices of a sequence has a greatest one.                      *)
LEMMA Greatest ==
  ASSUME NEW n \in Nat, NEW S \in SUBSET (1 .. n), S # {}
  PROVE  \E i \in S : \A j \in S : j <= i
<1> DEFINE Back == {n - i : i \in S}
<1>1. PICK k \in Back : \A j \in Back : k <= j
  <2>1. \A i \in S : n - i \in Nat
    OBVIOUS
  <2>2. Back \in SUBSET Nat /\ Back # {}
    BY <2>1
  <2> QED BY <2>2, Least
<1>2. PICK i \in S : k = n - i
  BY <1>1
<1>3. \A j \in S : n - i <= n - j
  BY <1>1, <1>2
<1> QED BY <1>2, <1>3

Model == [id : Seq(Words), path : STRING, persist : BOOLEAN, host : STRING,
          depends : Seq(Seq(Words)),
          parameters : Seq([name : Seq(Words), text : Texts])]

LEMMA FileType ==
  ASSUME NEW file \in HostsFiles
  PROVE  /\ file.minPort \in Nat /\ file.maxPort \in Nat
         /\ file.models \in Seq(Model)
         /\ Index(file) = 1 .. Len(file.models)
         /\ Len(file.models) \in Nat
         /\ \A i \in Index(file) : file.models[i] \in Model
         /\ Names(file) \subseteq Seq(Words)
<1>1. file.minPort \in Nat /\ file.maxPort \in Nat /\ file.models \in Seq(Model)
  BY ServerAssumption DEF Model
<1>2. Index(file) = 1 .. Len(file.models) /\ Len(file.models) \in Nat
  BY <1>1 DEF Index
<1>3. \A i \in Index(file) : file.models[i] \in Model
  BY <1>1, <1>2
<1> QED BY <1>1, <1>2, <1>3 DEF Names, Model

LEMMA FirstModelType ==
  ASSUME NEW file \in HostsFiles, NEW name \in Names(file)
  PROVE  FirstModel(file, name) \in Model
<1> DEFINE S == {i \in Index(file) : file.models[i].id = name}
<1>1. S \in SUBSET Nat /\ S # {}
  BY FileType DEF Names
<1>2. PICK i \in S : \A j \in S : i <= j
  BY <1>1, Least
<1>3. \A j \in 1 .. i - 1 : file.models[j].id # name
  <2> SUFFICES ASSUME NEW j \in 1 .. i - 1, file.models[j].id = name PROVE FALSE
    OBVIOUS
  <2>1. i \in Index(file) /\ i \in 1 .. Len(file.models) /\ Len(file.models) \in Nat
    BY FileType
  <2>2. j \in Index(file)
    BY <2>1, FileType
  <2> QED BY <1>2, <2>1, <2>2
<1>4. \E k \in Index(file) : file.models[k].id = name
                             /\ \A j \in 1 .. k - 1 : file.models[j].id # name
  BY <1>2, <1>3
<1> QED BY <1>4, FileType DEF FirstModel

(* Keys of ports are none of the questions that have answers of their own. *)
LEMMA PortKeys ==
  /\ \A n \in Seq(Words) : PortKey(n) \in Seq(Words) /\ PortKey(n) \notin GetQuestions
                            /\ PortKey(n) # <<>>
  /\ SyncKey \in Seq(Words) /\ SyncKey \notin GetQuestions /\ SyncKey # <<>>
<1>1. ASSUME NEW n \in Seq(Words)
      PROVE  /\ PortKey(n) \in Seq(Words)
             /\ Len(PortKey(n)) = Len(n) + 1
             /\ PortKey(n)[Len(n) + 1] = "port"
  BY <1>1, AppendProperties, WordsAssumption DEF PortKey
<1>2. ASSUME NEW n \in Seq(Words)
      PROVE  PortKey(n) \notin GetQuestions /\ PortKey(n) # <<>>
  <2>1. PortKey(n) # TotalNumModels
    <3> SUFFICES ASSUME PortKey(n) = TotalNumModels PROVE FALSE
      OBVIOUS
    <3>1. Len(n) + 1 = 3
      BY <1>1 DEF TotalNumModels
    <3> QED BY <1>1, <3>1 DEF TotalNumModels
  <2>2. PortKey(n) # NumPersistModels
    <3> SUFFICES ASSUME PortKey(n) = NumPersistModels PROVE FALSE
      OBVIOUS
    <3>1. Len(n) + 1 = 3
      BY <1>1 DEF NumPersistModels
    <3> QED BY <1>1, <3>1 DEF NumPersistModels
  <2>3. PortKey(n) # AllModelNames
    <3> SUFFICES ASSUME PortKey(n) = AllModelNames PROVE FALSE
      OBVIOUS
    <3>1. Len(n) + 1 = 3
      BY <1>1 DEF AllModelNames
    <3> QED BY <1>1, <3>1 DEF AllModelNames
  <2>4. PortKey(n) # DependenciesOfMine
    <3> SUFFICES ASSUME PortKey(n) = DependenciesOfMine PROVE FALSE
      OBVIOUS
    <3>1. Len(n) + 1 = 2
      BY <1>1 DEF DependenciesOfMine
    <3> QED BY <1>1, <3>1 DEF DependenciesOfMine
  <2>5. PortKey(n) # <<>>
    BY <1>1
  <2> QED BY <2>1, <2>2, <2>3, <2>4, <2>5 DEF GetQuestions
<1>3. SyncKey \in Seq(Words) /\ SyncKey # <<>>
  <2>1. Len(SyncKey) = 3
    BY DEF SyncKey
  <2>2. SyncKey \in Seq(Words)
    BY WordsAssumption DEF SyncKey
  <2> QED BY <2>1, <2>2
<1>4. SyncKey \notin GetQuestions
  <2>1. SyncKey[3] = "port" /\ Len(SyncKey) = 3
    BY DEF SyncKey
  <2> QED BY <2>1 DEF SyncKey, GetQuestions, TotalNumModels, NumPersistModels,
                      AllModelNames, DependenciesOfMine
<1> QED BY <1>1, <1>2, <1>3, <1>4

(* The answer to the question for a key does not depend on who asks.       *)
LEMMA AnswerToKey ==
  ASSUME NEW file, NEW info, NEW m, NEW q, q \notin GetQuestions
  PROVE  Answer(file, info, m, q) = getModelInformation(info, q)
  BY DEF Answer, GetQuestions

LEMMA AnswerToDependencies ==
  ASSUME NEW file \in HostsFiles, NEW info, NEW m
  PROVE  /\ Answer(file, info, m, DependenciesOfMine) \in Seq(Seq(Words))
         /\ Answer(file, info, m, DependenciesOfMine) = getModelDependencies(file, m)
<1>1. /\ DependenciesOfMine # TotalNumModels
      /\ DependenciesOfMine # NumPersistModels
      /\ DependenciesOfMine # AllModelNames
  <2>1. /\ Len(DependenciesOfMine) = 2 /\ Len(TotalNumModels) = 3
        /\ Len(NumPersistModels) = 3 /\ Len(AllModelNames) = 3
    BY DEF DependenciesOfMine, TotalNumModels, NumPersistModels, AllModelNames
  <2> QED BY <2>1
<1>2. Answer(file, info, m, DependenciesOfMine) = getModelDependencies(file, m)
  BY <1>1 DEF Answer
<1>3. getModelDependencies(file, m) \in Seq(Seq(Words))
  <2>1. CASE m \in Names(file)
    BY <2>1, FirstModelType DEF getModelDependencies, Model
  <2>2. CASE m \notin Names(file)
    BY <2>2 DEF getModelDependencies
  <2> QED BY <2>1, <2>2
<1> QED BY <1>2, <1>3

(* The answer to total_num_models is the length of the list of models.     *)
LEMMA AnswerToTotal ==
  ASSUME NEW file, NEW info, NEW m
  PROVE  Answer(file, info, m, TotalNumModels) = Len(file.models)
<1>1. /\ TotalNumModels # NumPersistModels
      /\ TotalNumModels # AllModelNames
      /\ TotalNumModels # DependenciesOfMine
  <2>1. /\ TotalNumModels[1] = "total" /\ NumPersistModels[1] = "num"
        /\ AllModelNames[1] = "all" /\ DependenciesOfMine[1] = "model"
    BY DEF DependenciesOfMine, TotalNumModels, NumPersistModels, AllModelNames
  <2> QED BY <2>1
<1>2. Answer(file, info, m, TotalNumModels) = getNumberOfModels(file)
  BY <1>1 DEF Answer
<1> QED BY <1>2 DEF getNumberOfModels

(* Tables that read alike give the same answers.                           *)
LEMMA AnswersAlike ==
  ASSUME NEW file, NEW info, NEW table,
         \A k \in DOMAIN info \cup DOMAIN table :
           getModelInformation(info, k) = getModelInformation(table, k),
         NEW m, NEW q
  PROVE  Answer(file, info, m, q) = Answer(file, table, m, q)
<1>1. getModelInformation(info, q) = getModelInformation(table, q)
  BY DEF getModelInformation
<1> QED BY <1>1 DEF Answer

(* An empty entry for a key that was not there changes nothing that is     *)
(* read.                                                                   *)
LEMMA EmptyEntry ==
  ASSUME NEW info, NEW q, q \notin DOMAIN info, NEW k
  PROVE  getModelInformation(Overwrite(info, [x \in {q} |-> Empty]), k) =
           getModelInformation(info, k)
  BY DEF getModelInformation, Overwrite

-----------------------------------------------------------------------------
(* The initial states.                                                     *)

LEMMA KeysNotEmpty ==
  ASSUME NEW n \in Seq(Words), NEW w \in Words
  PROVE  Append(n, w) \in Seq(Words) \ {<<>>}
  BY AppendProperties

LEMMA KnowStep ==
  ASSUME NEW asks \in SUBSET (Seq(Words) \ {<<>>})
  PROVE  Know(asks) \in Steps /\ Know(asks).op = "know"
  BY DEF Know, Step, Steps

LEMMA DependStep ==
  Depend \in Steps /\ Depend.op = "depend" /\ Depend.asks = {DependenciesOfMine}
<1>1. DependenciesOfMine \in Seq(Words)
  BY WordsAssumption DEF DependenciesOfMine
<1>2. DependenciesOfMine # <<>>
  BY DEF DependenciesOfMine
<1> QED BY <1>1, <1>2 DEF Depend, Step, Steps

LEMMA SimulationModelName ==
  simulation_model \in Seq(Words)
  BY WordsAssumption DEF simulation_model

LEMMA IpKeys ==
  \A n \in Seq(Words) : IpKey(n) \in Seq(Words) /\ IpKey(n) # <<>>
  BY KeysNotEmpty, WordsAssumption DEF IpKey

LEMMA BindStep ==
  ASSUME NEW m \in Seq(Words)
  PROVE  /\ Bind(m) \in Steps
         /\ Bind(m).op = "bind" /\ Bind(m).of = m /\ Bind(m).socket = "publisher"
         /\ Bind(m).key = PortKey(m) /\ Bind(m).key \in Bind(m).asks
  BY PortKeys DEF Bind, Step, Steps

LEMMA BindSyncStep ==
  /\ BindSync \in Steps
  /\ BindSync.op = "bind" /\ BindSync.of = simulation_model /\ BindSync.socket = "sync"
  /\ BindSync.key = SyncKey /\ BindSync.key \in BindSync.asks
  BY PortKeys, SimulationModelName DEF BindSync, Step, Steps

LEMMA ConnectStep ==
  ASSUME NEW m \in Seq(Words)
  PROVE  /\ Connect(m) \in Steps
         /\ Connect(m).op = "connect" /\ Connect(m).of = m
         /\ Connect(m).socket = "publisher"
         /\ Connect(m).key = PortKey(m) /\ Connect(m).key \in Connect(m).asks
  BY PortKeys, IpKeys DEF Connect, Step, Steps

LEMMA ComplainStep ==
  ASSUME NEW m \in Seq(Words)
  PROVE  Complain(m) \in Steps /\ Complain(m).op = "fail"
  BY PortKeys DEF Complain, Step, Steps

LEMMA ConnectSyncStep ==
  /\ ConnectSync \in Steps
  /\ ConnectSync.op = "connect" /\ ConnectSync.of = simulation_model
  /\ ConnectSync.socket = "sync"
  /\ ConnectSync.key = SyncKey /\ ConnectSync.key \in ConnectSync.asks
  BY PortKeys, IpKeys, SimulationModelName DEF ConnectSync, Step, Steps

(* What InvTodo says of one step.                                          *)
GoodStep(m, step) ==
  /\ step.op \in {"bind", "connect"} =>
       /\ step.socket \in Sockets(step.of)
       /\ step.key = KeyOf(step.of, step.socket)
       /\ step.key \in step.asks
  /\ step.op = "bind" => step.of = m
  /\ step.op = "depend" => step.asks = {DependenciesOfMine}

LEMMA ScriptSteps ==
  ASSUME NEW path, NEW m \in Seq(Words)
  PROVE  /\ Script(path, m) \in Seq(Steps)
         /\ Script(path, m) # <<>>
         /\ \A i \in DOMAIN Script(path, m) : GoodStep(m, Script(path, m)[i])
<1> DEFINE Good == {step \in Steps : GoodStep(m, step)}
<1>1. Know({TotalNumModels}) \in Good /\ Know({NumPersistModels}) \in Good
  <2>1. /\ {TotalNumModels} \in SUBSET (Seq(Words) \ {<<>>})
        /\ {NumPersistModels} \in SUBSET (Seq(Words) \ {<<>>})
    BY WordsAssumption DEF TotalNumModels, NumPersistModels
  <2> QED BY <2>1, KnowStep DEF GoodStep
<1>2. Know(RouterParameters(m)) \in Good
  <2>1. RouterParameters(m) \in SUBSET (Seq(Words) \ {<<>>})
    BY WordsAssumption, KeysNotEmpty DEF RouterParameters
  <2> QED BY <2>1, KnowStep DEF GoodStep
<1>3. Bind(m) \in Good
  BY BindStep DEF GoodStep, Sockets, KeyOf
<1>4. m = simulation_model => BindSync \in Good
  BY BindSyncStep DEF GoodStep, Sockets, KeyOf
<1>5. Connect(simulation_model) \in Good
  BY ConnectStep, SimulationModelName DEF GoodStep, Sockets, KeyOf
<1>6. Depend \in Good
  BY DependStep DEF GoodStep
<1>7. ConnectSync \in Good
  BY ConnectSyncStep DEF GoodStep, Sockets, KeyOf
<1>8. Script(path, m) \in Seq(Good) /\ Script(path, m) # <<>>
  <2>1. CASE m = simulation_model
    <3>1. Script(path, m) = <<Know({TotalNumModels}), Know({NumPersistModels}),
                              Bind(m), BindSync>>
      BY <2>1 DEF Script
    <3> HIDE DEF Good
    <3> QED BY <3>1, <2>1, <1>1, <1>3, <1>4
  <2>2. CASE m # simulation_model
    <3> DEFINE first == IF path = "router" THEN <<Know(RouterParameters(m))>> ELSE <<>>
               second == <<Bind(m), Connect(simulation_model)>>
               third == IF path = "event_queue_1" THEN <<>> ELSE <<Depend>>
    <3>1. Script(path, m) = ((first \o second) \o third) \o <<ConnectSync>>
      BY <2>2 DEF Script
    <3> HIDE DEF Good
    <3>2. first \in Seq(Good) /\ second \in Seq(Good) /\ Len(second) = 2
          /\ third \in Seq(Good) /\ <<ConnectSync>> \in Seq(Good)
      BY <1>2, <1>3, <1>5, <1>6, <1>7
    <3>3. Len(<<ConnectSync>>) = 1
      OBVIOUS
    <3> HIDE DEF first, second, third
    <3>4. first \o second \in Seq(Good)
      BY <3>2
    <3>5. (first \o second) \o third \in Seq(Good)
      BY <3>2, <3>4
    <3> QED BY <3>1, <3>2, <3>3, <3>5
  <2> QED BY <2>1, <2>2
<1>9. \A i \in DOMAIN Script(path, m) : Script(path, m)[i] \in Good
  BY <1>8
<1>10. Script(path, m) \in Seq(Steps)
  BY <1>8
<1> QED BY <1>8, <1>9, <1>10

LEMMA ProcessNames ==
  /\ Processes \subseteq Seq(Words)
  /\ \A file \in HostsFiles : Names(file) \subseteq Processes
  BY FileType DEF Processes

LEMMA InitInv == Init => IInv
<1> SUFFICES ASSUME Init PROVE IInv
  OBVIOUS
<1> USE DEF Init, ServerInit
<1>1. InvShape
  <2>1. todo \in [Processes -> Seq(Steps)]
    BY ScriptSteps, ProcessNames
  <2>2. \A m \in Processes : status[m] = "preparing" => todo[m] # <<>>
    BY ScriptSteps, ProcessNames
  <2> QED BY <2>1, <2>2 DEF InvShape
<1>2. InvTable
  BY DEF InvTable
<1>3. InvQuestions
  BY DEF InvQuestions
<1>4. InvAnswers
  BY DEF InvAnswers, NoEntries
<1>5. InvTodo
  <2> SUFFICES ASSUME NEW m \in Processes, NEW i \in DOMAIN todo[m]
               PROVE  m \in Names(mDocument) /\ GoodStep(m, todo[m][i])
    BY DEF InvTodo, GoodStep
  <2>1. Started(m)
    OBVIOUS
  <2>2. todo[m] = Script(Path(m), m)
    BY <2>1
  <2> QED BY <2>1, <2>2, ScriptSteps, ProcessNames DEF Started
<1>6. InvSockets
  BY DEF InvSockets
<1> QED BY <1>1, <1>2, <1>3, <1>4, <1>5, <1>6 DEF IInv

-----------------------------------------------------------------------------
(* The steps of the server.                                                *)

LEMMA HeadAndTail ==
  ASSUME NEW S, NEW s \in Seq(S), s # <<>>
  PROVE  /\ 1 \in DOMAIN s /\ Head(s) = s[1] /\ Head(s) \in S
         /\ Tail(s) \in Seq(S)
         /\ \A i \in DOMAIN Tail(s) :
              i \in Nat /\ i # 0 /\ i + 1 \in DOMAIN s /\ Tail(s)[i] = s[i + 1] /\ Tail(s)[i] \in S
  OBVIOUS

LEMMA Askers ==
  ASSUME mFrontend \in Seq([identity : Processes, msg : Seq(Words)])
  PROVE  \A i \in DOMAIN mFrontend : mFrontend[i].identity \in Processes
<1> DEFINE Requests == [identity : Processes, msg : Seq(Words)]
<1>1. \A s \in Seq(Requests) : \A i \in DOMAIN s : s[i] \in Requests
  <2> HIDE DEF Requests
  <2> QED OBVIOUS
<1>2. \A i \in DOMAIN mFrontend : mFrontend[i] \in Requests
  BY <1>1
<1> QED BY <1>2

(* What InvQuestions says of two questions that wait.                      *)
GoodRequest(r, reply) == r.msg = asking[r.identity] /\ r.msg # <<>> /\ reply[r.identity] = <<>>

LEMMA Questions ==
  ASSUME InvQuestions, NEW i \in DOMAIN mFrontend, NEW j \in DOMAIN mFrontend,
         mFrontend[i].msg # <<"End">>
  PROVE  /\ GoodRequest(mFrontend[i], mailbox)
         /\ mFrontend[j].identity = mFrontend[i].identity /\ mFrontend[j].msg # <<"End">> => i = j
  BY DEF InvQuestions, GoodRequest

LEMMA ConfigureInv == IInv /\ Configure /\ UNCHANGED processVars => IInv'
<1> SUFFICES ASSUME IInv, Configure, UNCHANGED processVars PROVE IInv'
  OBVIOUS
<1> USE DEF IInv, Configure, processVars
<1>1. InvShape'
  BY DEF InvShape
<1>2. InvTable'
  BY DEF InvTable
<1>3. InvQuestions'
  BY DEF InvQuestions
<1>4. InvAnswers'
  BY DEF InvAnswers, Said
<1>5. InvTodo'
  BY DEF InvTodo
<1>6. InvSockets'
  BY DEF InvSockets, Said
<1> QED BY <1>1, <1>2, <1>3, <1>4, <1>5, <1>6

LEMMA ServeInv == IInv /\ Serve /\ UNCHANGED processVars => IInv'
<1> SUFFICES ASSUME IInv, Serve, UNCHANGED processVars PROVE IInv'
  OBVIOUS
<1> USE DEF IInv
<1> DEFINE request == Head(mFrontend)
           asker   == request.identity
<1>1. /\ mFrontend \in Seq([identity : Processes, msg : Seq(Words)])
      /\ mFrontend # <<>> /\ request = mFrontend[1] /\ 1 \in DOMAIN mFrontend
      /\ request.msg # <<"End">>
      /\ asker \in Processes
      /\ mFrontend' = Tail(mFrontend)
      /\ UNCHANGED <<mDocument, processVars>>
  <2>1. mFrontend \in Seq([identity : Processes, msg : Seq(Words)]) /\ mFrontend # <<>>
    BY DEF Serve, InvQuestions
  <2>2. request = mFrontend[1] /\ 1 \in DOMAIN mFrontend
    BY <2>1
  <2>3. asker \in Processes
    BY <2>1, <2>2, Askers
  <2>4. request.msg # <<"End">> /\ mFrontend' = Tail(mFrontend)
    BY DEF Serve
  <2> QED BY <2>1, <2>2, <2>3, <2>4 DEF Serve
<1>2. request.msg = asking[asker] /\ request.msg # <<>> /\ mailbox[asker] = <<>>
  BY <1>1, Questions DEF GoodRequest
<1>3. /\ DOMAIN mailbox' = Processes
      /\ \A m \in Processes \ {asker} : mailbox'[m] = mailbox[m]
      /\ mailbox'[asker] = <<Answer(mDocument, mModelInformation, asker, request.msg)>>
  <2>1. mailbox' = [mailbox EXCEPT ![asker] = Append(@,
                     Answer(mDocument, mModelInformation, asker, request.msg))]
    BY DEF Serve
  <2>2. DOMAIN mailbox = Processes
    BY DEF InvShape
  <2> QED BY <1>1, <1>2, <2>1, <2>2
<1>4. Answer(mDocument, mModelInformation, asker, request.msg) = Said(asker, asking[asker])
  <2>1. \A k \in DOMAIN mModelInformation \cup DOMAIN Information(mDocument) :
          getModelInformation(mModelInformation, k) =
            getModelInformation(Information(mDocument), k)
    BY DEF InvTable, Serve
  <2> QED BY <2>1, <1>2, AnswersAlike DEF Said
<1>5. InvShape'
  BY <1>1, <1>3 DEF InvShape, processVars
<1>6. InvTable'
  <2> SUFFICES ASSUME server = "serving",
                      NEW k \in DOMAIN mModelInformation' \cup DOMAIN Information(mDocument)
               PROVE  getModelInformation(mModelInformation', k) =
                        getModelInformation(Information(mDocument), k)
    BY <1>1 DEF InvTable, Serve
  <2>1. CASE mModelInformation' = mModelInformation
    BY <2>1 DEF InvTable
  <2>2. CASE /\ request.msg \notin DOMAIN mModelInformation
             /\ mModelInformation' =
                  Overwrite(mModelInformation, [x \in {request.msg} |-> Empty])
    <3>1. getModelInformation(mModelInformation', k) = getModelInformation(mModelInformation, k)
      BY <2>2, EmptyEntry
    <3>2. CASE k \in DOMAIN mModelInformation \cup DOMAIN Information(mDocument)
      BY <3>1, <3>2 DEF InvTable
    <3>3. CASE k \notin DOMAIN mModelInformation \cup DOMAIN Information(mDocument)
      BY <3>1, <3>3 DEF getModelInformation
    <3> QED BY <3>2, <3>3
  <2> QED BY <2>1, <2>2 DEF Serve
<1>7. InvQuestions'
  <2>1. /\ mFrontend' \in Seq([identity : Processes, msg : Seq(Words)])
        /\ \A i \in DOMAIN mFrontend' :
             /\ i \in Nat /\ i + 1 # 1 /\ i + 1 \in DOMAIN mFrontend
             /\ mFrontend'[i] = mFrontend[i + 1]
             /\ mFrontend'[i].identity \in Processes
    <3>1. \A i \in DOMAIN Tail(mFrontend) :
            Tail(mFrontend)[i] \in [identity : Processes, msg : Seq(Words)]
      BY <1>1, HeadAndTail
    <3>2. \A i \in DOMAIN Tail(mFrontend) :
            i \in Nat /\ i + 1 # 1 /\ i + 1 \in DOMAIN mFrontend
              /\ Tail(mFrontend)[i] = mFrontend[i + 1]
      BY <1>1, HeadAndTail
    <3> QED BY <1>1, <3>1, <3>2, HeadAndTail
  <2> SUFFICES ASSUME NEW i \in DOMAIN mFrontend', mFrontend'[i].msg # <<"End">>,
                      NEW j \in DOMAIN mFrontend'
               PROVE  LET r == mFrontend'[i] IN
                        /\ r.msg = asking[r.identity] /\ r.msg # <<>>
                        /\ mailbox'[r.identity] = <<>>
                        /\ mFrontend'[j].identity = r.identity /\ mFrontend'[j].msg # <<"End">>
                             => i = j
    BY <1>1, <2>1 DEF InvQuestions, processVars
  <2>3. mFrontend'[i].identity # asker
    BY <1>1, <2>1, Questions
  <2>4. /\ GoodRequest(mFrontend'[i], mailbox)
        /\ mFrontend'[j].identity = mFrontend'[i].identity /\ mFrontend'[j].msg # <<"End">>
             => i + 1 = j + 1
    BY <2>1, Questions
  <2> QED BY <1>3, <2>1, <2>3, <2>4 DEF GoodRequest
<1>8. InvAnswers'
  <2> SUFFICES ASSUME NEW m \in Processes
               PROVE  /\ mailbox'[m] # <<>> =>
                           asking[m] # <<>> /\ mailbox'[m] = <<Said(m, asking[m])>>
                      /\ \A q \in DOMAIN known[m] : known[m][q] = Said(m, q)
    BY <1>1 DEF InvAnswers, Said, processVars
  <2>1. CASE m = asker
    BY <2>1, <1>2, <1>3, <1>4 DEF InvAnswers
  <2>2. CASE m # asker
    BY <2>2, <1>3 DEF InvAnswers
  <2> QED BY <2>1, <2>2
<1>9. InvTodo'
  BY <1>1 DEF InvTodo, processVars
<1>10. InvSockets'
  BY <1>1 DEF InvSockets, Said, processVars
<1> QED BY <1>5, <1>6, <1>7, <1>8, <1>9, <1>10

LEMMA ServeEndInv == IInv /\ ServeEnd /\ UNCHANGED processVars => IInv'
<1> SUFFICES ASSUME IInv, ServeEnd, UNCHANGED processVars PROVE IInv'
  OBVIOUS
<1> USE DEF IInv, ServeEnd, processVars
<1>1. InvShape'
  BY DEF InvShape
<1>2. InvTable'
  BY DEF InvTable
<1>3. InvQuestions'
  <2>1. /\ mFrontend' \in Seq([identity : Processes, msg : Seq(Words)])
        /\ \A i \in DOMAIN mFrontend' : /\ i \in Nat /\ i + 1 \in DOMAIN mFrontend
                                        /\ mFrontend'[i] = mFrontend[i + 1]
    BY HeadAndTail DEF InvQuestions
  <2> SUFFICES ASSUME NEW i \in DOMAIN mFrontend', mFrontend'[i].msg # <<"End">>,
                      NEW j \in DOMAIN mFrontend'
               PROVE  LET r == mFrontend'[i] IN
                        /\ r.msg = asking[r.identity] /\ r.msg # <<>>
                        /\ mailbox[r.identity] = <<>>
                        /\ mFrontend'[j].identity = r.identity /\ mFrontend'[j].msg # <<"End">>
                             => i = j
    BY <2>1 DEF InvQuestions
  <2>2. /\ GoodRequest(mFrontend'[i], mailbox)
        /\ mFrontend'[j].identity = mFrontend'[i].identity /\ mFrontend'[j].msg # <<"End">>
             => i + 1 = j + 1
    BY <2>1, Questions
  <2> QED BY <2>1, <2>2 DEF GoodRequest
<1>4. InvAnswers'
  BY DEF InvAnswers, Said
<1>5. InvTodo'
  BY DEF InvTodo
<1>6. InvSockets'
  BY DEF InvSockets, Said
<1> QED BY <1>1, <1>2, <1>3, <1>4, <1>5, <1>6

LEMMA InterruptInv == IInv /\ Interrupt /\ UNCHANGED processVars => IInv'
<1> SUFFICES ASSUME IInv, Interrupt, UNCHANGED processVars PROVE IInv'
  OBVIOUS
<1> USE DEF IInv, Interrupt, processVars
<1>1. InvShape'
  BY DEF InvShape
<1>2. InvTable'
  BY DEF InvTable
<1>3. InvQuestions'
  BY DEF InvQuestions
<1>4. InvAnswers'
  BY DEF InvAnswers, Said
<1>5. InvTodo'
  BY DEF InvTodo
<1>6. InvSockets'
  BY DEF InvSockets, Said
<1> QED BY <1>1, <1>2, <1>3, <1>4, <1>5, <1>6

-----------------------------------------------------------------------------
(* The steps of the processes.                                             *)

LEMMA AskInv == ASSUME NEW m \in Processes, IInv, Ask(m) PROVE IInv'
<1> USE DEF IInv
<1>1. PICK q \in Head(todo[m]).asks \ DOMAIN known[m] :
        /\ asking' = [asking EXCEPT ![m] = q]
        /\ mFrontend' = Append(mFrontend, [identity |-> m, msg |-> q])
  BY DEF Ask
<1>2. /\ status[m] = "preparing" /\ asking[m] = <<>>
      /\ UNCHANGED <<server, mDocument, mModelInformation, interruptOccured, mailbox,
                     todo, known, status, bound, connected, mTotalNumOfModels>>
  BY DEF Ask
<1>3. q \in Seq(Words) /\ q # <<>>
  <2>1. todo[m] \in Seq(Steps) /\ todo[m] # <<>>
    BY <1>2 DEF InvShape
  <2>2. Head(todo[m]) \in Steps
    BY <2>1
  <2> QED BY <1>1, <2>2 DEF Steps
<1>4. /\ DOMAIN asking' = Processes /\ asking'[m] = q
      /\ \A n \in Processes \ {m} : asking'[n] = asking[n]
  BY <1>1 DEF InvShape
<1>5. mailbox[m] = <<>>
  BY <1>2 DEF InvAnswers
<1>6. InvShape'
  BY <1>2, <1>4 DEF InvShape
<1>7. InvTable'
  BY <1>2 DEF InvTable
<1>8. InvQuestions'
  <2> DEFINE Requests == [identity : Processes, msg : Seq(Words)]
             new == [identity |-> m, msg |-> q]
  <2>1. mFrontend \in Seq(Requests) /\ new \in Requests
    BY <1>3 DEF InvQuestions
  <2>2. mFrontend' \in Seq(Requests) /\ Len(mFrontend') = Len(mFrontend) + 1
    BY <1>1, <2>1, AppendProperties
  <2>3. \A i \in DOMAIN mFrontend' :
          \/ i \in DOMAIN mFrontend /\ mFrontend'[i] = mFrontend[i]
          \/ i = Len(mFrontend) + 1 /\ mFrontend'[i] = new
    BY <1>1, <2>1, <2>2, AppendProperties
  <2>4. \A i \in DOMAIN mFrontend : mFrontend[i].identity \in Processes
    BY <2>1, Askers
  <2>5. \A i \in DOMAIN mFrontend : mFrontend[i].msg # <<"End">> =>
          mFrontend[i].identity # m /\ GoodRequest(mFrontend[i], mailbox)
    BY <1>2, Questions DEF GoodRequest
  <2> SUFFICES ASSUME NEW i \in DOMAIN mFrontend', mFrontend'[i].msg # <<"End">>,
                      NEW j \in DOMAIN mFrontend'
               PROVE  LET r == mFrontend'[i] IN
                        /\ r.msg = asking'[r.identity] /\ r.msg # <<>>
                        /\ mailbox[r.identity] = <<>>
                        /\ mFrontend'[j].identity = r.identity /\ mFrontend'[j].msg # <<"End">>
                             => i = j
    BY <1>2, <2>2 DEF InvQuestions
  <2>6. CASE i \in DOMAIN mFrontend /\ mFrontend'[i] = mFrontend[i]
    <3>1. /\ mFrontend'[i].identity # m /\ GoodRequest(mFrontend'[i], mailbox)
          /\ mFrontend'[i].identity \in Processes
      BY <2>4, <2>5, <2>6
    <3>2. CASE j \in DOMAIN mFrontend /\ mFrontend'[j] = mFrontend[j]
      BY <1>4, <2>6, <3>1, <3>2, Questions DEF GoodRequest
    <3>3. CASE mFrontend'[j] = new
      BY <1>4, <3>1, <3>3 DEF GoodRequest
    <3> QED BY <2>3, <3>2, <3>3
  <2>7. CASE i = Len(mFrontend) + 1 /\ mFrontend'[i] = new
    <3>1. CASE j \in DOMAIN mFrontend /\ mFrontend'[j] = mFrontend[j]
      BY <1>3, <1>4, <1>5, <2>5, <2>7, <3>1
    <3>2. CASE j = i
      BY <1>3, <1>4, <1>5, <2>7, <3>2
    <3> QED BY <2>3, <2>7, <3>1, <3>2
  <2> QED BY <2>3, <2>6, <2>7
<1>9. InvAnswers'
  <2> SUFFICES ASSUME NEW n \in Processes
               PROVE  /\ mailbox[n] # <<>> =>
                           asking'[n] # <<>> /\ mailbox[n] = <<Said(n, asking'[n])>>
                      /\ \A k \in DOMAIN known[n] : known[n][k] = Said(n, k)
    BY <1>2 DEF InvAnswers, Said
  <2> QED BY <1>4, <1>5 DEF InvAnswers
<1>10. InvTodo'
  BY <1>2 DEF InvTodo
<1>11. InvSockets'
  BY <1>2 DEF InvSockets, Said
<1> QED BY <1>6, <1>7, <1>8, <1>9, <1>10, <1>11

LEMMA HearInv == ASSUME NEW m \in Processes, IInv, Hear(m) PROVE IInv'
<1> USE DEF IInv
<1>1. /\ mailbox[m] # <<>>
      /\ known' = [known EXCEPT ![m] = Overwrite(@, [q \in {asking[m]} |-> Head(mailbox[m])])]
      /\ asking' = [asking EXCEPT ![m] = <<>>]
      /\ mailbox' = [mailbox EXCEPT ![m] = Tail(@)]
      /\ UNCHANGED <<server, mDocument, mModelInformation, interruptOccured, mFrontend,
                     todo, status, bound, connected, mTotalNumOfModels>>
  BY DEF Hear
<1>2. mailbox[m] = <<Said(m, asking[m])>>
  BY <1>1 DEF InvAnswers
<1>3. Head(mailbox[m]) = Said(m, asking[m]) /\ Tail(mailbox[m]) = <<>>
  BY <1>2
<1>4. /\ DOMAIN asking' = Processes /\ DOMAIN mailbox' = Processes /\ DOMAIN known' = Processes
      /\ mailbox'[m] = <<>>
      /\ \A n \in Processes \ {m} :
           asking'[n] = asking[n] /\ mailbox'[n] = mailbox[n] /\ known'[n] = known[n]
      /\ known'[m] = Overwrite(known[m], [q \in {asking[m]} |-> Said(m, asking[m])])
  BY <1>1, <1>3 DEF InvShape
<1>5. InvShape'
  BY <1>1, <1>4 DEF InvShape
<1>6. InvTable'
  BY <1>1 DEF InvTable
<1>7. InvQuestions'
  <2>1. mFrontend \in Seq([identity : Processes, msg : Seq(Words)])
    BY DEF InvQuestions
  <2>2. \A i \in DOMAIN mFrontend : mFrontend[i].identity \in Processes
    BY <2>1, Askers
  <2>3. \A i \in DOMAIN mFrontend : mFrontend[i].msg # <<"End">> =>
          mFrontend[i].identity # m
    BY <1>1, Questions DEF GoodRequest
  <2> SUFFICES ASSUME NEW i \in DOMAIN mFrontend, mFrontend[i].msg # <<"End">>,
                      NEW j \in DOMAIN mFrontend
               PROVE  LET r == mFrontend[i] IN
                        /\ r.msg = asking'[r.identity] /\ r.msg # <<>>
                        /\ mailbox'[r.identity] = <<>>
                        /\ mFrontend[j].identity = r.identity /\ mFrontend[j].msg # <<"End">>
                             => i = j
    BY <1>1, <2>1 DEF InvQuestions
  <2> QED BY <1>4, <2>2, <2>3, Questions DEF GoodRequest
<1>8. InvAnswers'
  <2> SUFFICES ASSUME NEW n \in Processes
               PROVE  /\ mailbox'[n] # <<>> =>
                           asking'[n] # <<>> /\ mailbox'[n] = <<Said(n, asking'[n])>>
                      /\ \A k \in DOMAIN known'[n] : known'[n][k] = Said(n, k)
    BY <1>1 DEF InvAnswers, Said
  <2>1. CASE n = m
    BY <2>1, <1>4 DEF InvAnswers, Overwrite
  <2>2. CASE n # m
    BY <2>2, <1>4 DEF InvAnswers
  <2> QED BY <2>1, <2>2
<1>9. InvTodo'
  BY <1>1 DEF InvTodo
<1>10. InvSockets'
  BY <1>1 DEF InvSockets, Said
<1> QED BY <1>5, <1>6, <1>7, <1>8, <1>9, <1>10

(* What is known of the step that m takes.                                 *)
LEMMA PresentStep ==
  ASSUME NEW m \in Processes, IInv, NEW op, Knows(m, op)
  PROVE  /\ todo[m] \in Seq(Steps) /\ todo[m] # <<>>
         /\ m \in Names(mDocument)
         /\ Head(todo[m]).op = op
         /\ GoodStep(m, Head(todo[m]))
         /\ \A q \in Head(todo[m]).asks : known[m][q] = Said(m, q)
<1>1. todo[m] \in Seq(Steps) /\ todo[m] # <<>>
  BY DEF Knows, IInv, InvShape
<1>2. 1 \in DOMAIN todo[m] /\ Head(todo[m]) = todo[m][1]
  BY <1>1, HeadAndTail
<1>3. m \in Names(mDocument) /\ GoodStep(m, Head(todo[m]))
  BY <1>2 DEF IInv, InvTodo, GoodStep
<1>4. \A q \in Head(todo[m]).asks : known[m][q] = Said(m, q)
  BY DEF Knows, IInv, InvAnswers
<1> QED BY <1>1, <1>3, <1>4 DEF Knows

(* What the variables that GoOn and GiveUp change satisfy afterwards.      *)
ScriptsFine ==
  /\ todo' \in [Processes -> Seq(Steps)]
  /\ DOMAIN known' = Processes /\ DOMAIN status' = Processes
  /\ \A n \in Processes : status'[n] = "preparing" => todo'[n] # <<>>
  /\ \A n \in Processes : \A i \in DOMAIN todo'[n] :
       n \in Names(mDocument) /\ GoodStep(n, todo'[n][i])
  /\ \A n \in Processes : \A q \in DOMAIN known'[n] : known'[n][q] = Said(n, q)

LEMMA Concatenation ==
  ASSUME NEW S, NEW s \in Seq(S), NEW t \in Seq(S)
  PROVE  /\ s \o t \in Seq(S)
         /\ \A i \in DOMAIN (s \o t) :
              \/ i \in DOMAIN s /\ (s \o t)[i] = s[i]
              \/ i - Len(s) \in DOMAIN t /\ (s \o t)[i] = t[i - Len(s)]
  OBVIOUS

LEMMA GoOnFine ==
  ASSUME NEW m \in Processes, IInv, NEW op, Knows(m, op),
         NEW steps \in Seq(Steps), \A i \in DOMAIN steps : GoodStep(m, steps[i]),
         GoOn(m, steps)
  PROVE  ScriptsFine
<1> DEFINE next == steps \o Tail(todo[m])
<1>1. /\ todo[m] \in Seq(Steps) /\ todo[m] # <<>> /\ m \in Names(mDocument)
      /\ \A n \in Processes : todo[n] \in Seq(Steps)
  BY PresentStep DEF IInv, InvShape
<1>2. Tail(todo[m]) \in Seq(Steps) /\ next \in Seq(Steps)
  BY <1>1, HeadAndTail, Concatenation
<1>3. \A n \in Processes : \A i \in DOMAIN todo[n] :
        n \in Names(mDocument) /\ GoodStep(n, todo[n][i])
  BY DEF IInv, InvTodo, GoodStep
<1>4. \A i \in DOMAIN Tail(todo[m]) : GoodStep(m, Tail(todo[m])[i])
  BY <1>1, <1>3, HeadAndTail
<1>5. \A i \in DOMAIN next : GoodStep(m, next[i])
  <2> SUFFICES ASSUME NEW i \in DOMAIN next PROVE GoodStep(m, next[i])
    OBVIOUS
  <2>1. \/ i \in DOMAIN steps /\ next[i] = steps[i]
        \/ i - Len(steps) \in DOMAIN Tail(todo[m])
             /\ next[i] = Tail(todo[m])[i - Len(steps)]
    BY <1>2, Concatenation
  <2> QED BY <2>1, <1>4
<1>6. /\ todo' = [todo EXCEPT ![m] = next]
      /\ known' = [known EXCEPT ![m] = NoEntries]
      /\ status' = [status EXCEPT ![m] = IF next = <<>> THEN "ready" ELSE "preparing"]
  BY DEF GoOn
<1>7. todo \in [Processes -> Seq(Steps)] /\ DOMAIN known = Processes /\ DOMAIN status = Processes
      /\ \A n \in Processes : status[n] = "preparing" => todo[n] # <<>>
  BY DEF IInv, InvShape
<1>8. /\ todo'[m] = next /\ known'[m] = NoEntries
      /\ status'[m] = IF next = <<>> THEN "ready" ELSE "preparing"
      /\ \A n \in Processes \ {m} :
           todo'[n] = todo[n] /\ known'[n] = known[n] /\ status'[n] = status[n]
  BY <1>6, <1>7
<1>9. /\ todo' \in [Processes -> Seq(Steps)]
      /\ DOMAIN known' = Processes /\ DOMAIN status' = Processes
  BY <1>2, <1>6, <1>7
<1>10. \A n \in Processes : status'[n] = "preparing" => todo'[n] # <<>>
  BY <1>7, <1>8
<1>11. \A n \in Processes : \A i \in DOMAIN todo'[n] :
         n \in Names(mDocument) /\ GoodStep(n, todo'[n][i])
  BY <1>1, <1>3, <1>5, <1>8
<1>12. \A n \in Processes : \A q \in DOMAIN known'[n] : known'[n][q] = Said(n, q)
  BY <1>8 DEF IInv, InvAnswers, NoEntries
<1> QED BY <1>9, <1>10, <1>11, <1>12 DEF ScriptsFine

LEMMA GoOnNextFine ==
  ASSUME NEW m \in Processes, IInv, NEW op, Knows(m, op), GoOn(m, <<>>)
  PROVE  ScriptsFine
<1>1. <<>> \in Seq(Steps) /\ DOMAIN <<>> = {}
  OBVIOUS
<1>2. \A i \in DOMAIN <<>> : GoodStep(m, <<>>[i])
  BY <1>1
<1> QED BY <1>1, <1>2, GoOnFine

LEMMA GiveUpFine ==
  ASSUME NEW m \in Processes, IInv, GiveUp(m)
  PROVE  ScriptsFine
<1>1. todo \in [Processes -> Seq(Steps)] /\ DOMAIN known = Processes /\ DOMAIN status = Processes
      /\ \A n \in Processes : status[n] = "preparing" => todo[n] # <<>>
  BY DEF IInv, InvShape
<1>2. /\ todo'[m] = <<>> /\ known'[m] = NoEntries /\ status'[m] = "failed"
      /\ \A n \in Processes \ {m} :
           todo'[n] = todo[n] /\ known'[n] = known[n] /\ status'[n] = status[n]
  BY <1>1 DEF GiveUp
<1>3. /\ todo' \in [Processes -> Seq(Steps)]
      /\ DOMAIN known' = Processes /\ DOMAIN status' = Processes
  BY <1>1 DEF GiveUp
<1>4. \A n \in Processes : \A i \in DOMAIN todo[n] :
        n \in Names(mDocument) /\ GoodStep(n, todo[n][i])
  BY DEF IInv, InvTodo, GoodStep
<1>5. \A n \in Processes : \A q \in DOMAIN known'[n] : known'[n][q] = Said(n, q)
  BY <1>2 DEF IInv, InvAnswers, NoEntries
<1>6. \A n \in Processes : status'[n] = "preparing" => todo'[n] # <<>>
  BY <1>1, <1>2
<1>7. \A n \in Processes : \A i \in DOMAIN todo'[n] :
        n \in Names(mDocument) /\ GoodStep(n, todo'[n][i])
  <2>1. DOMAIN todo'[m] = {}
    BY <1>2
  <2> QED BY <1>2, <1>4, <2>1
<1> QED BY <1>3, <1>5, <1>6, <1>7 DEF ScriptsFine

LEMMA ComplaintFine ==
  ASSUME NEW m \in Processes, IInv, NEW op, Knows(m, op),
         todo' = [todo EXCEPT ![m] = <<Complain(m)>>],
         known' = [known EXCEPT ![m] = NoEntries],
         UNCHANGED <<status, serverVars>>
  PROVE  ScriptsFine
<1> DEFINE next == <<Complain(m)>>
<1>1. todo \in [Processes -> Seq(Steps)] /\ DOMAIN known = Processes /\ DOMAIN status = Processes
      /\ \A n \in Processes : status[n] = "preparing" => todo[n] # <<>>
  BY DEF IInv, InvShape
<1>2. Complain(m) \in Steps /\ GoodStep(m, Complain(m)) /\ m \in Names(mDocument)
  BY ComplainStep, ProcessNames, PresentStep DEF GoodStep
<1>3. next \in Seq(Steps) /\ next # <<>> /\ \A i \in DOMAIN next : next[i] = Complain(m)
  BY <1>2
<1> HIDE DEF next
<1>4. /\ todo'[m] = next /\ known'[m] = NoEntries
      /\ \A n \in Processes \ {m} : todo'[n] = todo[n] /\ known'[n] = known[n]
  BY <1>1 DEF next
<1>5. /\ todo' \in [Processes -> Seq(Steps)]
      /\ DOMAIN known' = Processes /\ DOMAIN status' = Processes
  BY <1>1, <1>3 DEF next
<1>6. \A n \in Processes : status'[n] = "preparing" => todo'[n] # <<>>
  BY <1>1, <1>3, <1>4
<1>7. \A n \in Processes : \A i \in DOMAIN todo[n] :
        n \in Names(mDocument) /\ GoodStep(n, todo[n][i])
  BY DEF IInv, InvTodo, GoodStep
<1>8. \A n \in Processes : \A i \in DOMAIN todo'[n] :
        n \in Names(mDocument) /\ GoodStep(n, todo'[n][i])
  BY <1>2, <1>3, <1>4, <1>7
<1>9. \A n \in Processes : \A q \in DOMAIN known'[n] : known'[n][q] = Said(n, q)
  BY <1>4 DEF IInv, InvAnswers, NoEntries
<1> QED BY <1>5, <1>6, <1>8, <1>9 DEF ScriptsFine

(* With that the invariant only needs the sockets.                         *)
LEMMA ScriptsInv ==
  ASSUME IInv, ScriptsFine, UNCHANGED <<serverVars, asking>>,
         DOMAIN bound' = Processes, DOMAIN connected' = Processes,
         InvSockets'
  PROVE  IInv'
<1> USE DEF IInv, ScriptsFine, serverVars
<1>1. InvShape'
  BY DEF InvShape
<1>2. InvTable'
  BY DEF InvTable
<1>3. InvQuestions'
  BY DEF InvQuestions
<1>4. InvAnswers'
  BY DEF InvAnswers, Said
<1>5. InvTodo'
  BY DEF InvTodo, GoodStep
<1> QED BY <1>1, <1>2, <1>3, <1>4, <1>5

LEMMA BindSocketInv == ASSUME NEW m \in Processes, IInv, BindSocket(m) PROVE IInv'
<1> DEFINE step == Head(todo[m])
           port == known[m][step.key]
<1>1. Knows(m, "bind") /\ UNCHANGED <<serverVars, asking>>
  BY DEF BindSocket
<1>2. /\ m \in Names(mDocument) /\ GoodStep(m, step) /\ step.op = "bind"
      /\ \A q \in step.asks : known[m][q] = Said(m, q)
  BY <1>1, PresentStep
<1>3. step.socket \in Sockets(m) /\ port = Said(m, KeyOf(m, step.socket))
  BY <1>2 DEF GoodStep
<1>4. DOMAIN bound = Processes /\ DOMAIN connected = Processes /\ InvSockets
  BY DEF IInv, InvShape
<1>5. CASE /\ port # Empty
           /\ bound' = [bound EXCEPT ![m] = @ \cup {[socket |-> step.socket, port |-> port]}]
           /\ GoOn(m, <<>>)
           /\ UNCHANGED connected
  <2>1. ScriptsFine
    BY <1>1, <1>5, GoOnNextFine
  <2>2. /\ DOMAIN bound' = Processes
        /\ \A n \in Processes \ {m} : bound'[n] = bound[n]
        /\ bound'[m] = bound[m] \cup {[socket |-> step.socket, port |-> port]}
    BY <1>4, <1>5
  <2>3. InvSockets'
    BY <1>1, <1>2, <1>3, <1>4, <1>5, <2>2 DEF InvSockets, Said, serverVars
  <2> QED BY <1>1, <1>4, <1>5, <2>1, <2>2, <2>3, ScriptsInv
<1>6. CASE GiveUp(m)
  <2>1. ScriptsFine
    BY <1>6, GiveUpFine
  <2>2. InvSockets'
    BY <1>1, <1>4, <1>6 DEF InvSockets, Said, serverVars, GiveUp
  <2> QED BY <1>1, <1>4, <1>6, <2>1, <2>2, ScriptsInv DEF GiveUp
<1>7. CASE /\ todo' = [todo EXCEPT ![m] = <<Complain(m)>>]
           /\ known' = [known EXCEPT ![m] = NoEntries]
           /\ UNCHANGED <<status, bound, connected>>
  <2>1. ScriptsFine
    BY <1>1, <1>7, ComplaintFine
  <2>2. InvSockets'
    BY <1>1, <1>4, <1>7 DEF InvSockets, Said, serverVars
  <2> QED BY <1>1, <1>4, <1>7, <2>1, <2>2, ScriptsInv
<1> QED BY <1>5, <1>6, <1>7 DEF BindSocket

LEMMA ComplaintMadeInv == ASSUME NEW m \in Processes, IInv, ComplaintMade(m) PROVE IInv'
<1>1. GiveUp(m) /\ UNCHANGED <<serverVars, asking>>
  BY DEF ComplaintMade
<1>2. ScriptsFine
  BY <1>1, GiveUpFine
<1>3. /\ DOMAIN bound' = Processes /\ DOMAIN connected' = Processes
      /\ InvSockets'
  BY <1>1 DEF IInv, InvShape, InvSockets, Said, serverVars, GiveUp
<1> QED BY <1>1, <1>2, <1>3, ScriptsInv

LEMMA ConnectSocketInv == ASSUME NEW m \in Processes, IInv, ConnectSocket(m) PROVE IInv'
<1> DEFINE step == Head(todo[m])
           ip   == known[m][IpKey(step.of)]
           port == known[m][step.key]
           new  == [to |-> step.of, socket |-> step.socket, ip |-> ip, port |-> port]
<1>1. Knows(m, "connect") /\ UNCHANGED <<serverVars, asking>>
  BY DEF ConnectSocket
<1>2. /\ GoodStep(m, step) /\ step.op = "connect"
      /\ \A q \in step.asks : known[m][q] = Said(m, q)
  BY <1>1, PresentStep
<1>3. port = Said(m, KeyOf(step.of, step.socket))
  BY <1>2 DEF GoodStep
<1>4. DOMAIN bound = Processes /\ DOMAIN connected = Processes /\ InvSockets
  BY DEF IInv, InvShape
<1>5. CASE /\ connected' = [connected EXCEPT ![m] = @ \cup {new}]
           /\ GoOn(m, <<>>)
           /\ UNCHANGED bound
  <2>1. ScriptsFine
    BY <1>1, <1>5, GoOnNextFine
  <2>2. /\ DOMAIN connected' = Processes
        /\ \A n \in Processes \ {m} : connected'[n] = connected[n]
        /\ connected'[m] = connected[m] \cup {new}
    BY <1>4, <1>5
  <2>3. new.port = Said(m, KeyOf(new.to, new.socket))
    BY <1>3
  <2>4. InvSockets'
    <3> HIDE DEF new
    <3> QED BY <1>1, <1>4, <1>5, <2>2, <2>3 DEF InvSockets, Said, serverVars
  <2> QED BY <1>1, <1>4, <1>5, <2>1, <2>2, <2>4, ScriptsInv
<1>6. CASE GiveUp(m)
  <2>1. ScriptsFine
    BY <1>6, GiveUpFine
  <2>2. InvSockets'
    BY <1>1, <1>4, <1>6 DEF InvSockets, Said, serverVars, GiveUp
  <2> QED BY <1>1, <1>4, <1>6, <2>1, <2>2, ScriptsInv DEF GiveUp
<1> QED BY <1>5, <1>6 DEF ConnectSocket

LEMMA DependencySteps ==
  ASSUME NEW m, NEW path, NEW names \in Seq(Seq(Words))
  PROVE  /\ ForDependencies(path, names) \in Seq(Steps)
         /\ \A i \in DOMAIN ForDependencies(path, names) :
              GoodStep(m, ForDependencies(path, names)[i])
<1> DEFINE steps == ForDependencies(path, names)
           Good == {step \in Steps : GoodStep(m, step)}
<1>1. Len(names) \in Nat /\ DOMAIN names = 1 .. Len(names)
      /\ \A i \in 1 .. Len(names) : names[i] \in Seq(Words)
  OBVIOUS
<1>2. ASSUME NEW i \in 1 .. Len(names) PROVE Connect(names[i]) \in Good
  BY <1>1, ConnectStep DEF GoodStep, Sockets, KeyOf
<1>3. ASSUME NEW i \in 1 .. Len(names) PROVE Know({Append(names[i], "address")}) \in Good
  <2>1. {Append(names[i], "address")} \in SUBSET (Seq(Words) \ {<<>>})
    BY <1>1, KeysNotEmpty, WordsAssumption
  <2> QED BY <2>1, KnowStep DEF GoodStep
<1> HIDE DEF Good
<1>4. CASE path = "processing_element"
  <2> DEFINE twice == 2 * Len(names)
             at(i) == IF i % 2 = 1 THEN Connect(names[(i + 1) \div 2])
                                   ELSE Know({Append(names[i \div 2], "address")})
  <2>1. twice \in Nat
    BY <1>1
  <2>2. ASSUME NEW i \in 1 .. twice PROVE at(i) \in Good
    <3>1. CASE i % 2 = 1
      <4>1. (i + 1) \div 2 \in 1 .. Len(names)
        BY <1>1, <3>1
      <4> QED BY <3>1, <4>1, <1>2
    <3>2. CASE i % 2 # 1
      <4>1. i \div 2 \in 1 .. Len(names)
        BY <1>1, <3>2
      <4> QED BY <3>2, <4>1, <1>3
    <3> QED BY <3>1, <3>2
  <2>3. steps = [i \in 1 .. twice |-> at(i)]
    BY <1>4 DEF ForDependencies
  <2> HIDE DEF steps, twice, at
  <2>4. steps \in [1 .. twice -> Good]
    BY <2>2, <2>3
  <2>5. steps \in Seq(Good) /\ DOMAIN steps = 1 .. twice /\ \A i \in DOMAIN steps : steps[i] \in Good
    BY <2>1, <2>4
  <2>6. steps \in Seq(Steps)
    BY <2>1, <2>4 DEF Good
  <2> QED BY <2>5, <2>6 DEF Good, steps
<1>5. CASE path # "processing_element"
  <2>1. steps = [i \in 1 .. Len(names) |-> Connect(names[i])]
    BY <1>1, <1>5 DEF ForDependencies
  <2> HIDE DEF steps
  <2>2. steps \in [1 .. Len(names) -> Good]
    BY <1>2, <2>1
  <2>3. DOMAIN steps = 1 .. Len(names) /\ \A i \in DOMAIN steps : steps[i] \in Good
    BY <2>2
  <2>4. steps \in Seq(Steps)
    BY <1>1, <2>2 DEF Good
  <2> QED BY <2>3, <2>4 DEF Good, steps
<1> QED BY <1>4, <1>5

LEMMA FindDependenciesInv ==
  ASSUME NEW m \in Processes, IInv, FindDependencies(m)
  PROVE  IInv'
<1> DEFINE names == known[m][DependenciesOfMine]
           steps == ForDependencies(Path(m), names)
<1>1. /\ Knows(m, "depend") /\ GoOn(m, steps)
      /\ UNCHANGED <<serverVars, asking, bound, connected>>
  BY DEF FindDependencies
<1>2. names \in Seq(Seq(Words))
  <2>1. names = Said(m, DependenciesOfMine)
    BY <1>1, PresentStep DEF GoodStep
  <2>2. mDocument \in HostsFiles
    BY DEF IInv, InvShape
  <2> QED BY <2>1, <2>2, AnswerToDependencies DEF Said
<1>3. steps \in Seq(Steps) /\ \A i \in DOMAIN steps : GoodStep(m, steps[i])
  BY <1>2, DependencySteps
<1>4. ScriptsFine
  <2> HIDE DEF steps
  <2> QED BY <1>1, <1>3, GoOnFine
<1>5. DOMAIN bound' = Processes /\ DOMAIN connected' = Processes
  BY <1>1 DEF IInv, InvShape
<1>6. InvSockets'
  BY <1>1 DEF IInv, InvSockets, Said, serverVars
<1> QED BY <1>1, <1>4, <1>5, <1>6, ScriptsInv

LEMMA KeepInv == ASSUME NEW m \in Processes, IInv, Keep(m) PROVE IInv'
<1>1. /\ Knows(m, "know") /\ GoOn(m, <<>>)
      /\ UNCHANGED <<serverVars, asking, bound, connected>>
  BY DEF Keep
<1>2. ScriptsFine
  BY <1>1, GoOnNextFine
<1>3. DOMAIN bound' = Processes /\ DOMAIN connected' = Processes
  BY <1>1 DEF IInv, InvShape
<1>4. InvSockets'
  BY <1>1 DEF IInv, InvSockets, Said, serverVars
<1> QED BY <1>1, <1>2, <1>3, <1>4, ScriptsInv

LEMMA StopServerInv == IInv /\ StopServer => IInv'
<1> SUFFICES ASSUME IInv, StopServer PROVE IInv'
  OBVIOUS
<1> USE DEF IInv
<1> DEFINE Requests == [identity : Processes, msg : Seq(Words)]
           end == [identity |-> simulation_model, msg |-> <<"End">>]
<1>1. /\ status' = [status EXCEPT ![simulation_model] = "ended"]
      /\ mFrontend' = Append(mFrontend, end)
      /\ UNCHANGED <<server, mDocument, mModelInformation, interruptOccured, mailbox,
                     todo, known, asking, bound, connected, mTotalNumOfModels>>
  BY DEF StopServer
<1>2. end \in Requests /\ end.msg = <<"End">>
  <2>1. simulation_model \in Processes
    BY SimulationModelAssumption, ProcessNames DEF InvShape
  <2>2. <<"End">> \in Seq(Words)
    BY WordsAssumption
  <2> QED BY <2>1, <2>2
<1>3. /\ mFrontend' \in Seq(Requests)
      /\ \A i \in DOMAIN mFrontend' :
           \/ i \in DOMAIN mFrontend /\ mFrontend'[i] = mFrontend[i]
           \/ mFrontend'[i] = end
  <2>1. mFrontend \in Seq(Requests)
    BY DEF InvQuestions
  <2> HIDE DEF Requests, end
  <2> QED BY <1>1, <1>2, <2>1, AppendProperties
<1>4. InvShape'
  BY <1>1 DEF InvShape
<1>5. InvTable'
  BY <1>1 DEF InvTable
<1>6. InvQuestions'
  <2> SUFFICES ASSUME NEW i \in DOMAIN mFrontend', mFrontend'[i].msg # <<"End">>,
                      NEW j \in DOMAIN mFrontend'
               PROVE  LET r == mFrontend'[i] IN
                        /\ r.msg = asking[r.identity] /\ r.msg # <<>>
                        /\ mailbox[r.identity] = <<>>
                        /\ mFrontend'[j].identity = r.identity /\ mFrontend'[j].msg # <<"End">>
                             => i = j
    BY <1>1, <1>3 DEF InvQuestions
  <2>1. i \in DOMAIN mFrontend /\ mFrontend'[i] = mFrontend[i]
    BY <1>2, <1>3
  <2>2. CASE j \in DOMAIN mFrontend /\ mFrontend'[j] = mFrontend[j]
    BY <2>1, <2>2, Questions DEF GoodRequest
  <2>3. CASE mFrontend'[j] = end
    BY <1>2, <2>1, <2>3, Questions DEF GoodRequest
  <2> QED BY <1>3, <2>2, <2>3
<1>7. InvAnswers'
  BY <1>1 DEF InvAnswers, Said
<1>8. InvTodo'
  BY <1>1 DEF InvTodo
<1>9. InvSockets'
  BY <1>1 DEF InvSockets, Said
<1> QED BY <1>4, <1>5, <1>6, <1>7, <1>8, <1>9

LEMMA StutterInv == IInv /\ UNCHANGED vars => IInv'
  BY DEF IInv, vars, serverVars, processVars, InvShape, InvTable, InvQuestions, InvAnswers,
         InvTodo, InvSockets, Said

LEMMA NextInv == IInv /\ [Next]_vars => IInv'
<1> SUFFICES ASSUME IInv, [Next]_vars PROVE IInv'
  OBVIOUS
<1>1. CASE ServerStep
  BY <1>1, ConfigureInv, ServeInv, ServeEndInv DEF ServerStep
<1>2. CASE Signal
  BY <1>2, InterruptInv DEF Signal
<1>3. ASSUME NEW m \in Processes, Prepare(m) PROVE IInv'
  BY <1>3, AskInv, HearInv, BindSocketInv, ComplaintMadeInv, ConnectSocketInv, FindDependenciesInv, KeepInv
     DEF Prepare
<1>4. CASE StopServer
  BY <1>4, StopServerInv
<1>5. CASE UNCHANGED vars
  BY <1>5, StutterInv
<1> QED BY <1>1, <1>2, <1>3, <1>4, <1>5 DEF Next

(* Whatever the hosts file and the failures, the server's table reads as   *)
(* after its constructor, every process waits for at most one answer, and  *)
(* its sockets are those that the file gives it                            *)
(* (ConfigurationServer::run, prepare of every class).                     *)
THEOREM ConfigurationInvariant == Spec => []IInv
  BY InitInv, NextInv, PTL DEF Spec

-----------------------------------------------------------------------------
(* The ports.                                                              *)

LEMMA PortKeyInjective ==
  ASSUME NEW m \in Seq(Words), NEW n \in Seq(Words), PortKey(m) = PortKey(n)
  PROVE  m = n
<1>1. ASSUME NEW s \in Seq(Words)
      PROVE  /\ Len(PortKey(s)) = Len(s) + 1
             /\ \A i \in 1 .. Len(s) : PortKey(s)[i] = s[i]
  BY <1>1, AppendProperties, WordsAssumption DEF PortKey
<1>2. Len(m) = Len(n) /\ \A i \in 1 .. Len(m) : m[i] = n[i]
  BY <1>1
<1> QED BY <1>2

LEMMA SyncKeyName ==
  ASSUME NEW m \in Seq(Words), PortKey(m) = SyncKey
  PROVE  m = <<"sim", "sync">>
<1>1. /\ Len(PortKey(m)) = Len(m) + 1
      /\ \A i \in 1 .. Len(m) : PortKey(m)[i] = m[i]
  BY AppendProperties, WordsAssumption DEF PortKey
<1>2. Len(SyncKey) = 3 /\ SyncKey[1] = "sim" /\ SyncKey[2] = "sync"
  BY DEF SyncKey
<1>3. Len(m) \in Nat
  OBVIOUS
<1>4. Len(m) = 2
  <2>1. Len(m) + 1 = 3
    BY <1>1, <1>2
  <2>2. \A k \in Nat : k + 1 = 3 => k = 2
    OBVIOUS
  <2> QED BY <2>1, <2>2, <1>3
<1>5. m[1] = "sim" /\ m[2] = "sync"
  BY <1>1, <1>2, <1>4
<1> DEFINE name == <<"sim", "sync">>
<1>6. name \in Seq(Words)
  BY WordsAssumption
<1>7. Len(name) = 2 /\ name[1] = "sim" /\ name[2] = "sync"
  OBVIOUS
<1> HIDE DEF name
<1>8. m = name
  BY <1>4, <1>5, <1>6, <1>7, SeqEqual
<1> QED BY <1>8 DEF name

LEMMA PortKeyNotIpKey ==
  ASSUME NEW m \in Seq(Words), NEW n \in Seq(Words)
  PROVE  PortKey(m) # IpKey(n)
<1> SUFFICES ASSUME PortKey(m) = IpKey(n) PROVE FALSE
  OBVIOUS
<1>1. Len(PortKey(m)) = Len(m) + 1 /\ PortKey(m)[Len(m) + 1] = "port"
  BY AppendProperties, WordsAssumption DEF PortKey
<1>2. Len(IpKey(n)) = Len(n) + 1 /\ IpKey(n)[Len(n) + 1] = "ip"
  BY AppendProperties, WordsAssumption DEF IpKey
<1> QED BY <1>1, <1>2

LEMMA SyncKeyNotIpKey ==
  ASSUME NEW n \in Seq(Words)
  PROVE  SyncKey # IpKey(n)
<1> SUFFICES ASSUME SyncKey = IpKey(n) PROVE FALSE
  OBVIOUS
<1>1. Len(IpKey(n)) = Len(n) + 1 /\ IpKey(n)[Len(n) + 1] = "ip"
  BY AppendProperties, WordsAssumption DEF IpKey
<1>2. Len(SyncKey) = 3 /\ SyncKey[3] = "port"
  BY DEF SyncKey
<1>3. Len(n) \in Nat /\ Len(n) + 1 = 3
  BY <1>1, <1>2
<1> QED BY <1>1, <1>2, <1>3

LEMMA InformationOf ==
  ASSUME NEW file, NEW k, k \notin DOMAIN ParameterTable(file), k \notin DOMAIN IpTable(file)
  PROVE  getModelInformation(Information(file), k) =
           IF k \in DOMAIN SyncTable(file) THEN SyncTable(file)[k]
           ELSE IF k \in DOMAIN PortTable(file) THEN PortTable(file)[k] ELSE Empty
  BY DEF Information, Overwrite, getModelInformation

LEMMA PortGiven ==
  ASSUME NEW file \in HostsFiles, NoClash(file), NEW m \in Names(file),
         getModelInformation(Information(file), PortKey(m)) # Empty
  PROVE  \E i \in Assigned(file) :
           /\ file.models[i].id = m
           /\ getModelInformation(Information(file), PortKey(m)) = file.minPort + i - 1
<1> DEFINE k == PortKey(m)
           S == {i \in Assigned(file) : PortKey(file.models[i].id) = k}
<1>1. m \in Seq(Words) /\ Names(file) \subseteq Seq(Words)
  BY FileType
<1>2. k \notin DOMAIN ParameterTable(file)
  BY DEF NoClash, ReservedKeys, ParameterTable
<1>3. k \notin DOMAIN IpTable(file)
  BY <1>1, PortKeyNotIpKey DEF IpTable
<1>4. k \notin DOMAIN SyncTable(file)
  BY <1>1, SyncKeyName DEF NoClash, SyncTable
<1>5. /\ getModelInformation(Information(file), k) = PortTable(file)[k]
      /\ k \in DOMAIN PortTable(file)
  BY <1>2, <1>3, <1>4, InformationOf
<1>6. S \in SUBSET (1 .. Len(file.models)) /\ S # {} /\ Len(file.models) \in Nat
  BY <1>5, FileType DEF PortTable, Assigned
<1>7. \E i \in Assigned(file) :
        /\ PortKey(file.models[i].id) = k
        /\ \A j \in Assigned(file) : j > i => PortKey(file.models[j].id) # k
  <2>1. PICK i \in S : \A j \in S : j <= i
    BY <1>6, Greatest
  <2>2. \A j \in Assigned(file) : j > i => j \notin S
    BY <1>6, <2>1, FileType DEF Assigned
  <2> QED BY <2>1, <2>2
<1>8. \E i \in Assigned(file) :
        PortKey(file.models[i].id) = k /\ PortTable(file)[k] = file.minPort + i - 1
  BY <1>5, <1>7 DEF PortTable
<1>9. \A i \in Assigned(file) : i \in Index(file) /\ file.models[i].id \in Seq(Words)
  BY <1>1 DEF Assigned, Names
<1> QED BY <1>1, <1>5, <1>8, <1>9, PortKeyInjective

LEMMA SyncPortGiven ==
  ASSUME NEW file \in HostsFiles, NoClash(file),
         getModelInformation(Information(file), SyncKey) # Empty
  PROVE  /\ getModelInformation(Information(file), SyncKey) = file.minPort + Len(file.models)
         /\ Assigned(file) = Index(file)
<1>1. SyncKey \notin DOMAIN ParameterTable(file)
  BY DEF NoClash, ReservedKeys, ParameterTable
<1>2. SyncKey \notin DOMAIN IpTable(file)
  BY FileType, SyncKeyNotIpKey DEF IpTable
<1>3. SyncKey \notin DOMAIN PortTable(file)
  <2> SUFFICES ASSUME NEW i \in Assigned(file), PortKey(file.models[i].id) = SyncKey PROVE FALSE
    BY DEF PortTable
  <2>1. file.models[i].id \in Names(file) /\ file.models[i].id \in Seq(Words)
    BY FileType DEF Assigned, Names
  <2> QED BY <2>1, SyncKeyName DEF NoClash
<1> QED BY <1>1, <1>2, <1>3, InformationOf DEF SyncTable

-----------------------------------------------------------------------------

LEMMA SaidOfKey ==
  ASSUME NEW m, NEW n \in Seq(Words), NEW socket
  PROVE  Said(m, KeyOf(n, socket)) =
           getModelInformation(Information(mDocument), KeyOf(n, socket))
<1>1. KeyOf(n, socket) \notin GetQuestions
  BY PortKeys DEF KeyOf
<1> QED BY <1>1, AnswerToKey DEF Said

(* Connections meet the sockets they are meant for (connectToPub,          *)
(* prepareSubSynchronization), with any hosts file, any failures and any   *)
(* order of the questions.                                                 *)
THEOREM Meeting == Spec => []MeetingPoint
<1>1. IInv => MeetingPoint
  <2> SUFFICES ASSUME IInv, NEW m \in Processes, NEW n \in Processes,
                      NEW c \in connected[m], NEW b \in bound[n],
                      c.to = n, c.socket = b.socket
               PROVE  c.port = b.port
    BY DEF MeetingPoint
  <2>1. c.port = Said(m, KeyOf(n, b.socket)) /\ b.port = Said(n, KeyOf(n, b.socket))
    BY DEF IInv, InvSockets
  <2>2. n \in Seq(Words)
    BY ProcessNames
  <2> QED BY <2>1, <2>2, SaidOfKey
<1> QED BY <1>1, ConfigurationInvariant, PTL

LEMMA BoundPort ==
  ASSUME IInv, NoClash(mDocument), NEW m \in Processes, NEW b \in bound[m]
  PROVE  \/ /\ b.socket = "publisher"
            /\ \E i \in Assigned(mDocument) :
                 /\ mDocument.models[i].id = m
                 /\ b.port = mDocument.minPort + i - 1
         \/ /\ b.socket = "sync" /\ m = simulation_model
            /\ b.port = mDocument.minPort + Len(mDocument.models)
            /\ Assigned(mDocument) = Index(mDocument)
<1>1. /\ m \in Names(mDocument)
      /\ b.socket \in Sockets(m)
      /\ b.port # Empty
      /\ b.port = Said(m, KeyOf(m, b.socket))
      /\ mDocument \in HostsFiles
  BY DEF IInv, InvSockets, InvShape
<1>2. b.port = getModelInformation(Information(mDocument), KeyOf(m, b.socket))
  BY <1>1, ProcessNames, SaidOfKey
<1>3. CASE b.socket = "publisher"
  <2>1. b.port = getModelInformation(Information(mDocument), PortKey(m))
    BY <1>2, <1>3 DEF KeyOf
  <2> QED BY <1>1, <1>3, <2>1, PortGiven
<1>4. CASE b.socket = "sync" /\ m = simulation_model
  <2>1. b.port = getModelInformation(Information(mDocument), SyncKey)
    BY <1>2, <1>4 DEF KeyOf
  <2> QED BY <1>1, <1>4, <2>1, SyncPortGiven
<1> QED BY <1>1, <1>3, <1>4 DEF Sockets

(* No port is bound twice (setModelPortNumbers, bindSocket,                *)
(* preparePubSynchronization), with any hosts file in which no key has two *)
(* meanings, be the interval large enough or not.                          *)
THEOREM DistinctPorts == Spec => []NoPortTwice
<1>1. IInv => NoPortTwice
  <2> SUFFICES ASSUME IInv, NoClash(mDocument), NEW m \in Processes, NEW n \in Processes,
                      NEW b \in bound[m], NEW c \in bound[n], b.port = c.port
               PROVE  m = n /\ b.socket = c.socket
    BY DEF NoPortTwice
  <2>1. /\ mDocument.minPort \in Nat
        /\ Len(mDocument.models) \in Nat
        /\ Index(mDocument) = 1 .. Len(mDocument.models)
    BY FileType DEF IInv, InvShape, Index
  <2>2. Assigned(mDocument) \subseteq Index(mDocument)
    BY DEF Assigned
  <2> QED BY <2>1, <2>2, BoundPort
<1> QED BY <1>1, ConfigurationInvariant, PTL

(* Every port is one of the interval or, for the synchronisation socket,   *)
(* the next one (portCnt after the loop of setModelPortNumbers).           *)
THEOREM BoundInInterval == Spec => []PortsOfInterval
<1>1. IInv => PortsOfInterval
  <2> SUFFICES ASSUME IInv, NoClash(mDocument), NEW m \in Processes, NEW b \in bound[m]
               PROVE  \/ b.port \in mDocument.minPort .. mDocument.maxPort
                      \/ b.socket = "sync" /\ b.port = mDocument.maxPort + 1
    BY DEF PortsOfInterval
  <2>1. /\ mDocument \in HostsFiles
        /\ mDocument.minPort \in Nat /\ mDocument.maxPort \in Nat
        /\ Len(mDocument.models) \in Nat
        /\ Index(mDocument) = 1 .. Len(mDocument.models)
    BY FileType DEF IInv, InvShape
  <2>2. CASE \E i \in Assigned(mDocument) : b.port = mDocument.minPort + i - 1
    <3>1. PICK i \in 1 .. Len(mDocument.models) :
            /\ b.port = mDocument.minPort + i - 1
            /\ mDocument.minPort + i - 1 <= mDocument.maxPort
      BY <2>1, <2>2 DEF Assigned
    <3> QED BY <2>1, <3>1
  <2>3. CASE /\ b.socket = "sync"
             /\ b.port = mDocument.minPort + Len(mDocument.models)
             /\ Assigned(mDocument) = Index(mDocument)
    <3>1. Len(mDocument.models) \in Index(mDocument)
      <4>1. Names(mDocument) # {}
        BY <2>1, SimulationModelAssumption
      <4>2. Index(mDocument) # {}
        BY <4>1 DEF Names
      <4> QED BY <2>1, <4>2
    <3>2. mDocument.minPort + Len(mDocument.models) - 1 <= mDocument.maxPort
      BY <2>3, <3>1 DEF Assigned
    <3> QED BY <2>1, <2>3, <3>2
  <2> QED BY <2>2, <2>3, BoundPort
<1> QED BY <1>1, ConfigurationInvariant, PTL

-----------------------------------------------------------------------------
(* The plan.                                                               *)

(* The steps of a sequence and where they lead to.                         *)
Elements(s) == {s[i] : i \in DOMAIN s}
Leads(m, S) == UNION {LeadsTo(m, step) : step \in S}

LEMMA ElementsAppended ==
  ASSUME NEW S, NEW s \in Seq(S), NEW t \in Seq(S)
  PROVE  Elements(s \o t) = Elements(s) \cup Elements(t)
<1>1. /\ Len(s) \in Nat /\ Len(t) \in Nat
      /\ DOMAIN s = 1 .. Len(s) /\ DOMAIN t = 1 .. Len(t)
      /\ DOMAIN (s \o t) = 1 .. Len(s) + Len(t)
      /\ \A i \in 1 .. Len(s) : (s \o t)[i] = s[i]
      /\ \A i \in 1 .. Len(t) : (s \o t)[Len(s) + i] = t[i]
  BY ConcatProperties
<1>2. \A i \in DOMAIN (s \o t) : (s \o t)[i] \in Elements(s) \cup Elements(t)
  BY Concatenation DEF Elements
<1>3. \A i \in DOMAIN s : i \in DOMAIN (s \o t) /\ (s \o t)[i] = s[i]
  BY <1>1
<1>4. \A i \in DOMAIN t : Len(s) + i \in DOMAIN (s \o t) /\ (s \o t)[Len(s) + i] = t[i]
  BY <1>1
<1> QED BY <1>2, <1>3, <1>4 DEF Elements

LEMMA ElementsOfTail ==
  ASSUME NEW S, NEW s \in Seq(S), s # <<>>
  PROVE  Elements(s) = {Head(s)} \cup Elements(Tail(s))
<1>1. /\ 1 \in DOMAIN s /\ Head(s) = s[1]
      /\ \A i \in DOMAIN Tail(s) : i + 1 \in DOMAIN s /\ Tail(s)[i] = s[i + 1]
  BY HeadAndTail
<1>2. \A i \in DOMAIN s : i = 1 \/ (i - 1 \in DOMAIN Tail(s) /\ Tail(s)[i - 1] = s[i])
  <2>1. /\ Len(s) \in Nat /\ DOMAIN s = 1 .. Len(s)
        /\ Tail(s) \in Seq(S) /\ Len(Tail(s)) = Len(s) - 1
        /\ \A i \in 1 .. Len(Tail(s)) : Tail(s)[i] = s[i + 1]
    BY HeadTailProperties
  <2>2. DOMAIN Tail(s) = 1 .. Len(s) - 1
    BY <2>1
  <2> TAKE i \in DOMAIN s
  <2>3. CASE i = 1
    BY <2>3
  <2>4. CASE i # 1
    <3>1. i - 1 \in 1 .. Len(s) - 1 /\ (i - 1) + 1 = i
      BY <2>1, <2>4
    <3> QED BY <2>1, <2>2, <3>1
  <2> QED BY <2>3, <2>4
<1>3. ASSUME NEW x \in Elements(s) PROVE x \in {Head(s)} \cup Elements(Tail(s))
  <2>1. PICK i \in DOMAIN s : x = s[i]
    BY DEF Elements
  <2> QED BY <1>1, <1>2, <2>1 DEF Elements
<1>4. Head(s) \in Elements(s) /\ Elements(Tail(s)) \subseteq Elements(s)
  BY <1>1 DEF Elements
<1> QED BY <1>3, <1>4

LEMMA LeadsUnion ==
  ASSUME NEW m, NEW S, NEW T
  PROVE  Leads(m, S \cup T) = Leads(m, S) \cup Leads(m, T)
  BY DEF Leads

LEMMA LeadsOne ==
  ASSUME NEW m, NEW step
  PROVE  Leads(m, {step}) = LeadsTo(m, step)
  BY DEF Leads

(* What InvPlan says of the steps of m.                                    *)
PlannedStep(m, step) ==
  /\ step.op = "connect" => IpKey(step.of) \in step.asks
  /\ step.op = "depend" => Path(m) # "event_queue_1"

(* ... and of all of m.                                                    *)
Listens(m) == {c.to : c \in Publishers(m)}
Planned(m) ==
  /\ status[m] # "absent" => m \in Names(mDocument)
  /\ todo[m] # <<>> => status[m] = "preparing"
  /\ \A step \in Elements(todo[m]) : PlannedStep(m, step)
  /\ \A c \in connected[m] : Addressed(m, c)
  /\ /\ m # simulation_model /\ status[m] \in {"preparing", "ready"}
     /\ \A step \in Elements(todo[m]) : step.op # "fail"
     => Listens(m) \cup Leads(m, Elements(todo[m])) = Wanted(m)

LEMMA PlanOf == InvPlan <=> \A m \in Processes : Planned(m)
  BY DEF InvPlan, Planned, PlannedStep, Remaining, Elements, Leads, Listens

LEMMA PlanOfNext == InvPlan' <=> \A m \in Processes : Planned(m)'
  BY DEF InvPlan, Planned, PlannedStep, Remaining, Elements, Leads, Listens

LEMMA PlannedSame ==
  ASSUME NEW n, Planned(n), UNCHANGED mDocument,
         todo'[n] = todo[n], status'[n] = status[n], connected'[n] = connected[n]
  PROVE  Planned(n)'
<1>1. /\ \A c : Addressed(n, c)' <=> Addressed(n, c)
      /\ \A step : PlannedStep(n, step)' <=> PlannedStep(n, step)
  BY DEF Addressed, Said, PlannedStep, Path
<1>2. /\ Leads(n, Elements(todo[n]))' = Leads(n, Elements(todo[n]))
      /\ Listens(n)' = Listens(n) /\ Wanted(n)' = Wanted(n)
  BY DEF Leads, LeadsTo, Listens, Publishers, Wanted, DependsOf, Path
<1> QED BY <1>1, <1>2 DEF Planned

(* The script leads to the simulation model and, by way of the question    *)
(* for the dependencies, to what the file names.                           *)
LEMMA ScriptPlanned ==
  ASSUME NEW m \in Seq(Words)
  PROVE  /\ \A step \in Elements(Script(Path(m), m)) : PlannedStep(m, step)
         /\ m # simulation_model => Leads(m, Elements(Script(Path(m), m))) = Wanted(m)
<1> USE DEF Step
<1>1. ASSUME NEW asks PROVE /\ PlannedStep(m, Know(asks)) /\ LeadsTo(m, Know(asks)) = {}
  BY DEF PlannedStep, LeadsTo, Know
<1>2. /\ PlannedStep(m, Bind(m)) /\ LeadsTo(m, Bind(m)) = {}
      /\ PlannedStep(m, BindSync) /\ LeadsTo(m, BindSync) = {}
  BY DEF PlannedStep, LeadsTo, Bind, BindSync
<1>3. /\ PlannedStep(m, Connect(simulation_model))
      /\ LeadsTo(m, Connect(simulation_model)) = {simulation_model}
      /\ PlannedStep(m, ConnectSync) /\ LeadsTo(m, ConnectSync) = {}
  BY DEF PlannedStep, LeadsTo, Connect, ConnectSync
<1>4. /\ Path(m) # "event_queue_1" => PlannedStep(m, Depend)
      /\ LeadsTo(m, Depend) = DependsOf(m)
  BY DEF PlannedStep, LeadsTo, Depend
<1>5. CASE m = simulation_model
  <2> DEFINE a == Know({TotalNumModels})
             b == Know({NumPersistModels})
             c == Bind(m)
             d == BindSync
  <2>1. Script(Path(m), m) = <<a, b, c, d>>
    BY <1>5 DEF Script
  <2>2. PlannedStep(m, a) /\ PlannedStep(m, b) /\ PlannedStep(m, c) /\ PlannedStep(m, d)
    BY <1>1, <1>2
  <2> HIDE DEF a, b, c, d
  <2>3. Elements(<<a, b, c, d>>) = {a, b, c, d}
    BY DEF Elements
  <2> QED BY <1>5, <2>1, <2>2, <2>3
<1>6. CASE m # simulation_model
  <2> DEFINE k == Know(RouterParameters(m))
             b == Bind(m)
             c == Connect(simulation_model)
             y == ConnectSync
             first  == IF Path(m) = "router" THEN <<k>> ELSE <<>>
             second == <<b, c>>
             third  == IF Path(m) = "event_queue_1" THEN <<>> ELSE <<Depend>>
             all    == {k, b, c, y, Depend}
  <2>1. Script(Path(m), m) = ((first \o second) \o third) \o <<y>>
    BY <1>6 DEF Script
  <2>2. /\ PlannedStep(m, k) /\ LeadsTo(m, k) = {}
        /\ PlannedStep(m, b) /\ LeadsTo(m, b) = {}
        /\ PlannedStep(m, c) /\ LeadsTo(m, c) = {simulation_model}
        /\ PlannedStep(m, y) /\ LeadsTo(m, y) = {}
    BY <1>1, <1>2, <1>3
  <2> HIDE DEF k, b, c, y
  <2>3. first \in Seq(all) /\ second \in Seq(all) /\ third \in Seq(all) /\ <<y>> \in Seq(all)
    BY DEF all
  <2>4. /\ Elements(first) = IF Path(m) = "router" THEN {k} ELSE {}
        /\ Elements(second) = {b, c}
        /\ Elements(third) = IF Path(m) = "event_queue_1" THEN {} ELSE {Depend}
        /\ Elements(<<y>>) = {y}
    BY DEF Elements
  <2> HIDE DEF first, second, third, all
  <2>5. first \o second \in Seq(all) /\ (first \o second) \o third \in Seq(all)
    BY <2>3, Concatenation
  <2>6. Elements(Script(Path(m), m))
          = ((Elements(first) \cup Elements(second)) \cup Elements(third)) \cup {y}
    <3>1. Elements(first \o second) = Elements(first) \cup Elements(second)
      BY <2>3, ElementsAppended
    <3>2. Elements((first \o second) \o third)
            = Elements(first \o second) \cup Elements(third)
      BY <2>3, <2>5, ElementsAppended
    <3>3. Elements(((first \o second) \o third) \o <<y>>)
            = Elements((first \o second) \o third) \cup Elements(<<y>>)
      BY <2>3, <2>5, ElementsAppended
    <3> QED BY <2>1, <2>4, <3>1, <3>2, <3>3
  <2>7. CASE Path(m) = "event_queue_1"
    <3>1. Elements(Script(Path(m), m)) = {b, c, y} /\ DependsOf(m) = {}
      BY <2>4, <2>6, <2>7 DEF DependsOf
    <3> QED BY <2>2, <3>1 DEF Leads, Wanted
  <2>8. CASE Path(m) # "event_queue_1"
    <3>1. \/ Elements(Script(Path(m), m)) = {b, c, Depend, y}
          \/ Elements(Script(Path(m), m)) = {k, b, c, Depend, y}
      BY <2>4, <2>6, <2>8
    <3> HIDE DEF Depend
    <3> QED BY <1>4, <2>2, <2>8, <3>1 DEF Leads, Wanted
  <2> QED BY <2>7, <2>8
<1> QED BY <1>5, <1>6

LEMMA InitPlan == Init => InvPlan
<1> SUFFICES ASSUME Init, NEW m \in Processes PROVE Planned(m)
  BY PlanOf
<1>1. /\ todo[m] = IF Started(m) THEN Script(Path(m), m) ELSE <<>>
      /\ status[m] = IF Started(m) THEN "preparing" ELSE "absent"
      /\ connected[m] = {}
  BY DEF Init
<1>2. m \in Seq(Words)
  BY ProcessNames
<1>3. CASE Started(m)
  BY <1>1, <1>2, <1>3, ScriptPlanned DEF Planned, Listens, Publishers, Started
<1>4. CASE ~Started(m)
  <2>1. Elements(todo[m]) = {}
    BY <1>1, <1>4 DEF Elements
  <2> QED BY <1>1, <1>4, <2>1 DEF Planned
<1> QED BY <1>3, <1>4

(* The names of the file are the steps of the dependencies.                *)
LEMMA DependenciesPlanned ==
  ASSUME NEW m, NEW path, NEW names \in Seq(Seq(Words))
  PROVE  /\ \A step \in Elements(ForDependencies(path, names)) :
              PlannedStep(m, step) /\ step.op # "fail"
         /\ Leads(m, Elements(ForDependencies(path, names))) = Elements(names)
<1> DEFINE steps == ForDependencies(path, names)
<1>1. Len(names) \in Nat /\ DOMAIN names = 1 .. Len(names)
  OBVIOUS
<1>2. \A n : /\ PlannedStep(m, Connect(n)) /\ Connect(n).op # "fail"
             /\ LeadsTo(m, Connect(n)) = {n}
  BY DEF PlannedStep, LeadsTo, Connect, Step
<1>3. \A asks : /\ PlannedStep(m, Know(asks)) /\ Know(asks).op # "fail"
                /\ LeadsTo(m, Know(asks)) = {}
  BY DEF PlannedStep, LeadsTo, Know, Step
<1>4. CASE path = "processing_element"
  <2> DEFINE twice == 2 * Len(names)
  <2>1. steps = [i \in 1 .. twice |-> IF i % 2 = 1 THEN Connect(names[(i + 1) \div 2])
                                      ELSE Know({Append(names[i \div 2], "address")})]
    BY <1>4 DEF ForDependencies
  <2>2. \A i \in 1 .. twice : i % 2 = 1 => (i + 1) \div 2 \in 1 .. Len(names)
    BY <1>1
  <2>3. \A d \in 1 .. Len(names) :
          2 * d - 1 \in 1 .. twice /\ (2 * d - 1) % 2 = 1 /\ ((2 * d - 1) + 1) \div 2 = d
    BY <1>1
  <2> HIDE DEF twice
  <2>4. /\ DOMAIN steps = 1 .. twice
        /\ \A i \in 1 .. twice :
             \/ (\E d \in 1 .. Len(names) : steps[i] = Connect(names[d]))
             \/ (\E asks : steps[i] = Know(asks))
        /\ \A d \in 1 .. Len(names) : steps[2 * d - 1] = Connect(names[d])
    BY <2>1, <2>2, <2>3
  <2> HIDE DEF steps
  <2>5. \A step \in Elements(steps) :
          \/ (\E d \in 1 .. Len(names) : step = Connect(names[d]))
          \/ (\E asks : step = Know(asks))
    BY <2>4 DEF Elements
  <2>6. \A d \in 1 .. Len(names) : Connect(names[d]) \in Elements(steps)
    BY <2>3, <2>4 DEF Elements
  <2>7. \A step \in Elements(steps) : PlannedStep(m, step) /\ step.op # "fail"
    BY <1>2, <1>3, <2>5
  <2>8. Leads(m, Elements(steps)) = Elements(names)
    <3>1. \A step \in Elements(steps) : LeadsTo(m, step) \subseteq Elements(names)
      <4> TAKE step \in Elements(steps)
      <4>1. CASE \E d \in 1 .. Len(names) : step = Connect(names[d])
        <5>1. PICK d \in 1 .. Len(names) : step = Connect(names[d])
          BY <4>1
        <5>2. LeadsTo(m, step) = {names[d]} /\ names[d] \in Elements(names)
          BY <1>1, <1>2, <5>1 DEF Elements
        <5> QED BY <5>2
      <4>2. CASE \E asks : step = Know(asks)
        BY <1>3, <4>2
      <4> QED BY <2>5, <4>1, <4>2
    <3>2. \A d \in DOMAIN names : \E step \in Elements(steps) : names[d] \in LeadsTo(m, step)
      BY <1>1, <1>2, <2>6
    <3> QED BY <3>1, <3>2 DEF Leads, Elements
  <2> QED BY <2>7, <2>8 DEF steps
<1>5. CASE path # "processing_element"
  <2>1. steps = [i \in DOMAIN names |-> Connect(names[i])]
    BY <1>5 DEF ForDependencies
  <2> HIDE DEF steps
  <2>2. Elements(steps) = {Connect(names[i]) : i \in DOMAIN names}
    BY <2>1 DEF Elements
  <2>3. \A step \in Elements(steps) : PlannedStep(m, step) /\ step.op # "fail"
    BY <1>2, <2>2
  <2>4. Leads(m, Elements(steps)) = Elements(names)
    <3>1. \A step \in Elements(steps) : \E i \in DOMAIN names : LeadsTo(m, step) = {names[i]}
      BY <1>2, <2>2
    <3>2. \A i \in DOMAIN names :
            Connect(names[i]) \in Elements(steps) /\ LeadsTo(m, Connect(names[i])) = {names[i]}
      BY <1>2, <2>2
    <3>3. \A x \in Leads(m, Elements(steps)) : x \in Elements(names)
      BY <3>1 DEF Leads, Elements
    <3>4. \A i \in DOMAIN names : names[i] \in Leads(m, Elements(steps))
      BY <3>2 DEF Leads
    <3>5. \A x \in Elements(names) : x \in Leads(m, Elements(steps))
      BY <3>4 DEF Elements
    <3> QED BY <3>3, <3>5
  <2> QED BY <2>3, <2>4 DEF steps
<1> QED BY <1>4, <1>5

(* Going on keeps the plan if the connections and the new steps together   *)
(* make up for the step that is done.                                      *)
LEMMA GoOnPlan ==
  ASSUME IInv, InvPlan, NEW m \in Processes, NEW op, Knows(m, op), op # "fail",
         NEW steps \in Seq(Steps), GoOn(m, steps), UNCHANGED mDocument,
         \A step \in Elements(steps) : PlannedStep(m, step) /\ step.op # "fail",
         \A c \in connected'[m] : Addressed(m, c),
         \A n \in Processes \ {m} : connected'[n] = connected[n],
         Listens(m)' \cup Leads(m, Elements(steps))
           = Listens(m) \cup LeadsTo(m, Head(todo[m]))
  PROVE  InvPlan'
<1> DEFINE next == steps \o Tail(todo[m])
           rest == Elements(Tail(todo[m]))
<1>1. /\ todo[m] \in Seq(Steps) /\ todo[m] # <<>> /\ Head(todo[m]).op = op
      /\ DOMAIN todo = Processes /\ DOMAIN known = Processes /\ DOMAIN status = Processes
      /\ status[m] = "preparing"
  BY PresentStep DEF IInv, InvShape, Knows
<1>2. /\ todo'[m] = next
      /\ status'[m] = IF next = <<>> THEN "ready" ELSE "preparing"
      /\ \A n \in Processes \ {m} : todo'[n] = todo[n] /\ status'[n] = status[n]
  BY <1>1 DEF GoOn
<1>3. /\ Elements(todo[m]) = {Head(todo[m])} \cup rest
      /\ Elements(next) = Elements(steps) \cup rest
  <2>1. Tail(todo[m]) \in Seq(Steps)
    BY <1>1, HeadAndTail
  <2>2. Elements(todo[m]) = {Head(todo[m])} \cup rest
    BY <1>1, ElementsOfTail
  <2>3. Elements(next) = Elements(steps) \cup rest
    <3> DEFINE t == Tail(todo[m])
    <3>1. t \in Seq(Steps)
      BY <2>1
    <3> HIDE DEF t
    <3>2. Elements(steps \o t) = Elements(steps) \cup Elements(t)
      BY <3>1, ElementsAppended
    <3> QED BY <3>2 DEF t
  <2> QED BY <2>2, <2>3
<1>4. Planned(m)
  BY PlanOf
<1> HIDE DEF next, rest
<1>5. Planned(m)'
  <2>1. todo'[m] # <<>> => status'[m] = "preparing"
    BY <1>2
  <2>2. \A step \in Elements(todo'[m]) : PlannedStep(m, step)'
    BY <1>2, <1>3, <1>4 DEF Planned, PlannedStep, Path
  <2>3. \A c \in connected'[m] : Addressed(m, c)'
    BY DEF Addressed, Said
  <2>4. ASSUME m # simulation_model, \A step \in Elements(todo'[m]) : step.op # "fail"
        PROVE  Listens(m)' \cup Leads(m, Elements(todo'[m])) = Wanted(m)
    <3>1. \A step \in Elements(todo[m]) : step.op # "fail"
      BY <1>1, <1>2, <1>3, <2>4
    <3>2. Listens(m) \cup Leads(m, Elements(todo[m])) = Wanted(m)
      BY <1>1, <1>4, <2>4, <3>1 DEF Planned
    <3>3. /\ Leads(m, Elements(todo[m])) = LeadsTo(m, Head(todo[m])) \cup Leads(m, rest)
          /\ Leads(m, Elements(todo'[m])) = Leads(m, Elements(steps)) \cup Leads(m, rest)
      <4>1. Leads(m, {Head(todo[m])} \cup rest) = Leads(m, {Head(todo[m])}) \cup Leads(m, rest)
        BY LeadsUnion
      <4>2. Leads(m, Elements(steps) \cup rest) = Leads(m, Elements(steps)) \cup Leads(m, rest)
        BY LeadsUnion
      <4>3. Leads(m, {Head(todo[m])}) = LeadsTo(m, Head(todo[m]))
        BY LeadsOne
      <4> QED BY <1>2, <1>3, <4>1, <4>2, <4>3
    <3> QED BY <3>2, <3>3
  <2>5. /\ Leads(m, Elements(todo[m]))' = Leads(m, Elements(todo'[m]))
        /\ Wanted(m)' = Wanted(m)
    BY DEF Leads, LeadsTo, Wanted, DependsOf, Path
  <2>6. m \in Names(mDocument')
    BY PresentStep
  <2> QED BY <2>1, <2>2, <2>3, <2>4, <2>5, <2>6 DEF Planned
<1>6. ASSUME NEW n \in Processes \ {m} PROVE Planned(n)'
  <2>1. Planned(n)
    BY PlanOf
  <2>2. todo'[n] = todo[n] /\ status'[n] = status[n] /\ connected'[n] = connected[n]
    BY <1>2
  <2> QED BY <2>1, <2>2, PlannedSame
<1> QED BY <1>5, <1>6, PlanOfNext

(* A process without steps, or with the complaint only, has no plan.       *)
LEMMA NoPlan ==
  ASSUME IInv, InvPlan, NEW m \in Processes, UNCHANGED <<mDocument, connected>>,
         DOMAIN todo' = Processes, m \in Names(mDocument),
         \/ todo'[m] = <<>> /\ status'[m] \in {"failed", "ended"}
         \/ todo'[m] = <<Complain(m)>> /\ status'[m] = "preparing",
         \A n \in Processes \ {m} : todo'[n] = todo[n] /\ status'[n] = status[n]
  PROVE  InvPlan'
<1> DEFINE complaint == Complain(m)
<1>1. complaint.op = "fail" /\ PlannedStep(m, complaint)'
  BY DEF Complain, Step, PlannedStep
<1> HIDE DEF complaint
<1>2. Planned(m)'
  <2>1. \A c \in connected'[m] : Addressed(m, c)'
    BY PlanOf DEF Planned, Addressed, Said
  <2>2. CASE todo'[m] = <<>> /\ status'[m] \in {"failed", "ended"}
    <3>1. Elements(todo'[m]) = {}
      BY <2>2 DEF Elements
    <3> QED BY <2>1, <2>2, <3>1 DEF Planned
  <2>3. CASE todo'[m] = <<complaint>> /\ status'[m] = "preparing"
    <3>1. Elements(todo'[m]) = {complaint}
      BY <2>3 DEF Elements
    <3> QED BY <1>1, <2>1, <2>3, <3>1 DEF Planned
  <2> QED BY <2>2, <2>3 DEF complaint
<1>3. ASSUME NEW n \in Processes \ {m} PROVE Planned(n)'
  <2>1. Planned(n) /\ todo'[n] = todo[n] /\ status'[n] = status[n]
    BY PlanOf
  <2> QED BY <2>1, PlannedSame
<1> QED BY <1>2, <1>3, PlanOfNext

(* Steps that do not change the sockets.                                   *)
LEMMA SameListens ==
  ASSUME NEW m, connected' = connected
  PROVE  Listens(m)' = Listens(m)
  BY DEF Listens, Publishers

LEMMA NoSteps == <<>> \in Seq(Steps) /\ Elements(<<>>) = {} /\ \A m : Leads(m, {}) = {}
  BY DEF Elements, Leads

LEMMA BindSocketPlan ==
  ASSUME IInv, InvPlan, NEW m \in Processes, BindSocket(m)
  PROVE  InvPlan'
<1>1. /\ Knows(m, "bind") /\ UNCHANGED <<mDocument, connected>>
      /\ DOMAIN todo = Processes /\ DOMAIN status = Processes /\ status[m] = "preparing"
      /\ m \in Names(mDocument)
  BY PresentStep DEF BindSocket, serverVars, GiveUp, IInv, InvShape, Knows
<1>2. CASE GoOn(m, <<>>)
  <2>1. LeadsTo(m, Head(todo[m])) = {}
    BY <1>1 DEF Knows, LeadsTo
  <2>2. \A c \in connected'[m] : Addressed(m, c)
    BY <1>1, PlanOf DEF Planned
  <2> QED BY <1>1, <1>2, <2>1, <2>2, GoOnPlan, SameListens, NoSteps
<1>3. CASE GiveUp(m)
  BY <1>1, <1>3, NoPlan DEF GiveUp
<1>4. CASE todo' = [todo EXCEPT ![m] = <<Complain(m)>>] /\ UNCHANGED status
  BY <1>1, <1>4, NoPlan
<1> QED BY <1>2, <1>3, <1>4 DEF BindSocket

LEMMA KeepPlan ==
  ASSUME IInv, InvPlan, NEW m \in Processes, Keep(m)
  PROVE  InvPlan'
<1>1. Knows(m, "know") /\ UNCHANGED <<mDocument, connected>> /\ GoOn(m, <<>>)
  BY DEF Keep, serverVars
<1>2. LeadsTo(m, Head(todo[m])) = {}
  BY <1>1 DEF Knows, LeadsTo
<1>3. \A c \in connected'[m] : Addressed(m, c)
  BY <1>1, PlanOf DEF Planned
<1> QED BY <1>1, <1>2, <1>3, GoOnPlan, SameListens, NoSteps

LEMMA ConnectSocketPlan ==
  ASSUME IInv, InvPlan, NEW m \in Processes, ConnectSocket(m)
  PROVE  InvPlan'
<1> DEFINE step == Head(todo[m])
           ip   == known[m][IpKey(step.of)]
           port == known[m][step.key]
           new  == [to |-> step.of, socket |-> step.socket, ip |-> ip, port |-> port]
<1>1. /\ Knows(m, "connect") /\ UNCHANGED mDocument
      /\ DOMAIN todo = Processes /\ DOMAIN status = Processes
      /\ DOMAIN connected = Processes /\ m \in Names(mDocument)
  BY PresentStep DEF ConnectSocket, serverVars, IInv, InvShape
<1>2. /\ step.op = "connect" /\ step \in Elements(todo[m])
      /\ \A q \in step.asks : known[m][q] = Said(m, q)
      /\ step.of \in Seq(Words)
  <2>1. todo[m] \in Seq(Steps) /\ todo[m] # <<>>
    BY <1>1, PresentStep
  <2>2. step \in Steps /\ step \in Elements(todo[m])
    BY <2>1, HeadAndTail, ElementsOfTail
  <2> QED BY <1>1, <2>2, PresentStep DEF Steps
<1>3. ip = Said(m, IpKey(step.of))
  BY <1>2, PlanOf DEF Planned, PlannedStep
<1>4. CASE /\ ip # Empty /\ port # Empty
           /\ connected' = [connected EXCEPT ![m] = @ \cup {new}]
           /\ GoOn(m, <<>>)
  <2>1. /\ connected'[m] = connected[m] \cup {new}
        /\ \A n \in Processes \ {m} : connected'[n] = connected[n]
    BY <1>1, <1>4
  <2>2. new.to = step.of /\ new.ip = ip /\ new.port = port /\ new.socket = step.socket
    OBVIOUS
  <2> HIDE DEF new
  <2>3. \A c \in connected'[m] : Addressed(m, c)
    BY <1>2, <1>3, <1>4, <2>1, <2>2, PlanOf DEF Planned, Addressed
  <2>4. Listens(m)' = Listens(m) \cup LeadsTo(m, step)
    <3>1. CASE step.socket = "publisher"
      <4>1. LeadsTo(m, step) = {new.to}
        BY <1>2, <2>2, <3>1 DEF LeadsTo
      <4>2. Publishers(m)' = Publishers(m) \cup {new}
        BY <2>1, <2>2, <3>1 DEF Publishers
      <4> QED BY <4>1, <4>2 DEF Listens
    <3>2. CASE step.socket # "publisher"
      <4>1. LeadsTo(m, step) = {}
        BY <1>2, <3>2 DEF LeadsTo
      <4>2. Publishers(m)' = Publishers(m)
        BY <2>1, <2>2, <3>2 DEF Publishers
      <4> QED BY <4>1, <4>2 DEF Listens
    <3> QED BY <3>1, <3>2
  <2> QED BY <1>1, <1>4, <2>1, <2>3, <2>4, GoOnPlan, NoSteps
<1>5. CASE GiveUp(m)
  BY <1>1, <1>5, NoPlan DEF GiveUp
<1> QED BY <1>4, <1>5 DEF ConnectSocket

LEMMA FindDependenciesPlan ==
  ASSUME IInv, InvPlan, NEW m \in Processes, FindDependencies(m)
  PROVE  InvPlan'
<1> DEFINE names == known[m][DependenciesOfMine]
           steps == ForDependencies(Path(m), names)
<1>1. /\ Knows(m, "depend") /\ GoOn(m, steps) /\ UNCHANGED <<mDocument, connected>>
  BY DEF FindDependencies, serverVars
<1>2. /\ Head(todo[m]).op = "depend" /\ Head(todo[m]) \in Elements(todo[m])
      /\ m \in Names(mDocument) /\ mDocument \in HostsFiles
      /\ names = Said(m, DependenciesOfMine)
  <2>1. /\ todo[m] \in Seq(Steps) /\ todo[m] # <<>> /\ Head(todo[m]).op = "depend"
        /\ m \in Names(mDocument) /\ Head(todo[m]).asks = {DependenciesOfMine}
        /\ \A q \in Head(todo[m]).asks : known[m][q] = Said(m, q)
    BY <1>1, PresentStep DEF GoodStep
  <2>2. Head(todo[m]) \in Elements(todo[m])
    BY <2>1, ElementsOfTail
  <2> QED BY <2>1, <2>2 DEF IInv, InvShape
<1>3. names \in Seq(Seq(Words)) /\ names = FirstModel(mDocument, m).depends
  BY <1>2, AnswerToDependencies DEF Said, getModelDependencies
<1>4. Path(m) # "event_queue_1"
  BY <1>2, PlanOf DEF Planned, PlannedStep
<1>5. Elements(names) = LeadsTo(m, Head(todo[m]))
  <2>1. LeadsTo(m, Head(todo[m])) = DependsOf(m)
    BY <1>2 DEF LeadsTo
  <2> QED BY <1>3, <1>4, <2>1 DEF DependsOf, Elements
<1>6. /\ steps \in Seq(Steps)
      /\ \A step \in Elements(steps) : PlannedStep(m, step) /\ step.op # "fail"
      /\ Leads(m, Elements(steps)) = Elements(names)
  BY <1>3, DependencySteps, DependenciesPlanned
<1>7. \A c \in connected'[m] : Addressed(m, c)
  BY <1>1, PlanOf DEF Planned
<1> HIDE DEF steps, names
<1> QED BY <1>1, <1>5, <1>6, <1>7, GoOnPlan, SameListens

LEMMA NextPlan == IInv /\ InvPlan /\ [Next]_vars => InvPlan'
<1> SUFFICES ASSUME IInv, InvPlan, [Next]_vars PROVE InvPlan'
  OBVIOUS
<1>1. CASE UNCHANGED <<mDocument, todo, status, connected>>
  <2> SUFFICES ASSUME NEW n \in Processes PROVE Planned(n)'
    BY PlanOfNext
  <2>1. /\ Planned(n) /\ mDocument' = mDocument
        /\ todo'[n] = todo[n] /\ status'[n] = status[n] /\ connected'[n] = connected[n]
    BY <1>1, PlanOf
  <2> QED BY <2>1, PlannedSame
<1>2. CASE ServerStep \/ Signal \/ UNCHANGED vars
  BY <1>1, <1>2 DEF ServerStep, Signal, Configure, Serve, ServeEnd, Interrupt, vars,
                    serverVars, processVars
<1>3. ASSUME NEW m \in Processes, Prepare(m) PROVE InvPlan'
  <2>1. CASE Ask(m) \/ Hear(m)
    BY <1>1, <2>1 DEF Ask, Hear
  <2>2. CASE ComplaintMade(m)
    BY <2>2, NoPlan, PresentStep DEF ComplaintMade, GiveUp, serverVars, IInv, InvShape
  <2> QED BY <1>3, <2>1, <2>2, BindSocketPlan, ConnectSocketPlan, FindDependenciesPlan,
             KeepPlan DEF Prepare
<1>4. CASE StopServer
  <2>1. simulation_model \in Processes /\ simulation_model \in Names(mDocument)
    BY SimulationModelAssumption, ProcessNames DEF IInv, InvShape
  <2>2. todo[simulation_model] = <<>>
    BY <1>4, <2>1 DEF StopServer, InvPlan
  <2> QED BY <1>4, <2>1, <2>2, NoPlan DEF StopServer, IInv, InvShape
<1> QED BY <1>2, <1>3, <1>4 DEF Next

(* Where a model listens and what it still has to do make up what it is    *)
(* meant to listen to (prepare of every class).                            *)
THEOREM PlanInvariant == Spec => []InvPlan
  BY InitPlan, NextPlan, ConfigurationInvariant, PTL DEF Spec

-----------------------------------------------------------------------------
(* The addresses, and the types of what the table says.                    *)

LEMMA IpKeyProperties ==
  ASSUME NEW n \in Seq(Words)
  PROVE  /\ IpKey(n) \notin GetQuestions
         /\ \A m \in Seq(Words) : IpKey(m) = IpKey(n) => m = n
<1>1. ASSUME NEW s \in Seq(Words)
      PROVE  /\ Len(s) \in Nat /\ Len(IpKey(s)) = Len(s) + 1
             /\ IpKey(s)[Len(s) + 1] = "ip"
             /\ \A i \in 1 .. Len(s) : IpKey(s)[i] = s[i]
  BY <1>1, AppendProperties, WordsAssumption DEF IpKey
<1>2. ASSUME NEW q \in GetQuestions PROVE q # IpKey(n)
  <2>1. Len(q) \in {2, 3} /\ q[Len(q)] # "ip"
    BY DEF GetQuestions, TotalNumModels, NumPersistModels, AllModelNames, DependenciesOfMine
  <2> QED BY <1>1, <2>1
<1>3. ASSUME NEW m \in Seq(Words), IpKey(m) = IpKey(n) PROVE m = n
  <2>1. Len(m) = Len(n) /\ \A i \in 1 .. Len(m) : m[i] = n[i]
    BY <1>1, <1>3
  <2> QED BY <2>1
<1> QED BY <1>2, <1>3

LEMMA IpKeyDomains ==
  ASSUME NEW file \in HostsFiles, NEW n \in Seq(Words)
  PROVE  IpKey(n) \notin DOMAIN PortTable(file) /\ IpKey(n) \notin DOMAIN SyncTable(file)
<1>1. \A i \in Assigned(file) : file.models[i].id \in Seq(Words)
  BY FileType DEF Assigned, Model
<1> QED BY <1>1, PortKeyNotIpKey, SyncKeyNotIpKey DEF PortTable, SyncTable

(* The names that somebody may ask for the address of.                     *)
Mentioned(file) ==
  Names(file) \cup
    UNION {Elements(file.models[i].depends) : i \in Index(file)}

LEMMA AddressGiven ==
  ASSUME NEW file \in HostsFiles, NoClash(file), NoFalseAddress(file),
         NEW n \in Mentioned(file), n \in Seq(Words),
         getModelInformation(Information(file), IpKey(n)) # Empty
  PROVE  /\ n \in Names(file)
         /\ getModelInformation(Information(file), IpKey(n)) = Address(file, FirstModel(file, n))
<1> DEFINE k == IpKey(n)
<1>1. k \notin DOMAIN ParameterTable(file)
  <2>1. CASE n \in Names(file)
    BY <2>1 DEF NoClash, ReservedKeys, ParameterTable
  <2>2. CASE n \notin Names(file)
    <3>1. PICK i \in Index(file) : n \in Elements(file.models[i].depends)
      BY <2>2 DEF Mentioned
    <3>2. PICK d \in DOMAIN file.models[i].depends : n = file.models[i].depends[d]
      BY <3>1 DEF Elements
    <3> QED BY <3>2 DEF NoFalseAddress, ParameterTable
  <2> QED BY <2>1, <2>2
<1>2. k \notin DOMAIN PortTable(file) /\ k \notin DOMAIN SyncTable(file)
  BY IpKeyDomains
<1>3. k \in DOMAIN IpTable(file) /\ getModelInformation(Information(file), k) = IpTable(file)[k]
  BY <1>1, <1>2 DEF getModelInformation, Information, Overwrite
<1>4. PICK name \in Names(file) : k = IpKey(name)
  BY <1>3 DEF IpTable
<1>5. name = n
  BY <1>4, FileType, IpKeyProperties
<1>6. (CHOOSE x \in Names(file) : IpKey(x) = k) = n
  <2>1. \A x \in Names(file) : IpKey(x) = k => x = n
    BY FileType, IpKeyProperties
  <2> QED BY <1>4, <1>5, <2>1
<1> QED BY <1>3, <1>5, <1>6 DEF IpTable

(* The value of a parameter: the last one that is written.                 *)
LEMMA ParameterText ==
  ASSUME NEW file \in HostsFiles, NEW k \in DOMAIN ParameterTable(file)
  PROVE  ParameterTable(file)[k] \in Texts
<1> DEFINE W == {w \in ParameterWrites(file) : ParameterKey(file, w) = k}
           parameters(i) == FirstModel(file, file.models[i].id).parameters
           S == {i \in Index(file) : \E d \in DOMAIN parameters(i) : <<i, d>> \in W}
<1>1. ASSUME NEW i \in Index(file)
      PROVE  /\ parameters(i) \in Seq([name : Seq(Words), text : Texts])
             /\ DOMAIN parameters(i) = 1 .. Len(parameters(i)) /\ Len(parameters(i)) \in Nat
             /\ \A d \in DOMAIN parameters(i) : parameters(i)[d].text \in Texts
  <2>1. FirstModel(file, file.models[i].id) \in Model
    BY <1>1, FirstModelType DEF Names
  <2>2. parameters(i) \in Seq([name : Seq(Words), text : Texts])
    BY <2>1 DEF Model
  <2> DEFINE Written == [name : Seq(Words), text : Texts]
  <2>3. \A s \in Seq(Written) : \A d \in DOMAIN s : s[d] \in Written
    <3> HIDE DEF Written
    <3> QED OBVIOUS
  <2>4. \A d \in DOMAIN parameters(i) : parameters(i)[d] \in Written
    BY <2>2, <2>3
  <2>5. \A d \in DOMAIN parameters(i) : parameters(i)[d].text \in Texts
    BY <2>4
  <2>6. /\ DOMAIN parameters(i) = 1 .. Len(parameters(i)) /\ Len(parameters(i)) \in Nat
    BY <2>2
  <2> QED BY <2>2, <2>5, <2>6
<1>2. \A w \in ParameterWrites(file) :
        /\ w[1] \in Index(file) /\ w[2] \in DOMAIN parameters(w[1]) /\ w = <<w[1], w[2]>>
        /\ Parameter(file, w) = parameters(w[1])[w[2]]
  BY DEF ParameterWrites, Parameter
<1>3. PICK i \in S : \A j \in S : j <= i
  <2>1. \E w \in ParameterWrites(file) : ParameterKey(file, w) = k
    BY DEF ParameterTable
  <2>2. S # {}
    BY <1>2, <2>1
  <2>3. S \in SUBSET (1 .. Len(file.models)) /\ Len(file.models) \in Nat
    BY FileType
  <2> HIDE DEF S
  <2> QED BY <2>2, <2>3, Greatest
<1> DEFINE T == {d \in DOMAIN parameters(i) : <<i, d>> \in W}
<1>4. PICK d \in T : \A e \in T : e <= d
  <2>1. T \in SUBSET (1 .. Len(parameters(i))) /\ T # {} /\ Len(parameters(i)) \in Nat
    BY <1>1, <1>3
  <2> HIDE DEF T
  <2> QED BY <2>1, Greatest
<1>5. \E w \in ParameterWrites(file) :
        /\ ParameterKey(file, w) = k
        /\ \A v \in ParameterWrites(file) :
             ParameterKey(file, v) = k => v[1] < w[1] \/ (v[1] = w[1] /\ v[2] <= w[2])
  <2> DEFINE w == <<i, d>>
  <2>1. w \in ParameterWrites(file) /\ ParameterKey(file, w) = k
    BY <1>4
  <2>2. ASSUME NEW v \in ParameterWrites(file), ParameterKey(file, v) = k
        PROVE  v[1] < i \/ (v[1] = i /\ v[2] <= d)
    <3>1. v[1] \in S /\ v[1] <= i /\ v[1] \in Nat /\ i \in Nat
      <4>1. v[1] \in Index(file) /\ v[2] \in DOMAIN parameters(v[1]) /\ v = <<v[1], v[2]>>
        BY <1>2
      <4>2. v[1] \in S
        BY <2>2, <4>1
      <4>3. S \subseteq Nat
        BY FileType
      <4> HIDE DEF S
      <4> QED BY <1>3, <4>2, <4>3
    <3>2. v[1] = i => v[2] \in T
      BY <1>2, <2>2
    <3> QED BY <1>4, <3>1, <3>2
  <2>3. w[1] = i /\ w[2] = d
    OBVIOUS
  <2> HIDE DEF w
  <2> QED BY <2>1, <2>2, <2>3
<1>6. PICK w \in ParameterWrites(file) : ParameterTable(file)[k] = Parameter(file, w).text
  BY <1>5 DEF ParameterTable
<1> QED BY <1>1, <1>2, <1>6

(* The answers about ports and addresses.                                  *)
LEMMA InformationType ==
  ASSUME NEW file \in HostsFiles
  PROVE  /\ \A k : getModelInformation(Information(file), k) \in Ports \cup {Empty}
         /\ \A n \in Seq(Words) :
              getModelInformation(Information(file), IpKey(n)) \in Texts \cup {Empty}
<1>1. \A k \in DOMAIN PortTable(file) : PortTable(file)[k] \in Nat
  <2> SUFFICES ASSUME NEW k \in DOMAIN PortTable(file) PROVE PortTable(file)[k] \in Nat
    OBVIOUS
  <2> DEFINE S == {i \in Assigned(file) : PortKey(file.models[i].id) = k}
  <2>1. S \in SUBSET (1 .. Len(file.models)) /\ S # {} /\ Len(file.models) \in Nat
    BY FileType DEF PortTable, Assigned
  <2>2. PICK i \in S : \A j \in S : j <= i
    BY <2>1, Greatest
  <2>3. \A j \in Assigned(file) : j > i => j \notin S
    BY <2>1, <2>2, FileType DEF Assigned
  <2>4. \E j \in Assigned(file) : PortTable(file)[k] = file.minPort + j - 1
    <3>1. \E j \in Assigned(file) :
            /\ PortKey(file.models[j].id) = k
            /\ \A l \in Assigned(file) : l > j => PortKey(file.models[l].id) # k
      BY <2>2, <2>3
    <3> QED BY <3>1 DEF PortTable
  <2> QED BY <2>4, FileType DEF Assigned
<1>2. \A k \in DOMAIN SyncTable(file) : SyncTable(file)[k] \in Nat
  BY FileType DEF SyncTable
<1>3. \A k \in DOMAIN IpTable(file) : IpTable(file)[k] \in Texts \cup {Empty}
  <2> SUFFICES ASSUME NEW k \in DOMAIN IpTable(file)
               PROVE  IpTable(file)[k] \in Texts \cup {Empty}
    OBVIOUS
  <2> DEFINE model == FirstModel(file, CHOOSE name \in Names(file) : IpKey(name) = k)
  <2>1. IpTable(file)[k] = Address(file, model)
    BY DEF IpTable
  <2> HIDE DEF model
  <2> QED BY <2>1, ServerAssumption DEF Address
<1>4. \A k \in DOMAIN ParameterTable(file) : ParameterTable(file)[k] \in Texts
  BY ParameterText
<1>5. \A k : getModelInformation(Information(file), k) =
        IF k \in DOMAIN ParameterTable(file) THEN ParameterTable(file)[k]
        ELSE IF k \in DOMAIN IpTable(file) THEN IpTable(file)[k]
        ELSE IF k \in DOMAIN SyncTable(file) THEN SyncTable(file)[k]
        ELSE IF k \in DOMAIN PortTable(file) THEN PortTable(file)[k] ELSE Empty
  BY DEF getModelInformation, Information, Overwrite
<1>6. \A n \in Seq(Words) :
        IpKey(n) \notin DOMAIN PortTable(file) /\ IpKey(n) \notin DOMAIN SyncTable(file)
  BY IpKeyDomains
<1> QED BY <1>1, <1>2, <1>3, <1>4, <1>5, <1>6 DEF Ports

LEMMA SaidOfIp ==
  ASSUME NEW m, NEW n \in Seq(Words)
  PROVE  Said(m, IpKey(n)) = getModelInformation(Information(mDocument), IpKey(n))
  BY IpKeyProperties, AnswerToKey DEF Said

LEMMA WantedMentioned ==
  ASSUME mDocument \in HostsFiles, NEW m \in Names(mDocument)
  PROVE  Wanted(m) \subseteq Mentioned(mDocument)
<1>1. simulation_model \in Mentioned(mDocument)
  BY SimulationModelAssumption DEF Mentioned
<1>2. \E i \in Index(mDocument) : FirstModel(mDocument, m) = mDocument.models[i]
  <2> DEFINE S == {i \in Index(mDocument) : mDocument.models[i].id = m}
  <2>1. S \in SUBSET Nat /\ S # {}
    BY FileType DEF Names
  <2>2. PICK i \in S : \A j \in S : i <= j
    BY <2>1, Least
  <2>3. \A j \in 1 .. i - 1 : mDocument.models[j].id # m
    <3> SUFFICES ASSUME NEW j \in 1 .. i - 1, mDocument.models[j].id = m PROVE FALSE
      OBVIOUS
    <3>1. i \in 1 .. Len(mDocument.models) /\ Len(mDocument.models) \in Nat
      BY FileType
    <3>2. j \in Index(mDocument)
      BY <3>1, FileType
    <3> QED BY <2>2, <3>1, <3>2
  <2>4. \E k \in Index(mDocument) : /\ mDocument.models[k].id = m
                                   /\ \A j \in 1 .. k - 1 : mDocument.models[j].id # m
    BY <2>2, <2>3
  <2> QED BY <2>4 DEF FirstModel
<1>3. DependsOf(m) \subseteq Mentioned(mDocument)
  BY <1>2 DEF DependsOf, Mentioned, Elements
<1> QED BY <1>1, <1>3 DEF Wanted

(* A model that is ready listens to the simulation model and to what its   *)
(* file names, each at its host (connectToPub in prepare of every class),  *)
(* with any hosts file in which no key has two meanings and any failures.  *)
THEOREM WellWired == Spec => []Wired
<1>1. IInv /\ InvPlan => Wired
  <2> SUFFICES ASSUME IInv, InvPlan, NoClash(mDocument), NoFalseAddress(mDocument),
                      NEW m \in Processes \ {simulation_model}, status[m] = "ready"
               PROVE  {<<c.to, c.ip>> : c \in Publishers(m)} =
                        {<<n, Address(mDocument, FirstModel(mDocument, n))>> : n \in Wanted(m)}
    BY DEF Wired
  <2>1. Planned(m)
    BY PlanOf
  <2>2. Listens(m) = Wanted(m) /\ m \in Names(mDocument)
    <3>1. todo[m] = <<>>
      BY <2>1 DEF Planned
    <3>2. Elements(todo[m]) = {}
      BY <3>1 DEF Elements
    <3> QED BY <2>1, <3>2, NoSteps DEF Planned
  <2>3. ASSUME NEW c \in Publishers(m)
        PROVE  /\ c.to \in Wanted(m)
               /\ c.ip = Address(mDocument, FirstModel(mDocument, c.to))
    <3>1. c.to \in Wanted(m)
      BY <2>2 DEF Listens
    <3>2. Addressed(m, c)
      BY <2>1 DEF Planned, Publishers
    <3>3. mDocument \in HostsFiles
      BY DEF IInv, InvShape
    <3>4. c.ip = getModelInformation(Information(mDocument), IpKey(c.to)) /\ c.ip # Empty
      BY <3>2, SaidOfIp DEF Addressed
    <3> QED BY <2>2, <3>1, <3>2, <3>3, <3>4, WantedMentioned, AddressGiven DEF Addressed
  <2>4. ASSUME NEW n \in Wanted(m) PROVE \E c \in Publishers(m) : c.to = n
    BY <2>2 DEF Listens
  <2> QED BY <2>3, <2>4
<1> QED BY <1>1, ConfigurationInvariant, PlanInvariant, PTL

(* The types that the other parts of the invariant do not give.            *)
InvStatus ==
  /\ server \in {"configuring", "serving", "stopped"}
  /\ interruptOccured \in BOOLEAN
  /\ mTotalNumOfModels \in Nat
  /\ \A m \in Processes :
       /\ asking[m] \in Seq(Words)
       /\ status[m] \in {"absent", "preparing", "ready", "failed", "ended"}

LEMMA NextStatus == IInv /\ InvStatus /\ [Next]_vars => InvStatus'
<1> SUFFICES ASSUME IInv, InvStatus, [Next]_vars PROVE InvStatus'
  OBVIOUS
<1>1. DOMAIN asking = Processes /\ DOMAIN status = Processes
  BY DEF IInv, InvShape
<1>2. CASE ServerStep \/ Signal \/ UNCHANGED vars
  BY <1>2 DEF ServerStep, Signal, Configure, Serve, ServeEnd, Interrupt, vars, serverVars,
              processVars, InvStatus
<1>3. CASE StopServer
  BY <1>1, <1>3 DEF StopServer, InvStatus
<1>4. ASSUME NEW m \in Processes, Prepare(m) PROVE InvStatus'
  <2>1. CASE Ask(m)
    <3>1. PICK q \in Head(todo[m]).asks : asking' = [asking EXCEPT ![m] = q]
      BY <2>1 DEF Ask
    <3>2. todo[m] \in Seq(Steps) /\ todo[m] # <<>>
      BY <2>1 DEF Ask, IInv, InvShape
    <3>3. Head(todo[m]) \in Steps
      BY <3>2
    <3>4. q \in Seq(Words)
      BY <3>1, <3>3 DEF Steps
    <3> QED BY <1>1, <2>1, <3>1, <3>4 DEF Ask, InvStatus
  <2>2. CASE Hear(m)
    BY <1>1, <2>2 DEF Hear, InvStatus
  <2>3. CASE Keep(m)
    <3>1. mTotalNumOfModels' \in Nat
      <4>1. CASE TotalNumModels \in DOMAIN known[m]
        <5>1. mTotalNumOfModels' = Said(m, TotalNumModels)
          BY <2>3, <4>1 DEF Keep, IInv, InvAnswers
        <5>2. Said(m, TotalNumModels) = Len(mDocument.models)
          BY AnswerToTotal DEF Said
        <5> QED BY <5>1, <5>2, FileType DEF IInv, InvShape
      <4>2. CASE TotalNumModels \notin DOMAIN known[m]
        BY <2>3, <4>2 DEF Keep, InvStatus
      <4> QED BY <4>1, <4>2
    <3> QED BY <1>1, <2>3, <3>1 DEF Keep, GoOn, serverVars, InvStatus
  <2>4. CASE BindSocket(m) \/ ComplaintMade(m) \/ ConnectSocket(m) \/ FindDependencies(m)
    <3>1. /\ UNCHANGED <<server, interruptOccured, asking, mTotalNumOfModels>>
          /\ \/ status' = status
             \/ \E s \in {"preparing", "ready", "failed"} : status' = [status EXCEPT ![m] = s]
      BY <2>4 DEF BindSocket, ComplaintMade, ConnectSocket, FindDependencies, GoOn, GiveUp,
                  serverVars
    <3> QED BY <1>1, <3>1 DEF InvStatus
  <2> QED BY <1>4, <2>1, <2>2, <2>3, <2>4 DEF Prepare
<1> QED BY <1>2, <1>3, <1>4 DEF Next

(* Every variable keeps its type: no process takes a missing port or       *)
(* address for one (the early returns of prepare), nobody has two answers. *)
THEOREM TypeCorrect == Spec => []TypeOK
<1>1. Init => InvStatus
  <2> SUFFICES ASSUME Init PROVE InvStatus
    OBVIOUS
  <2>1. ASSUME NEW m \in Processes
        PROVE  asking[m] \in Seq(Words) /\ status[m] \in {"absent", "preparing"}
    BY DEF Init
  <2> QED BY <2>1 DEF Init, ServerInit, InvStatus
<1>2. IInv /\ InvPlan /\ InvStatus => TypeOK
  <2> SUFFICES ASSUME IInv, InvPlan, InvStatus PROVE TypeOK
    OBVIOUS
  <2>1. /\ mDocument \in HostsFiles
        /\ mFrontend \in Seq([identity : Processes, msg : Seq(Words)])
    BY DEF IInv, InvShape, InvQuestions
  <2>2. ASSUME NEW m \in Processes
        PROVE  /\ Len(mailbox[m]) <= 1
               /\ status[m] = "preparing" <=> todo[m] # <<>>
    <3>1. Len(mailbox[m]) <= 1
      <4>1. CASE mailbox[m] = <<>>
        BY <4>1
      <4>2. CASE mailbox[m] # <<>>
        <5>1. mailbox[m] = <<Said(m, asking[m])>>
          BY <4>2 DEF IInv, InvAnswers
        <5> QED BY <5>1
      <4> QED BY <4>1, <4>2
    <3>2. status[m] = "preparing" <=> todo[m] # <<>>
      BY PlanOf DEF IInv, InvShape, Planned
    <3> QED BY <3>1, <3>2
  <2>3. ASSUME NEW m \in Processes, NEW b \in bound[m] PROVE b.port \in Ports
    <3>1. b.port # Empty /\ b.port = Said(m, KeyOf(m, b.socket))
      BY DEF IInv, InvSockets
    <3>2. b.port = getModelInformation(Information(mDocument), KeyOf(m, b.socket))
      BY <3>1, ProcessNames, SaidOfKey
    <3> QED BY <2>1, <3>1, <3>2, InformationType
  <2>4. ASSUME NEW m \in Processes, NEW c \in connected[m]
        PROVE  c.ip \in Texts /\ c.port \in Ports
    <3>1. Addressed(m, c)
      BY PlanOf DEF Planned
    <3>2. c.port = getModelInformation(Information(mDocument), KeyOf(c.to, c.socket))
      BY <3>1, SaidOfKey DEF IInv, InvSockets, Addressed
    <3>3. c.ip = getModelInformation(Information(mDocument), IpKey(c.to))
      BY <3>1, SaidOfIp DEF Addressed
    <3> QED BY <2>1, <3>1, <3>2, <3>3, InformationType DEF Addressed
  <2> QED BY <2>1, <2>2, <2>3, <2>4 DEF TypeOK, InvStatus
<1> QED BY <1>1, <1>2, NextStatus, ConfigurationInvariant, PlanInvariant, PTL DEF Spec

(* The types, the table and the questions, and what is still to be done:   *)
(* all that the theorems rest on holds together.                           *)
THEOREM WholeInvariant == Spec => []InvConfiguration
<1>1. TypeOK /\ IInv /\ InvPlan => InvConfiguration
  BY DEF InvConfiguration
<1> QED BY <1>1, TypeCorrect, ConfigurationInvariant, PlanInvariant, PTL

=============================================================================
