------------------------------ MODULE HostsFile ------------------------------
(***************************************************************************)
(* What the configuration server makes of a hosts file (hosts-configs):    *)
(* the table mModelInformation and the answers to questions.               *)
(*                                                                         *)
(* A file is a record of minPort, maxPort, hosts (a function from host ids *)
(* to addresses) and models (a sequence of <Model> elements).  Names,      *)
(* keys and questions are sequences of words, where the program has the    *)
(* words joined with "_": the name router_0 is <<"router", "0">> and the   *)
(* question for its port <<"router", "0", "port">>.  As in the program two *)
(* ways of joining may give the same key.                                  *)
(***************************************************************************)
EXTENDS Naturals, Sequences, FiniteSets

CONSTANTS
  Words,  \* what names and keys are made of
  Texts,  \* addresses of hosts and values of parameters
  Empty   \* the empty string

ASSUME WordsAssumption ==
  {"port", "ip", "sim", "sync", "total", "num", "models", "persist", "all", "model",
   "names", "dependencies", "simulation", "address", "routingBits",
   "connectivityBits", "End"} \subseteq Words

Index(file) == DOMAIN file.models
Names(file) == {file.models[i].id : i \in Index(file)}

(* ".//Models/Model[@id='...']": the first match.                          *)
FirstModel(file, name) ==
  file.models[CHOOSE i \in Index(file) :
                /\ file.models[i].id = name
                /\ \A j \in 1 .. i - 1 : file.models[j].id # name]

-----------------------------------------------------------------------------

PortKey(name) == Append(name, "port")
IpKey(name)   == Append(name, "ip")
SyncKey       == <<"sim", "sync", "port">>

(* A bug: portCnt is compared after it was increased.                      *)
AssignedOneMore(file) == {i \in Index(file) : file.minPort + i - 1 <= file.maxPort + 1}

(* The models that get a port before portCnt exceeds mMaxPort.             *)
Assigned(file) == {i \in Index(file) : file.minPort + i - 1 <= file.maxPort}

(* mModelInformation[key] = ... for a whole table of entries.              *)
Overwrite(table, entries) ==
  [k \in DOMAIN table \cup DOMAIN entries |->
     IF k \in DOMAIN entries THEN entries[k] ELSE table[k]]

(* The loop of setModelPortNumbers; a name that occurs twice keeps the     *)
(* port of its last occurrence.                                            *)
PortTable(file) ==
  [k \in {PortKey(file.models[i].id) : i \in Assigned(file)} |->
     LET i == CHOOSE i \in Assigned(file) :
                /\ PortKey(file.models[i].id) = k
                /\ \A j \in Assigned(file) : j > i => PortKey(file.models[j].id) # k
     IN  file.minPort + i - 1]

(* A bug: portCnt still is the port of the last model.                     *)
SyncTableShared(file) ==
  [k \in IF Assigned(file) = Index(file) THEN {SyncKey} ELSE {} |->
     file.minPort + Len(file.models) - 1]

(* Its end, which an early return does not reach: sim_sync_port.           *)
SyncTable(file) ==
  [k \in IF Assigned(file) = Index(file) THEN {SyncKey} ELSE {} |->
     file.minPort + Len(file.models)]

Address(file, model) ==
  IF model.host \in DOMAIN file.hosts THEN file.hosts[model.host] ELSE Empty

(* A bug: the host of the first model is taken for every model.            *)
IpTableOneHost(file) ==
  [k \in {IpKey(name) : name \in Names(file)} |-> Address(file, file.models[1])]

(* setModelIPAddresses                                                     *)
IpTable(file) ==
  [k \in {IpKey(name) : name \in Names(file)} |->
     Address(file, FirstModel(file, CHOOSE name \in Names(file) : IpKey(name) = k))]

(* setModelParameters: the parameters of all models in their order; the    *)
(* last one with a key wins.                                               *)
Parameter(file, w) == FirstModel(file, file.models[w[1]].id).parameters[w[2]]
ParameterKey(file, w) == file.models[w[1]].id \o Parameter(file, w).name
ParameterWrites(file) ==
  UNION {{i} \X DOMAIN FirstModel(file, file.models[i].id).parameters : i \in Index(file)}
ParameterTable(file) ==
  [k \in {ParameterKey(file, w) : w \in ParameterWrites(file)} |->
     LET w == CHOOSE w \in ParameterWrites(file) :
                /\ ParameterKey(file, w) = k
                /\ \A v \in ParameterWrites(file) :
                     ParameterKey(file, v) = k =>
                       v[1] < w[1] \/ (v[1] = w[1] /\ v[2] <= w[2])
     IN  Parameter(file, w).text]

(* mModelInformation after the constructor.                                *)
Information(file) ==
  Overwrite(Overwrite(Overwrite(PortTable(file), SyncTable(file)),
                      IpTable(file)),
            ParameterTable(file))

-----------------------------------------------------------------------------

TotalNumModels     == <<"total", "num", "models">>
NumPersistModels   == <<"num", "persist", "models">>
AllModelNames      == <<"all", "model", "names">>
DependenciesOfMine == <<"model", "dependencies">>
GetQuestions == {TotalNumModels, NumPersistModels, AllModelNames, DependenciesOfMine}

(* A bug: only the persistent models are counted.                          *)
getNumberOfModelsPersist(file) ==
  Cardinality({i \in Index(file) : file.models[i].persist})

getNumberOfModels(file) == Len(file.models)
getNumberOfPersistModels(file) ==
  Cardinality({i \in Index(file) : file.models[i].persist})
getModelNames(file) == [i \in Index(file) |-> file.models[i].id]
getModelDependencies(file, name) ==
  IF name \in Names(file) THEN FirstModel(file, name).depends ELSE <<>>

(* mModelInformation[key]: an unknown key reads as the empty string.       *)
getModelInformation(info, key) == IF key \in DOMAIN info THEN info[key] ELSE Empty

(* The answer to msg of the client called identity, given the table info.  *)
Answer(file, info, identity, msg) ==
  CASE msg = TotalNumModels     -> getNumberOfModels(file)
    [] msg = NumPersistModels   -> getNumberOfPersistModels(file)
    [] msg = AllModelNames      -> getModelNames(file)
    [] msg = DependenciesOfMine -> getModelDependencies(file, identity)
    [] OTHER -> getModelInformation(info, msg)

-----------------------------------------------------------------------------

(* No key has two meanings: names are unique, no name is "sim_sync", no    *)
(* parameter has the key of a port, of an address or of another parameter, *)
(* and no key is one of the questions that have answers of their own.      *)
ReservedKeys(file) ==
  {PortKey(name) : name \in Names(file)} \cup {IpKey(name) : name \in Names(file)}
    \cup {SyncKey}

NoClash(file) ==
  /\ \A i, j \in Index(file) : file.models[i].id = file.models[j].id => i = j
  /\ <<"sim", "sync">> \notin Names(file)
  /\ \A w \in ParameterWrites(file) :
       /\ ParameterKey(file, w) \notin ReservedKeys(file) \cup GetQuestions
       /\ \A v \in ParameterWrites(file) :
            ParameterKey(file, v) = ParameterKey(file, w) => v = w

(* Nor has a parameter the key of the address of a model that some other   *)
(* depends on and the file has not.                                        *)
NoFalseAddress(file) ==
  \A w \in ParameterWrites(file) : \A i \in Index(file) :
    \A d \in DOMAIN file.models[i].depends :
      ParameterKey(file, w) # IpKey(file.models[i].depends[d])

(* A file with which a simulation can start: besides, the interval is      *)
(* large enough and every reference leads somewhere.                       *)
Complete(file) ==
  /\ NoClash(file)
  /\ Assigned(file) = Index(file)
  /\ \A i \in Index(file) :
       /\ Address(file, file.models[i]) # Empty
       /\ \A d \in DOMAIN file.models[i].depends : file.models[i].depends[d] \in Names(file)

=============================================================================
