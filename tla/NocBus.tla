------------------------------- MODULE NocBus -------------------------------
(***************************************************************************)
(* The publish/subscribe links of the network on chip.  Models publish     *)
(* events by name, without an address; whoever has connected to the        *)
(* publisher (its Dependencies in the hosts file) and has subscribed to    *)
(* the name gets them.  Flits travel on the topics "PacketGenerator",      *)
(* "Local" and the four directions; a topic "Credit_in_X++" is written     *)
(* here as the name X of the input port whose FIFO gave up a place.        *)
(*                                                                         *)
(* Every topic has a queue of its own here, although the topics of one     *)
(* publisher share one connection: more behaviours than the program has.   *)
(* The events of a topic stay in order.                                    *)
(***************************************************************************)
EXTENDS Integers, Sequences, FiniteSets

CONSTANTS
  Routers,           \* the routers of the hosts file
  Elements,          \* the processing elements of the hosts file
  Dependencies,      \* Dependencies[m]: the models m connects to
  ConnectivityBits,  \* ConnectivityBits[r]: the bits that are set, counted from 0
  Late               \* a direction topic may be subscribed to late

NocModels  == Routers \union Elements
Directions == {"North", "East", "West", "South"}
Ports      == Directions \union {"Local"}

ASSUME NocAssumption ==
  /\ Routers \intersect Elements = {}
  /\ Dependencies \in [NocModels -> SUBSET NocModels]
  /\ \A m \in NocModels : m \notin Dependencies[m]
  /\ ConnectivityBits \in [Routers -> SUBSET (0 .. 3)]
  /\ Late \in BOOLEAN

Opposite == [North |-> "South", South |-> "North", East |-> "West", West |-> "East"]

(* RouterAdapter::init subscribes to one direction, as a flit topic and as *)
(* a credit topic, for every bit of ConnectivityBits that is set.          *)
BitTopic == <<"South", "West", "East", "North">>
DirectionTopics(r) == {BitTopic[b + 1] : b \in ConnectivityBits[r]}

(* Every class subscribes to its local topics in prepare.                  *)
FlitTopics(m) == IF m \in Routers
                   THEN {"PacketGenerator"} \union DirectionTopics(m)
                   ELSE {"Local"}
CreditTopics(m) == IF m \in Routers THEN DirectionTopics(m) ELSE {"Local"}

(* The ports a Router has: the four bits stand for the ports to the North, *)
(* East, West and South of it.                                             *)
OutPorts(r) == {Opposite[t] : t \in DirectionTopics(r)} \union {"Local"}

(* What a model publishes.                                                 *)
PublishedFlits(m)   == IF m \in Routers THEN OutPorts(m) ELSE {"PacketGenerator"}
PublishedCredits(m) == IF m \in Routers THEN OutPorts(m) ELSE {}

(* <<publisher, topic, subscriber>>                                        *)
FlitChannels ==
  {c \in NocModels \X (Ports \union {"PacketGenerator"}) \X NocModels :
     /\ c[1] \in Dependencies[c[3]]
     /\ c[2] \in PublishedFlits(c[1]) \intersect FlitTopics(c[3])}
CreditChannels ==
  {c \in NocModels \X Ports \X NocModels :
     /\ c[1] \in Dependencies[c[3]]
     /\ c[2] \in PublishedCredits(c[1]) \intersect CreditTopics(c[3])}

(* The FIFO of the receiving router, by the topic of the flit: "Flit comes *)
(* from the South output of the previous router" and so on.                *)
InputFifo == [PacketGenerator |-> "Local", South |-> "North", West |-> "East",
              North |-> "South", East |-> "West"]

(* The channels that lead to a FIFO of a router, and the channel on which  *)
(* the places of that FIFO are given back.                                 *)
Links == {c \in FlitChannels : c[2] # "Local"}
Back(c) == <<c[3], InputFifo[c[2]], c[1]>>

(* Each topic of a publisher has one reader and each FIFO has one writer,  *)
(* and the credits for a FIFO go to that writer and to nobody else.  True  *)
(* of a network two routers wide and high; in a larger one a router hears  *)
(* all its neighbours on the same four topics.                             *)
PointToPoint ==
  /\ \A c \in Links : Back(c) \in CreditChannels
  /\ \A b \in CreditChannels : \E c \in Links : b = Back(c)
  /\ \A c, d \in Links : c[1] = d[1] /\ c[2] = d[2] => c = d
  /\ \A c, d \in Links : c[3] = d[3] /\ c[2] = d[2] => c = d

ASSUME PointToPointAssumption == PointToPoint

-----------------------------------------------------------------------------

VARIABLES
  wire,     \* wire[c]: flits published and not received
  credits,  \* credits[c]: credits published and not received
  joinedF,  \* the flit channels whose subscription has reached the publisher
  joinedC   \* the credit channels whose subscription has reached it

nocBusVars == <<wire, credits, joinedF, joinedC>>

(* A bug: an event is dropped for a subscriber that has one already.       *)
PublishFlitDropped(m, topic, flit) ==
  wire' = [c \in FlitChannels |->
             IF c[1] = m /\ c[2] = topic /\ c \in joinedF /\ wire[c] = <<>>
               THEN Append(wire[c], flit) ELSE wire[c]]

PublishFlit(m, topic, flit) ==
  wire' = [c \in FlitChannels |->
             IF c[1] = m /\ c[2] = topic /\ c \in joinedF
               THEN Append(wire[c], flit) ELSE wire[c]]

(* A bug: updateCreditCounter is missing.                                  *)
PublishCreditNone(m, topic) == UNCHANGED credits

PublishCredit(m, topic) ==
  credits' = [c \in CreditChannels |->
                IF c[1] = m /\ c[2] = topic /\ c \in joinedC
                  THEN credits[c] + 1 ELSE credits[c]]

(* The topics of prepare were subscribed to before the first barrier, the  *)
(* directions only in init, while the state is loaded.                     *)
OnTime(c) == ~Late \/ c[2] \notin Directions

NocBusInit ==
  /\ wire = [c \in FlitChannels |-> <<>>]
  /\ credits = [c \in CreditChannels |-> 0]
  /\ joinedF = {c \in FlitChannels : OnTime(c)}
  /\ joinedC = {c \in CreditChannels : OnTime(c)}

(* A late subscription reaches the publisher.                              *)
Join ==
  /\ \/ /\ \E c \in FlitChannels \ joinedF : joinedF' = joinedF \union {c}
        /\ UNCHANGED joinedC
     \/ /\ \E c \in CreditChannels \ joinedC : joinedC' = joinedC \union {c}
        /\ UNCHANGED joinedF
  /\ UNCHANGED <<wire, credits>>

NocBusTypeOK(Flit) ==
  /\ wire \in [FlitChannels -> Seq(Flit)]
  /\ credits \in [CreditChannels -> Nat]
  /\ joinedF \subseteq FlitChannels
  /\ joinedC \subseteq CreditChannels

=============================================================================
