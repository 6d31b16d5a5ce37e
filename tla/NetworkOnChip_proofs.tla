------------------------ MODULE NetworkOnChip_proofs ------------------------
(***************************************************************************)
(* Proofs about the flow control of NetworkOnChip for every network whose  *)
(* links are point to point, whatever its size and routing.                *)
(***************************************************************************)
EXTENDS NetworkOnChip, SequenceTheorems, WellFoundedInduction, TLAPS

USE DEF getNextFlit, Spent, MaySend, MayCount

-----------------------------------------------------------------------------
(* Topology                                                                *)

(* A link leads from a model to a port of a router that is another one.    *)
LEMMA LinkFacts ==
  ASSUME NEW c \in Links
  PROVE  /\ c \in FlitChannels /\ c = <<c[1], c[2], c[3]>>
         /\ c[1] \in NocModels /\ c[3] \in Routers /\ c[1] # c[3]
         /\ c[2] \in Directions \union {"PacketGenerator"}
         /\ c[1] \in Elements => c[2] = "PacketGenerator"
         /\ c[1] \in Routers => c[2] \in Directions
         /\ Port(c) \in Ports
         /\ Back(c) \in CreditChannels
<1>1. /\ c \in NocModels \X (Ports \union {"PacketGenerator"}) \X NocModels
      /\ c[1] \in Dependencies[c[3]]
      /\ c[2] \in PublishedFlits(c[1]) \intersect FlitTopics(c[3])
      /\ c[2] # "Local"
  BY DEF Links, FlitChannels
<1>2. c[3] \in Routers
  BY <1>1 DEF FlitTopics
<1>3. c[2] \in Directions \union {"PacketGenerator"}
  BY <1>1 DEF Ports
<1>4. c[1] \in Elements => c[2] = "PacketGenerator"
  BY <1>1, NocAssumption DEF PublishedFlits
<1>5. c[1] \in Routers => c[2] \in Directions
  <2> SUFFICES ASSUME c[1] \in Routers, c[2] = "PacketGenerator" PROVE FALSE
    BY <1>3
  <2>1. "PacketGenerator" \in OutPorts(c[1])
    BY <1>1 DEF PublishedFlits
  <2>2. PICK b \in ConnectivityBits[c[1]] : Opposite[BitTopic[b + 1]] = "PacketGenerator"
    BY <2>1 DEF OutPorts, DirectionTopics
  <2>3. b \in 0 .. 3
    BY NocAssumption
  <2> QED
    BY <2>2, <2>3 DEF BitTopic, Opposite
<1>6. Port(c) \in Ports
  BY <1>3 DEF Port, InputFifo, Directions, Ports
<1>7. Back(c) \in CreditChannels
  BY PointToPointAssumption DEF PointToPoint
<1>8. c[1] # c[3]
  BY <1>1, NocAssumption
<1> QED
  BY <1>1, <1>2, <1>3, <1>4, <1>5, <1>6, <1>7, <1>8 DEF Links

(* Different topics lead to different ports.                               *)
LEMMA PortInjective ==
  ASSUME NEW c \in Links, NEW d \in Links, Port(c) = Port(d)
  PROVE  c[2] = d[2]
BY LinkFacts DEF Port, InputFifo, Directions

(* A port of a router has one writer, ...                                  *)
LEMMA OneWriter ==
  ASSUME NEW c \in Links, NEW d \in Links, c[3] = d[3], Port(c) = Port(d)
  PROVE  c = d
BY PortInjective, PointToPointAssumption DEF PointToPoint

(* ... and a writer has one reader for every port.                         *)
LEMMA OneReader ==
  ASSUME NEW c \in Links, NEW d \in Links, c[1] = d[1], Port(c) = Port(d)
  PROVE  c = d
BY PortInjective, PointToPointAssumption DEF PointToPoint

(* The queues and counters that make up the places of a link.              *)
LEMMA PlacesType ==
  ASSUME NEW c \in Links
  PROVE  TypeOK => /\ wire[c] \in Seq(Flits)
                   /\ fifo[c[3]][Port(c)] \in Seq(Flits)
                   /\ Credit(c) \in Nat /\ Flying(c) \in Nat
                   /\ Waiting(c) \in Nat /\ Returning(c) \in Nat
BY LinkFacts DEF TypeOK, NocBusTypeOK, RouterTypeOK, Credit, Flying, Waiting, Returning

-----------------------------------------------------------------------------
(* Types                                                                   *)

(* Publishing a flit or a credit keeps the types of the queues.            *)
LEMMA PublishTypes ==
  ASSUME TypeOK, NEW m, NEW topic
  PROVE  /\ \A flit \in Flits : PublishFlit(m, topic, flit)
              => wire' \in [FlitChannels -> Seq(Flits)]
         /\ PublishCredit(m, topic) => credits' \in [CreditChannels -> Nat]
<1>1. ASSUME NEW flit \in Flits, PublishFlit(m, topic, flit)
      PROVE  wire' \in [FlitChannels -> Seq(Flits)]
  BY <1>1 DEF PublishFlit, TypeOK, NocBusTypeOK
<1>2. ASSUME PublishCredit(m, topic)
      PROVE  credits' \in [CreditChannels -> Nat]
  BY <1>2 DEF PublishCredit, TypeOK, NocBusTypeOK
<1> QED
  BY <1>1, <1>2

LEMMA InitType == Init => TypeOK
BY RouterAssumption DEF Init, NocBusInit, RouterInit, ElementInit, TypeOK, NocBusTypeOK,
       RouterTypeOK, ElementTypeOK

(* Every step keeps the types.                                             *)
LEMMA NextType == TypeOK /\ [Next]_vars => TypeOK'
<1> SUFFICES ASSUME TypeOK, [Next]_vars PROVE TypeOK'
  OBVIOUS
<1> USE DEF TypeOK, NocBusTypeOK, RouterTypeOK, ElementTypeOK
<1>1. ASSUME NEW r \in Routers, NEW c \in Links, ReceiveFlit(r, c),
             UNCHANGED elementVars
      PROVE  TypeOK'
  <2>1. /\ c \in FlitChannels
        /\ wire[c] \in Seq(Flits) /\ wire[c] # <<>>
    BY <1>1, LinkFacts DEF ReceiveFlit
  <2>2. Head(wire[c]) \in Flits /\ Tail(wire[c]) \in Seq(Flits)
    BY <2>1
  <2>3. wire' \in [FlitChannels -> Seq(Flits)]
    BY <1>1, <2>2 DEF ReceiveFlit
  <2>4. fifo' \in [Routers -> [Ports -> Seq(Flits)]]
    <3>1. InputFifo[c[2]] \in Ports
      BY LinkFacts DEF Port
    <3>2. fifo' = [fifo EXCEPT ![r][InputFifo[c[2]]] = Append(@, Head(wire[c]))]
      BY <1>1 DEF ReceiveFlit
    <3> QED
      BY <2>2, <3>1, <3>2
  <2> QED
    BY <1>1, <2>3, <2>4 DEF ReceiveFlit, elementVars
<1>2. ASSUME NEW r \in Routers, NEW c \in CreditChannels, ReceiveCredit(r, c),
             UNCHANGED elementVars
      PROVE  TypeOK'
  <2>1. credits' \in [CreditChannels -> Nat]
    BY <1>2 DEF ReceiveCredit
  <2>2. credit' \in [NocModels -> [Ports -> Nat]]
    BY <1>2 DEF ReceiveCredit, CreditChannels
  <2> QED
    BY <1>2, <2>1, <2>2 DEF ReceiveCredit, elementVars
<1>3. ASSUME NEW r \in Routers, NEW p \in Ports, ForwardFlit(r, p),
             UNCHANGED elementVars
      PROVE  TypeOK'
  <2>1. fifo[r][p] \in Seq(Flits) /\ fifo[r][p] # <<>>
    BY <1>3 DEF ForwardFlit, MayForward
  <2>2. Head(fifo[r][p]) \in Flits /\ Tail(fifo[r][p]) \in Seq(Flits)
    BY <2>1
  <2>3. wire' \in [FlitChannels -> Seq(Flits)] /\ credits' \in [CreditChannels -> Nat]
    BY <1>3, <2>2, PublishTypes DEF ForwardFlit
  <2>4. fifo' \in [Routers -> [Ports -> Seq(Flits)]]
    BY <1>3, <2>2 DEF ForwardFlit
  <2>5. credit' \in [NocModels -> [Ports -> Nat]]
    <3>1. OutPort(r, p) \in Ports
      BY <2>2, RouterAssumption DEF OutPort
    <3>2. CASE OutPort(r, p) = "Local"
      BY <1>3, <3>2 DEF ForwardFlit
    <3>3. CASE OutPort(r, p) # "Local"
      <4> DEFINE q == Opposite[OutPort(r, p)]
      <4>1. q \in Ports /\ r \in NocModels
        BY <3>1, <3>3 DEF Ports, Directions, Opposite, NocModels
      <4>2. credit[r][q] \in Nat /\ credit[r][q] > 0
        BY <1>3, <3>3, <4>1 DEF ForwardFlit, MayForward
      <4>3. credit' = [credit EXCEPT ![r][q] = @ - 1]
        BY <1>3, <3>3 DEF ForwardFlit
      <4> HIDE DEF q
      <4> QED
        BY <4>1, <4>2, <4>3
    <3> QED
      BY <3>2, <3>3
  <2> QED
    BY <1>3, <2>3, <2>4, <2>5 DEF ForwardFlit, elementVars
<1>4. ASSUME NEW e \in Elements, SendFlit(e)
      PROVE  TypeOK'
  <2>1. wire' \in [FlitChannels -> Seq(Flits)]
    BY <1>4, PublishTypes DEF SendFlit, getFlit
  <2>2. credit' \in [NocModels -> [Ports -> Nat]]
    <3>1. e \in NocModels /\ "Local" \in Ports
      BY DEF NocModels, Ports
    <3>2. credit[e]["Local"] \in Nat /\ credit[e]["Local"] > 0
      BY <1>4, <3>1 DEF SendFlit
    <3>3. credit' = [credit EXCEPT ![e]["Local"] = @ - 1]
      BY <1>4 DEF SendFlit
    <3> QED
      BY <3>1, <3>2, <3>3
  <2> QED
    BY <1>4, <2>1, <2>2 DEF SendFlit
<1>5. ASSUME NEW e \in Elements, NEW c \in CreditChannels, CreditIn(e, c)
      PROVE  TypeOK'
  <2>1. credits' \in [CreditChannels -> Nat]
    BY <1>5 DEF CreditIn
  <2>2. credit' \in [NocModels -> [Ports -> Nat]]
    <3>1. e \in NocModels /\ "Local" \in Ports
      BY DEF NocModels, Ports
    <3>2. credit[e]["Local"] \in Nat
      BY <3>1
    <3>3. CASE credit' = credit
      BY <3>3
    <3>4. CASE credit' = [credit EXCEPT ![e]["Local"] = @ + 1]
      BY <3>1, <3>2, <3>4
    <3> QED
      BY <1>5, <3>3, <3>4 DEF CreditIn
  <2> QED
    BY <1>5, <2>1, <2>2 DEF CreditIn
<1>6. ASSUME NEW e \in Elements, NEW c \in FlitChannels, SinkFlit(e, c)
      PROVE  TypeOK'
  <2>1. wire[c] \in Seq(Flits) /\ wire[c] # <<>>
    BY <1>6 DEF SinkFlit
  <2>2. Head(wire[c]) \in Flits /\ Tail(wire[c]) \in Seq(Flits)
    BY <2>1
  <2> QED
    BY <1>6, <2>2 DEF SinkFlit
<1>7. CASE LateSubscription
  BY <1>7 DEF LateSubscription, Join, routerVars, elementVars
<1>8. CASE UNCHANGED vars
  BY <1>8 DEF vars, nocBusVars, routerVars, elementVars
<1> QED
  BY <1>1, <1>2, <1>3, <1>4, <1>5, <1>6, <1>7, <1>8
  DEF Next, RouterProcess, RouterEvent, ElementProcess, ElementEvent

(* The type invariant of the network.                                      *)
THEOREM TypeCorrect == Spec => []TypeOK
BY InitType, NextType, PTL DEF Spec

-----------------------------------------------------------------------------
(* Conservation                                                            *)

(* What a step must do to keep InvPlaces: no link gains places, and none   *)
(* loses any unless subscriptions may be late.                             *)
PlacesKept == \A d \in Links : /\ Places(d)' <= Places(d)
                               /\ ~Late => Places(d)' = Places(d)

(* The number of places is a number, before and after a step.              *)
LEMMA PlacesInt ==
  ASSUME NEW d \in Links
  PROVE  /\ TypeOK => Places(d) \in Int
         /\ TypeOK' => Places(d)' \in Int
<1>1. TypeOK => Places(d) \in Int
  BY PlacesType DEF Places
<1>2. (TypeOK => Places(d) \in Int)'
  BY <1>1, PTL
<1> QED
  BY <1>1, <1>2

LEMMA KeepPlaces ==
  ASSUME IInv, TypeOK', PlacesKept
  PROVE  InvPlaces'
<1>1. \A d \in Links : Places(d) \in Int /\ Places(d)' \in Int
  BY PlacesInt DEF IInv
<1> QED
  BY <1>1, RouterAssumption DEF PlacesKept, InvPlaces, IInv

(* A step that leaves the places of every link keeps them.                 *)
LEMMA SamePlaces ==
  ASSUME IInv, \A d \in Links : Places(d)' = Places(d)
  PROVE  PlacesKept
<1>1. \A d \in Links : Places(d) \in Int
  BY PlacesType DEF IInv, Places
<1> QED
  BY <1>1 DEF PlacesKept

(* A flit moves from its link into the FIFO the link leads to.             *)
LEMMA PlacesReceiveFlit ==
  ASSUME IInv, NEW r \in Routers, NEW c \in Links, ReceiveFlit(r, c)
  PROVE  PlacesKept
<1> SUFFICES ASSUME NEW d \in Links PROVE Places(d)' = Places(d)
  BY SamePlaces
<1>1. /\ c[3] = r /\ wire[c] # <<>>
      /\ wire' = [wire EXCEPT ![c] = Tail(@)]
      /\ fifo' = [fifo EXCEPT ![r][Port(c)] = Append(@, Head(wire[c]))]
      /\ credits' = credits /\ credit' = credit
  BY DEF ReceiveFlit, Port
<1>2. TypeOK
  BY DEF IInv
<1>3. Credit(d)' = Credit(d) /\ Returning(d)' = Returning(d)
  BY <1>1 DEF Credit, Returning
<1>4. CASE d = c
  <2>1. Flying(c)' = Flying(c) - 1
    BY <1>1, <1>2, PlacesType, LinkFacts DEF TypeOK, NocBusTypeOK, Flying
  <2>2. fifo'[r][Port(c)] = Append(fifo[r][Port(c)], Head(wire[c]))
    BY <1>1, <1>2, LinkFacts DEF TypeOK, RouterTypeOK
  <2>3. Waiting(c)' = Waiting(c) + 1
    BY <1>1, <1>2, <2>2, PlacesType DEF Waiting
  <2> QED
    BY <1>2, <1>3, <1>4, <2>1, <2>3, PlacesType DEF Places
<1>5. CASE d # c
  <2>1. Flying(d)' = Flying(d)
    BY <1>1, <1>2, <1>5, LinkFacts DEF TypeOK, NocBusTypeOK, Flying
  <2>2. Waiting(d)' = Waiting(d)
    BY <1>1, <1>2, <1>5, OneWriter, LinkFacts DEF TypeOK, RouterTypeOK, Waiting
  <2> QED
    BY <1>3, <2>1, <2>2 DEF Places
<1> QED
  BY <1>4, <1>5

(* A credit moves from the way back into the counter of the writer, in a   *)
(* router and in an element alike.                                         *)
LEMMA PlacesReceiveCredit ==
  ASSUME IInv, NEW m \in NocModels, NEW c \in CreditChannels,
         c[3] = m, credits[c] > 0,
         credits' = [credits EXCEPT ![c] = @ - 1],
         credit' = [credit EXCEPT ![m][c[2]] = @ + 1],
         wire' = wire, fifo' = fifo
  PROVE  PlacesKept
<1> SUFFICES ASSUME NEW d \in Links PROVE Places(d)' = Places(d)
  BY SamePlaces
<1>1. TypeOK
  BY DEF IInv
<1>2. PICK k \in Links : c = Back(k)
  BY PointToPointAssumption DEF PointToPoint
<1>3. c[1] = k[3] /\ c[2] = Port(k) /\ m = k[1]
  BY <1>2 DEF Back, Port
<1>4. Flying(d)' = Flying(d) /\ Waiting(d)' = Waiting(d)
  BY DEF Flying, Waiting
<1>5. CASE d = k
  <2>1. Returning(k)' = Returning(k) - 1
    BY <1>1, <1>2 DEF TypeOK, NocBusTypeOK, Returning
  <2>2. Credit(k)' = Credit(k) + 1
    BY <1>1, <1>3, LinkFacts DEF TypeOK, RouterTypeOK, Credit
  <2> QED
    BY <1>1, <1>4, <1>5, <2>1, <2>2, PlacesType DEF Places
<1>6. CASE d # k
  <2>1. Back(d) # c
    BY <1>2, <1>6, OneWriter DEF Back, Port
  <2>2. Returning(d)' = Returning(d)
    BY <1>1, <2>1, LinkFacts DEF TypeOK, NocBusTypeOK, Returning
  <2>3. Credit(d)' = Credit(d)
    BY <1>1, <1>3, <1>6, OneReader, LinkFacts DEF TypeOK, RouterTypeOK, Credit
  <2> QED
    BY <1>4, <2>2, <2>3 DEF Places
<1> QED
  BY <1>5, <1>6

(* The guard mCredit_Cnt_L < 3 never drops a credit.                       *)
LEMMA CreditInCounts ==
  ASSUME IInv, NEW e \in Elements, NEW c \in CreditChannels, CreditIn(e, c)
  PROVE  c[2] = "Local" /\ credit[e]["Local"] < MaxCredit
<1>1. TypeOK
  BY DEF IInv
<1>2. PICK k \in Links : c = Back(k)
  BY PointToPointAssumption DEF PointToPoint
<1>3. c[2] = Port(k) /\ e = k[1]
  BY <1>2 DEF Back, Port, CreditIn
<1>4. c[2] = "Local"
  BY <1>3, LinkFacts DEF Port, InputFifo
<1>5. /\ Credit(k) \in Nat /\ Flying(k) \in Nat /\ Waiting(k) \in Nat
      /\ Returning(k) \in Nat
  BY <1>1, PlacesType
<1>6. Returning(k) > 0
  BY <1>2 DEF CreditIn, Returning
<1>7. Places(k) <= MaxCredit /\ MaxCredit \in Nat
  BY RouterAssumption DEF IInv, InvPlaces
<1>8. Credit(k) < MaxCredit
  BY <1>5, <1>6, <1>7 DEF Places
<1> QED
  BY <1>3, <1>4, <1>8 DEF Credit

(* What publishing a flit does to a link, ...                              *)
LEMMA PublishedFlit ==
  ASSUME IInv, NEW m, NEW topic, NEW flit \in Flits,
         PublishFlit(m, topic, flit), NEW d \in Links
  PROVE  /\ ~(d[1] = m /\ d[2] = topic) => Flying(d)' = Flying(d)
         /\ d[1] = m /\ d[2] = topic => /\ Flying(d)' \in {Flying(d), Flying(d) + 1}
                                        /\ ~Late => Flying(d)' = Flying(d) + 1
<1>1. /\ d \in FlitChannels /\ wire[d] \in Seq(Flits)
      /\ ~Late => d \in joinedF
  BY LinkFacts, PlacesType DEF IInv, InvJoined
<1>2. Len(Append(wire[d], flit)) = Len(wire[d]) + 1
  BY <1>1
<1>3. wire'[d] = IF d[1] = m /\ d[2] = topic /\ d \in joinedF
                   THEN Append(wire[d], flit) ELSE wire[d]
  BY <1>1 DEF PublishFlit
<1> QED
  BY <1>1, <1>2, <1>3 DEF Flying

(* ... and what publishing a credit does.                                  *)
LEMMA PublishedCredit ==
  ASSUME IInv, NEW m, NEW topic, PublishCredit(m, topic), NEW d \in Links
  PROVE  /\ ~(d[3] = m /\ Port(d) = topic) => Returning(d)' = Returning(d)
         /\ d[3] = m /\ Port(d) = topic
              => /\ Returning(d)' \in {Returning(d), Returning(d) + 1}
                 /\ ~Late => Returning(d)' = Returning(d) + 1
<1>1. /\ Back(d) \in CreditChannels
      /\ ~Late => Back(d) \in joinedC
      /\ Back(d)[1] = d[3] /\ Back(d)[2] = Port(d)
  BY LinkFacts DEF IInv, InvJoined, Back, Port
<1>2. credits'[Back(d)] = IF d[3] = m /\ Port(d) = topic /\ Back(d) \in joinedC
                            THEN credits[Back(d)] + 1 ELSE credits[Back(d)]
  BY <1>1 DEF PublishCredit
<1> QED
  BY <1>1, <1>2 DEF Returning

(* A writer that spends a credit of port p sends its flit to that port.    *)
LEMMA SpentCredit ==
  ASSUME IInv, NEW m \in NocModels, NEW p \in Ports, NEW d \in Links,
         credit' = [credit EXCEPT ![m][p] = @ - 1]
  PROVE  /\ ~(d[1] = m /\ Port(d) = p) => Credit(d)' = Credit(d)
         /\ d[1] = m /\ Port(d) = p => Credit(d)' = Credit(d) - 1
<1>1. credit \in [NocModels -> [Ports -> Nat]]
  BY DEF IInv, TypeOK, RouterTypeOK
<1> QED
  BY <1>1, LinkFacts DEF Credit

(* A router takes a flit from a FIFO: its place goes on its way back, and  *)
(* the credit of the next FIFO, if there is one, turns into a flying flit. *)
LEMMA PlacesForwardFlit ==
  ASSUME IInv, NEW r \in Routers, NEW p \in Ports, ForwardFlit(r, p)
  PROVE  PlacesKept
<1> DEFINE out == OutPort(r, p)
           flit == Head(fifo[r][p])
<1>1. /\ fifo[r][p] \in Seq(Flits) /\ fifo[r][p] # <<>>
      /\ fifo' = [fifo EXCEPT ![r][p] = Tail(@)]
      /\ fifo \in [Routers -> [Ports -> Seq(Flits)]]
  BY DEF ForwardFlit, MayForward, IInv, TypeOK, RouterTypeOK
<1>2. flit \in Flits /\ out \in Ports
  <2>1. flit \in Flits
    BY <1>1
  <2>2. out = Route[r][flit.dst]
    BY DEF OutPort
  <2> QED
    BY <2>1, <2>2, RouterAssumption
<1>3. PublishFlit(r, out, flit) /\ PublishCredit(r, p)
  BY DEF ForwardFlit
<1>4. r \in NocModels
  BY DEF NocModels
<1> HIDE DEF out, flit
<1> SUFFICES ASSUME NEW d \in Links
             PROVE  /\ Places(d)' <= Places(d)
                    /\ ~Late => Places(d)' = Places(d)
  BY DEF PlacesKept
<1>5. /\ Credit(d) \in Nat /\ Flying(d) \in Nat /\ Waiting(d) \in Nat
      /\ Returning(d) \in Nat
  BY PlacesType DEF IInv
<1>6. /\ ~(d[3] = r /\ Port(d) = p) => Waiting(d)' = Waiting(d)
      /\ d[3] = r /\ Port(d) = p => Waiting(d)' = Waiting(d) - 1
  <2>1. Len(Tail(fifo[r][p])) = Len(fifo[r][p]) - 1
    BY <1>1
  <2>2. fifo'[d[3]][Port(d)] = IF d[3] = r /\ Port(d) = p
                                 THEN Tail(fifo[r][p]) ELSE fifo[d[3]][Port(d)]
    BY <1>1, LinkFacts
  <2> QED
    BY <2>1, <2>2 DEF Waiting
<1>7. /\ ~(d[1] = r /\ d[2] = out) => Credit(d)' = Credit(d)
      /\ d[1] = r /\ d[2] = out => Credit(d)' = Credit(d) - 1
  <2>1. CASE out = "Local"
    <3>1. credit' = credit
      BY <2>1 DEF ForwardFlit, out
    <3> QED
      BY <2>1, <3>1 DEF Credit, Links
  <2>2. CASE out # "Local"
    <3>1. credit' = [credit EXCEPT ![r][Opposite[out]] = @ - 1]
      BY <2>2 DEF ForwardFlit, out
    <3>2. out \in Directions /\ Opposite[out] \in Ports
      BY <1>2, <2>2 DEF Ports, Directions, Opposite
    <3>3. d[1] = r => (Port(d) = Opposite[out] <=> d[2] = out)
      BY <3>2, LinkFacts DEF Port, InputFifo, Opposite, Directions
    <3> QED
      BY <1>4, <3>1, <3>2, <3>3, SpentCredit
  <2> QED
    BY <2>1, <2>2
<1>8. ~(d[3] = r /\ d[1] = r)
  BY LinkFacts
<1>9. /\ ~(d[1] = r /\ d[2] = out) => Flying(d)' = Flying(d)
      /\ d[1] = r /\ d[2] = out => /\ Flying(d)' \in {Flying(d), Flying(d) + 1}
                                   /\ ~Late => Flying(d)' = Flying(d) + 1
  BY <1>2, <1>3, PublishedFlit
<1>10. /\ ~(d[3] = r /\ Port(d) = p) => Returning(d)' = Returning(d)
       /\ d[3] = r /\ Port(d) = p
            => /\ Returning(d)' \in {Returning(d), Returning(d) + 1}
               /\ ~Late => Returning(d)' = Returning(d) + 1
  BY <1>3, PublishedCredit
<1>11. CASE d[3] = r /\ Port(d) = p
  BY <1>5, <1>6, <1>7, <1>8, <1>9, <1>10, <1>11 DEF Places
<1>12. CASE d[1] = r /\ d[2] = out
  BY <1>5, <1>6, <1>7, <1>8, <1>9, <1>10, <1>12 DEF Places
<1>13. CASE ~(d[3] = r /\ Port(d) = p) /\ ~(d[1] = r /\ d[2] = out)
  BY <1>5, <1>6, <1>7, <1>9, <1>10, <1>13 DEF Places
<1> QED
  BY <1>11, <1>12, <1>13

(* An element spends a credit for the flit it generates.                   *)
LEMMA PlacesSendFlit ==
  ASSUME IInv, NEW e \in Elements, SendFlit(e)
  PROVE  PlacesKept
<1>1. e \in NocModels /\ e \notin Routers /\ "Local" \in Ports
  BY NocAssumption DEF NocModels, Ports
<1>2. PICK flit \in Flits : PublishFlit(e, "PacketGenerator", flit)
  BY DEF SendFlit, getFlit
<1>3. /\ credit' = [credit EXCEPT ![e]["Local"] = @ - 1]
      /\ credits' = credits /\ fifo' = fifo
  BY DEF SendFlit
<1> SUFFICES ASSUME NEW d \in Links
             PROVE  /\ Places(d)' <= Places(d)
                    /\ ~Late => Places(d)' = Places(d)
  BY DEF PlacesKept
<1>4. /\ Credit(d) \in Nat /\ Flying(d) \in Nat /\ Waiting(d) \in Nat
      /\ Returning(d) \in Nat
  BY PlacesType DEF IInv
<1>5. Waiting(d)' = Waiting(d) /\ Returning(d)' = Returning(d)
  BY <1>3 DEF Waiting, Returning
<1>6. d[1] = e => d[2] = "PacketGenerator" /\ Port(d) = "Local"
  BY LinkFacts DEF Port, InputFifo
<1>7. /\ d[1] # e => Credit(d)' = Credit(d)
      /\ d[1] = e => Credit(d)' = Credit(d) - 1
  BY <1>1, <1>3, <1>6, SpentCredit
<1>8. /\ d[1] # e => Flying(d)' = Flying(d)
      /\ d[1] = e => /\ Flying(d)' \in {Flying(d), Flying(d) + 1}
                     /\ ~Late => Flying(d)' = Flying(d) + 1
  BY <1>2, <1>6, PublishedFlit
<1> QED
  BY <1>4, <1>5, <1>7, <1>8 DEF Places

(* A flit that reaches an element leaves the links as they are.            *)
LEMMA PlacesSinkFlit ==
  ASSUME IInv, NEW e \in Elements, NEW c \in FlitChannels, SinkFlit(e, c)
  PROVE  PlacesKept
<1> SUFFICES ASSUME NEW d \in Links PROVE Places(d)' = Places(d)
  BY SamePlaces
<1>1. d # c /\ d \in FlitChannels
  BY LinkFacts, NocAssumption DEF SinkFlit
<1>2. wire'[d] = wire[d]
  BY <1>1 DEF SinkFlit, IInv, TypeOK, NocBusTypeOK
<1>3. Flying(d)' = Flying(d)
  BY <1>2 DEF Flying
<1>4. Credit(d)' = Credit(d) /\ Waiting(d)' = Waiting(d) /\ Returning(d)' = Returning(d)
  BY DEF SinkFlit, Credit, Waiting, Returning
<1> QED
  BY <1>3, <1>4 DEF Places

-----------------------------------------------------------------------------
(* The inductive invariant                                                 *)

LEMMA InitInv == Init => IInv
<1> SUFFICES ASSUME Init PROVE IInv
  OBVIOUS
<1>1. TypeOK
  BY InitType
<1>2. InvJoined
  BY DEF Init, NocBusInit, OnTime, InvJoined
<1>3. InvPlaces
  <2> SUFFICES ASSUME NEW c \in Links PROVE Places(c) = MaxCredit
    BY RouterAssumption DEF InvPlaces
  <2>1. Credit(c) = MaxCredit
    BY LinkFacts DEF Init, RouterInit, Credit
  <2>2. Flying(c) = 0
    BY LinkFacts DEF Init, NocBusInit, Flying
  <2>3. Waiting(c) = 0
    BY LinkFacts DEF Init, RouterInit, Waiting
  <2>4. Returning(c) = 0
    BY LinkFacts DEF Init, NocBusInit, Returning
  <2> QED
    BY <2>1, <2>2, <2>3, <2>4, RouterAssumption DEF Places
<1>4. InvUnlinked
  BY DEF Init, RouterInit, InvUnlinked
<1> QED
  BY <1>1, <1>2, <1>3, <1>4 DEF IInv

(* Every step keeps the places of every link.                              *)
LEMMA NextPlaces == IInv /\ [Next]_vars => PlacesKept
<1> SUFFICES ASSUME IInv, [Next]_vars PROVE PlacesKept
  OBVIOUS
<1>1. ASSUME NEW r \in Routers, NEW c \in Links, ReceiveFlit(r, c)
      PROVE  PlacesKept
  BY <1>1, PlacesReceiveFlit
<1>2. ASSUME NEW r \in Routers, NEW c \in CreditChannels, ReceiveCredit(r, c)
      PROVE  PlacesKept
  BY <1>2, PlacesReceiveCredit DEF ReceiveCredit, NocModels
<1>3. ASSUME NEW r \in Routers, NEW p \in Ports, ForwardFlit(r, p)
      PROVE  PlacesKept
  BY <1>3, PlacesForwardFlit
<1>4. ASSUME NEW e \in Elements, SendFlit(e)
      PROVE  PlacesKept
  BY <1>4, PlacesSendFlit
<1>5. ASSUME NEW e \in Elements, NEW c \in CreditChannels, CreditIn(e, c)
      PROVE  PlacesKept
  <2>1. c[2] = "Local" /\ credit[e]["Local"] < MaxCredit
    BY <1>5, CreditInCounts
  <2> QED
    BY <1>5, <2>1, PlacesReceiveCredit DEF CreditIn, NocModels
<1>6. ASSUME NEW e \in Elements, NEW c \in FlitChannels, SinkFlit(e, c)
      PROVE  PlacesKept
  BY <1>6, PlacesSinkFlit
<1>7. ASSUME UNCHANGED <<wire, credits, fifo, credit>>
      PROVE  PlacesKept
  BY <1>7, SamePlaces DEF Places, Credit, Flying, Waiting, Returning
<1>8. CASE LateSubscription
  BY <1>7, <1>8 DEF LateSubscription, Join, routerVars
<1>9. CASE UNCHANGED vars
  BY <1>7, <1>9 DEF vars, nocBusVars, routerVars
<1> QED
  BY <1>1, <1>2, <1>3, <1>4, <1>5, <1>6, <1>8, <1>9
  DEF Next, RouterProcess, RouterEvent, ElementProcess, ElementEvent

(* Subscriptions that were not late stay complete.                         *)
LEMMA NextJoined == IInv /\ [Next]_vars => InvJoined'
<1> SUFFICES ASSUME IInv, [Next]_vars, ~Late PROVE UNCHANGED <<joinedF, joinedC>>
  BY DEF IInv, InvJoined
<1> USE DEF IInv, InvJoined
<1>1. CASE \E r \in Routers : RouterProcess(r)
  BY <1>1 DEF RouterProcess, RouterEvent, ReceiveFlit, ReceiveCredit, ForwardFlit
<1>2. CASE \E e \in Elements : ElementProcess(e)
  BY <1>2 DEF ElementProcess, ElementEvent, SendFlit, CreditIn, SinkFlit
<1>3. CASE LateSubscription
  BY <1>3 DEF LateSubscription, Join
<1> QED
  BY <1>1, <1>2, <1>3 DEF Next, vars, nocBusVars

(* Only what a link leads to gets flits.                                   *)
LEMMA NextUnlinked == IInv /\ [Next]_vars => InvUnlinked'
<1> SUFFICES ASSUME IInv, [Next]_vars,
                    NEW r \in Routers, NEW p \in Ports, fifo'[r][p] # <<>>
             PROVE  \E c \in Links : c[3] = r /\ Port(c) = p
  BY DEF InvUnlinked
<1>1. /\ fifo \in [Routers -> [Ports -> Seq(Flits)]]
      /\ fifo[r][p] # <<>> => \E c \in Links : c[3] = r /\ Port(c) = p
  BY DEF IInv, InvUnlinked, TypeOK, RouterTypeOK
<1>2. ASSUME NEW s \in Routers, NEW c \in Links, ReceiveFlit(s, c)
      PROVE  \E d \in Links : d[3] = r /\ Port(d) = p
  <2>1. /\ fifo' = [fifo EXCEPT ![s][Port(c)] = Append(@, Head(wire[c]))]
        /\ c[3] = s
    BY <1>2 DEF ReceiveFlit, Port
  <2>2. CASE s = r /\ Port(c) = p
    BY <2>1, <2>2
  <2>3. CASE ~(s = r /\ Port(c) = p)
    BY <1>1, <2>1, <2>3
  <2> QED
    BY <2>2, <2>3
<1>3. ASSUME NEW s \in Routers, NEW q \in Ports, ForwardFlit(s, q)
      PROVE  \E d \in Links : d[3] = r /\ Port(d) = p
  <2>1. fifo' = [fifo EXCEPT ![s][q] = Tail(@)] /\ fifo[s][q] # <<>>
    BY <1>3 DEF ForwardFlit, MayForward
  <2> QED
    BY <1>1, <2>1
<1>4. ASSUME fifo' = fifo
      PROVE  \E d \in Links : d[3] = r /\ Port(d) = p
  BY <1>1, <1>4
<1>5. CASE \E e \in Elements : ElementProcess(e)
  BY <1>4, <1>5 DEF ElementProcess, ElementEvent, SendFlit, CreditIn, SinkFlit
<1>6. CASE LateSubscription \/ UNCHANGED vars
  BY <1>4, <1>6 DEF LateSubscription, routerVars, vars
<1>7. CASE \E s \in Routers : RouterProcess(s)
  <2>1. ASSUME NEW s \in Routers, NEW c \in CreditChannels, ReceiveCredit(s, c)
        PROVE  fifo' = fifo
    BY <2>1 DEF ReceiveCredit
  <2> QED
    BY <1>2, <1>3, <1>4, <1>7, <2>1 DEF RouterProcess, RouterEvent
<1> QED
  BY <1>5, <1>6, <1>7 DEF Next

(* Every step keeps the invariant.                                         *)
LEMMA NextInv == IInv /\ [Next]_vars => IInv'
<1> SUFFICES ASSUME IInv, [Next]_vars PROVE IInv'
  OBVIOUS
<1>1. TypeOK'
  BY NextType DEF IInv
<1>2. InvPlaces'
  BY <1>1, NextPlaces, KeepPlaces
<1>3. InvJoined' /\ InvUnlinked'
  BY NextJoined, NextUnlinked
<1> QED
  BY <1>1, <1>2, <1>3 DEF IInv

(* The places of every link add up in every reachable state.               *)
THEOREM InductiveInvariant == Spec => []IInv
BY InitInv, NextInv, PTL DEF Spec

-----------------------------------------------------------------------------
(* What follows from it                                                    *)

(* No order of ticks, flits and credits, and no late subscription, makes a *)
(* credit out of nothing.                                                  *)
THEOREM NoCreditCreated == Spec => []CreditsNotCreated
<1>1. IInv => CreditsNotCreated
  BY DEF IInv, InvPlaces, CreditsNotCreated
<1> QED
  BY <1>1, InductiveInvariant, PTL

(* If every subscription was in time, no credit is lost either.            *)
THEOREM Conservation ==
  ASSUME Late = FALSE
  PROVE  Spec => []CreditsConserved
<1>1. IInv => CreditsConserved
  BY DEF IInv, InvPlaces, CreditsConserved
<1> QED
  BY <1>1, InductiveInvariant, PTL

(* A FIFO never holds more flits than it has places, so that the push into *)
(* it cannot fail, even if events were lost.                               *)
THEOREM FifoBound == Spec => []NoOverflow
<1>1. IInv => NoOverflow
  <2> SUFFICES ASSUME IInv, NEW r \in Routers, NEW p \in Ports
               PROVE  Len(fifo[r][p]) <= FifoSize
    BY DEF NoOverflow
  <2>1. CASE fifo[r][p] = <<>>
    BY <2>1, FifoAssumption
  <2>2. CASE fifo[r][p] # <<>>
    <3>1. PICK c \in Links : c[3] = r /\ Port(c) = p
      BY <2>2 DEF IInv, InvUnlinked
    <3>2. /\ Credit(c) \in Nat /\ Flying(c) \in Nat /\ Waiting(c) \in Nat
          /\ Returning(c) \in Nat
      BY PlacesType DEF IInv
    <3>3. Places(c) <= MaxCredit
      BY DEF IInv, InvPlaces
    <3>4. Waiting(c) <= FifoSize
      BY <3>2, <3>3, FifoAssumption, RouterAssumption DEF Places
    <3> QED
      BY <3>1, <3>4 DEF Waiting
  <2> QED
    BY <2>1, <2>2
<1> QED
  BY <1>1, InductiveInvariant, PTL

-----------------------------------------------------------------------------
(* Order                                                                   *)

(* How a flit moves from one queue of a line into the next, ...            *)
LEMMA HandedOver ==
  ASSUME NEW S, NEW s \in Seq(S), NEW t \in Seq(S), t # <<>>
  PROVE  Append(s, Head(t)) \o Tail(t) = s \o t
<1>1. Head(t) \in S /\ Tail(t) \in Seq(S)
  OBVIOUS
<1>2. PICK u \in Seq(S) : u = Tail(t)
  BY <1>1
<1>3. PICK h \in S : h = Head(t)
  BY <1>1
<1>4. t = <<h>> \o u
  BY <1>2, <1>3
<1>5. Append(s, h) = s \o <<h>>
  OBVIOUS
<1>6. (s \o <<h>>) \o u = s \o (<<h>> \o u)
  BY ConcatAssociative
<1> QED BY <1>2, <1>3, <1>4, <1>5, <1>6

(* ... leaves the front of a line, ...                                     *)
LEMMA FrontLeaves ==
  ASSUME NEW S, NEW s \in Seq(S), NEW t \in Seq(S), s # <<>>
  PROVE  /\ Tail(s) \o t = Tail(s \o t)
         /\ Head(s) = (s \o t)[1] /\ s \o t # <<>>
OBVIOUS

(* ... and comes to its end.                                               *)
LEMMA EndComes ==
  ASSUME NEW S, NEW s \in Seq(S), NEW t \in Seq(S), NEW f \in S
  PROVE  s \o Append(t, f) = Append(s \o t, f)
OBVIOUS

(* A flit f comes to the end of line b, or is lost; if c is a channel it   *)
(* has left the front of line c.                                           *)
Passes(L, N, c, f, b) ==
  /\ b # c
  /\ c \in FlitChannels => L[c] # <<>> /\ N[c] = Tail(L[c])
  /\ N[b] \in {L[b], Append(L[b], f)}
  /\ \A a \in FlitChannels \ {b, c} : N[a] = L[a]

(* What is now at i in line a is the flit that came to the end of b, or    *)
(* was in line a before, at h.                                             *)
New(L, N, f, b, a, i) == a = b /\ i = Len(L[b]) + 1 /\ N[a][i] = f
Old(L, N, c, a, i, h) ==
  h \in DOMAIN L[a] /\ N[a][i] = L[a][h] /\ h = IF a = c THEN i + 1 ELSE i

LEMMA ComesFrom ==
  ASSUME NEW L \in [FlitChannels -> Seq(Flits)], NEW N, NEW c, NEW f,
         NEW b \in FlitChannels, Passes(L, N, c, f, b),
         NEW a \in FlitChannels, NEW i \in DOMAIN N[a]
  PROVE  /\ i \in Nat \ {0}
         /\ New(L, N, f, b, a, i) \/ \E h \in DOMAIN L[a] : Old(L, N, c, a, i, h)
<1>1. CASE a = c
  <2>1. L[c] \in Seq(Flits) /\ L[c] # <<>> /\ N[c] = Tail(L[c])
    BY <1>1 DEF Passes
  <2>2. i \in 1 .. Len(L[c]) - 1 /\ N[c][i] = L[c][i + 1]
    BY <1>1, <2>1
  <2> QED BY <1>1, <2>1, <2>2 DEF Old
<1>2. CASE N[a] = L[a] /\ a # c
  BY <1>2 DEF Old
<1>3. CASE a = b /\ a # c /\ N[b] = Append(L[b], f)
  <2>1. L[b] \in Seq(Flits)
    OBVIOUS
  <2>2. i \in 1 .. Len(L[b]) + 1
    BY <1>3, <2>1
  <2>3. i <= Len(L[b]) => N[b][i] = L[b][i] /\ i \in DOMAIN L[b]
    BY <1>3, <2>1, <2>2
  <2>4. i = Len(L[b]) + 1 => N[b][i] = f
    BY <1>3, <2>1
  <2> QED BY <1>3, <2>1, <2>2, <2>3, <2>4 DEF Old, New
<1> QED BY <1>1, <1>2, <1>3 DEF Passes

(* The channels of a way, none twice.                                      *)
Distinct(w) ==
  /\ \A u \in DOMAIN w : u \in Nat \ {0} /\ w[u] \in FlitChannels
  /\ \A u, v \in DOMAIN w : w[u] = w[v] => u = v

LEMMA WayType ==
  ASSUME NEW way, Routed(way), NEW s \in Elements, NEW d \in Elements
  PROVE  Distinct(way[s][d])
<1>1. way[s][d] \in Seq(FlitChannels)
  BY DEF Routed, IsWay
<1>2. \A u, v \in DOMAIN way[s][d] : way[s][d][u] = way[s][d][v] => u = v
  BY DEF Routed, IsWay
<1>3. ASSUME NEW w \in Seq(FlitChannels), NEW u \in DOMAIN w
      PROVE  u \in Nat \ {0} /\ w[u] \in FlitChannels
  OBVIOUS
<1> QED BY <1>1, <1>2, <1>3 DEF Distinct

(* If flit f goes from s to d, it goes from channel c, where it is in      *)
(* front, to channel b, which come one after the other on way w.           *)
GoesOn(L, w, s, d, c, f, k, b) ==
  f.src = s /\ f.dst = d =>
    /\ k \in DOMAIN w /\ k + 1 \in DOMAIN w /\ w[k] = c /\ w[k + 1] = b
    /\ c \in FlitChannels /\ f = L[c][1]

(* A flit that goes on from channel c of its way to the next one, if it is *)
(* not lost, stays behind those that were before it, ahead of the others.  *)
LEMMA StaysInLine ==
  ASSUME NEW w, Distinct(w), NEW s, NEW d, NEW L \in [FlitChannels -> Seq(Flits)], NEW N, InLine(L, w, s, d),
         NEW c, NEW f, NEW b \in FlitChannels, Passes(L, N, c, f, b),
         NEW k \in Nat, GoesOn(L, w, s, d, c, f, k, b)
  PROVE  InLine(N, w, s, d)
<1> USE DEF Distinct, GoesOn
<1> SUFFICES ASSUME NEW p \in DOMAIN w, NEW q \in DOMAIN w,
                    NEW i \in DOMAIN N[w[p]], NEW j \in DOMAIN N[w[q]],
                    N[w[p]][i].src = s /\ N[w[p]][i].dst = d,
                    N[w[q]][j].src = s /\ N[w[q]][j].dst = d,
                    p > q \/ (p = q /\ i < j)
             PROVE  N[w[p]][i].num < N[w[q]][j].num
  BY Zenon DEF InLine
<1> SUFFICES ASSUME NEW x, x = N[w[p]][i], NEW y, y = N[w[q]][j],
                    x.src = s /\ x.dst = d /\ y.src = s /\ y.dst = d
             PROVE  x.num < y.num
  OBVIOUS
<1>1. i \in Nat \ {0} /\ j \in Nat \ {0}
  BY ComesFrom
<1>2. f.src = s /\ f.dst = d => 1 \in DOMAIN L[c]
  <2> SUFFICES ASSUME c \in FlitChannels PROVE 1 \in DOMAIN L[c]
    OBVIOUS
  <2>1. L[c] \in Seq(Flits) /\ L[c] # <<>>
    BY DEF Passes
  <2> QED BY <2>1
<1>3. ASSUME NEW g \in DOMAIN L[w[p]], Old(L, N, c, w[p], i, g),
             NEW h \in DOMAIN L[w[q]], Old(L, N, c, w[q], j, h)
      PROVE  x.num < y.num
  <2>1. p = q /\ i < j => g < h
    BY <1>1, <1>3 DEF Old
  <2>2. L[w[p]][g] = x /\ L[w[q]][h] = y
    BY <1>3 DEF Old
  <2> QED BY <2>1, <2>2 DEF InLine
<1>4. ASSUME New(L, N, f, b, w[p], i),
             NEW h \in DOMAIN L[w[q]], Old(L, N, c, w[q], j, h)
      PROVE  x.num < y.num
  <2>1. p = k + 1 /\ k \in DOMAIN w /\ w[k] = c /\ x = f
    BY <1>4 DEF New
  <2>2. p # q
    <3> SUFFICES ASSUME p = q PROVE FALSE
      OBVIOUS
    <3>1. j = h /\ w[q] = b
      BY <1>4 DEF Old, New, Passes
    <3>2. h <= Len(L[b])
      BY <3>1
    <3> QED BY <1>1, <1>4, <3>1, <3>2 DEF New
  <2>3. q <= k
    BY <2>1, <2>2
  <2>4. q = k => h > 1
    BY <1>1, <1>4, <2>1 DEF Old
  <2>5. k > q \/ (k = q /\ 1 < h)
    BY <2>3, <2>4
  <2>6. L[w[k]][1] = x /\ L[w[q]][h] = y /\ 1 \in DOMAIN L[w[k]]
    BY <1>2, <1>4, <2>1 DEF Old
  <2> QED BY <2>1, <2>5, <2>6 DEF InLine
<1>5. ASSUME New(L, N, f, b, w[q], j),
             NEW g \in DOMAIN L[w[p]], Old(L, N, c, w[p], i, g)
      PROVE  x.num < y.num
  <2>1. q = k + 1 /\ k \in DOMAIN w /\ w[k] = c /\ y = f
    BY <1>5 DEF New
  <2>2. p > k
    BY <2>1
  <2>3. L[w[k]][1] = y /\ L[w[p]][g] = x /\ 1 \in DOMAIN L[w[k]]
    BY <1>2, <1>5, <2>1 DEF Old
  <2> QED BY <2>1, <2>2, <2>3 DEF InLine
<1>6. ~(New(L, N, f, b, w[p], i) /\ New(L, N, f, b, w[q], j))
  BY <1>1 DEF New
<1>7. /\ New(L, N, f, b, w[p], i) \/ \E g \in DOMAIN L[w[p]] : Old(L, N, c, w[p], i, g)
      /\ New(L, N, f, b, w[q], j) \/ \E h \in DOMAIN L[w[q]] : Old(L, N, c, w[q], j, h)
  BY ComesFrom
<1> QED BY <1>3, <1>4, <1>5, <1>6, <1>7


(* If flit f goes from s to d, b is its first channel, and its number is   *)
(* higher than that of all others from s.                                  *)
Starts(L, w, s, d, f, b, n) ==
  /\ f.num = n + 1
  /\ f.src = s /\ f.dst = d => 1 \in DOMAIN w /\ w[1] = b
  /\ \A u \in DOMAIN w : \A g \in DOMAIN L[w[u]] :
       f.src = s /\ L[w[u]][g].src = s => L[w[u]][g].num \in 1 .. n

(* A flit that comes into the first line of its way is behind all others.  *)
LEMMA StartsBehind ==
  ASSUME NEW w, Distinct(w), NEW s, NEW d, NEW L \in [FlitChannels -> Seq(Flits)], NEW N, InLine(L, w, s, d),
         NEW c, c \notin FlitChannels, NEW f, NEW b \in FlitChannels, Passes(L, N, c, f, b),
         NEW n \in Nat, Starts(L, w, s, d, f, b, n)
  PROVE  InLine(N, w, s, d)
<1> USE DEF Distinct, Starts
<1> SUFFICES ASSUME NEW p \in DOMAIN w, NEW q \in DOMAIN w,
                    NEW i \in DOMAIN N[w[p]], NEW j \in DOMAIN N[w[q]],
                    N[w[p]][i].src = s /\ N[w[p]][i].dst = d,
                    N[w[q]][j].src = s /\ N[w[q]][j].dst = d,
                    p > q \/ (p = q /\ i < j)
             PROVE  N[w[p]][i].num < N[w[q]][j].num
  BY Zenon DEF InLine
<1> SUFFICES ASSUME NEW x, x = N[w[p]][i], NEW y, y = N[w[q]][j],
                    x.src = s /\ x.dst = d /\ y.src = s /\ y.dst = d
             PROVE  x.num < y.num
  OBVIOUS
<1>1. i \in Nat \ {0} /\ j \in Nat \ {0}
  BY ComesFrom
<1>2. ASSUME NEW g \in DOMAIN L[w[p]], Old(L, N, c, w[p], i, g),
             NEW h \in DOMAIN L[w[q]], Old(L, N, c, w[q], j, h)
      PROVE  x.num < y.num
  <2>1. g = i /\ h = j /\ L[w[p]][g] = x /\ L[w[q]][h] = y
    BY <1>2 DEF Old
  <2> QED BY <2>1 DEF InLine
<1>3. ASSUME New(L, N, f, b, w[p], i),
             NEW h \in DOMAIN L[w[q]], Old(L, N, c, w[q], j, h)
      PROVE  x.num < y.num
  <2>1. p = 1
    BY <1>3 DEF New
  <2>2. q = 1 /\ i < j
    BY <2>1
  <2>3. h = j /\ h <= Len(L[b])
    BY <1>3, <2>1, <2>2 DEF Old, New
  <2> QED BY <1>1, <1>3, <2>2, <2>3 DEF New
<1>4. ASSUME New(L, N, f, b, w[q], j),
             NEW g \in DOMAIN L[w[p]], Old(L, N, c, w[p], i, g)
      PROVE  x.num < y.num
  <2>1. y = f /\ L[w[p]][g] = x
    BY <1>4 DEF New, Old
  <2>2. x.num \in 1 .. n
    BY <2>1
  <2> QED BY <2>1, <2>2
<1>5. ~(New(L, N, f, b, w[p], i) /\ New(L, N, f, b, w[q], j))
  BY <1>1 DEF New
<1>6. /\ New(L, N, f, b, w[p], i) \/ \E g \in DOMAIN L[w[p]] : Old(L, N, c, w[p], i, g)
      /\ New(L, N, f, b, w[q], j) \/ \E h \in DOMAIN L[w[q]] : Old(L, N, c, w[q], j, h)
  BY ComesFrom
<1> QED BY <1>2, <1>3, <1>4, <1>5, <1>6

(* The flit that comes to the end of a line is on its way, as the others.  *)
LEMMA StaysOnWay ==
  ASSUME NEW way, NEW L \in [FlitChannels -> Seq(Flits)], NEW N, NEW n, OnWay(way, L, n),
         NEW c, NEW f, NEW b \in FlitChannels, Passes(L, N, c, f, b),
         NEW m, \A e \in Elements : 1 .. n[e] \subseteq 1 .. m[e],
         f.num \in 1 .. m[f.src],
         \E k \in DOMAIN way[f.src][f.dst] : way[f.src][f.dst][k] = b
  PROVE  OnWay(way, N, m)
<1> SUFFICES ASSUME NEW a \in FlitChannels, NEW i \in DOMAIN N[a]
             PROVE  /\ N[a][i].num \in 1 .. m[N[a][i].src]
                    /\ \E k \in DOMAIN way[N[a][i].src][N[a][i].dst] :
                         way[N[a][i].src][N[a][i].dst][k] = a
  BY Zenon DEF OnWay
<1> SUFFICES ASSUME NEW x, x = N[a][i]
             PROVE  /\ x.num \in 1 .. m[x.src]
                    /\ \E k \in DOMAIN way[x.src][x.dst] : way[x.src][x.dst][k] = a
  OBVIOUS
<1>1. CASE New(L, N, f, b, a, i)
  BY <1>1 DEF New
<1>2. ASSUME NEW h \in DOMAIN L[a], Old(L, N, c, a, i, h)
      PROVE  /\ x.num \in 1 .. m[x.src]
             /\ \E k \in DOMAIN way[x.src][x.dst] : way[x.src][x.dst][k] = a
  <2>1. L[a][h] = x
    BY <1>2 DEF Old
  <2>2. x \in Flits
    <3>1. L[a] \in Seq(Flits)
      OBVIOUS
    <3> QED BY <2>1, <3>1
  <2>3. /\ x.num \in 1 .. n[x.src]
        /\ \E k \in DOMAIN way[x.src][x.dst] : way[x.src][x.dst][k] = a
    BY <2>1 DEF OnWay
  <2> QED BY <2>2, <2>3, RouterAssumption
<1> QED BY <1>1, <1>2, ComesFrom

-----------------------------------------------------------------------------
(* The lines in the steps of the network                                   *)

(* What is no link leads from a router to an element.                      *)
LEMMA NoLink ==
  ASSUME NEW c \in FlitChannels \ Links
  PROVE  c[2] = "Local" /\ c[1] \in Routers /\ c[3] \in Elements
<1>1. /\ c[1] \in NocModels /\ c[3] \in NocModels /\ c[2] = "Local"
      /\ c[2] \in PublishedFlits(c[1]) /\ c[2] \in FlitTopics(c[3])
  BY DEF FlitChannels, Links
<1>2. c[1] \in Routers
  BY <1>1 DEF PublishedFlits, NocModels
<1>3. c[3] \notin Routers
  <2> SUFFICES ASSUME c[3] \in Routers PROVE FALSE
    OBVIOUS
  <2>1. c[2] \in DirectionTopics(c[3])
    BY <1>1 DEF FlitTopics
  <2>2. PICK b \in ConnectivityBits[c[3]] : BitTopic[b + 1] = "Local"
    BY <1>1, <2>1 DEF DirectionTopics
  <2>3. b \in 0 .. 3
    BY NocAssumption
  <2> QED BY <2>2, <2>3 DEF BitTopic
<1> QED BY <1>1, <1>2, <1>3 DEF NocModels

LEMMA TakenType ==
  ASSUME TypeOK, NEW c \in FlitChannels
  PROVE  /\ Taken(c) \in Seq(Flits) /\ wire[c] \in Seq(Flits)
         /\ Lines[c] = Taken(c) \o wire[c]
<1>1. wire[c] \in Seq(Flits)
  BY DEF TypeOK, NocBusTypeOK
<1>2. CASE c \in Links
  BY <1>1, <1>2, PlacesType DEF Taken, Lines
<1>3. CASE c \notin Links
  <2>1. c[3] \in Elements
    BY <1>3, NoLink
  <2> QED BY <1>1, <1>3, <2>1 DEF Taken, Lines, TypeOK, ElementTypeOK
<1> QED BY <1>2, <1>3

LEMMA LinesType == TypeOK => Lines \in [FlitChannels -> Seq(Flits)]
<1>1. ASSUME TypeOK, NEW c \in FlitChannels PROVE Taken(c) \o wire[c] \in Seq(Flits)
  BY <1>1, TakenType
<1> QED BY <1>1 DEF Lines

(* A model that takes a flit from the wire leaves all lines as they are.   *)
LEMMA LinesReceive ==
  ASSUME IInv, NEW r \in Routers, NEW c \in Links, ReceiveFlit(r, c),
         UNCHANGED elementVars
  PROVE  Lines' = Lines
<1> SUFFICES ASSUME NEW d \in FlitChannels PROVE Taken(d)' \o wire'[d] = Taken(d) \o wire[d]
  BY DEF Lines
<1>1. TypeOK
  BY DEF IInv
<1>2. /\ c[3] = r /\ wire[c] # <<>>
      /\ wire' = [wire EXCEPT ![c] = Tail(@)]
      /\ fifo' = [fifo EXCEPT ![r][Port(c)] = Append(@, Head(wire[c]))]
  BY DEF ReceiveFlit, Port
<1>3. CASE d = c
  <2>1. wire'[c] = Tail(wire[c])
    BY <1>1, <1>2, LinkFacts DEF TypeOK, NocBusTypeOK
  <2>2. fifo'[r][Port(c)] = Append(fifo[r][Port(c)], Head(wire[c]))
    BY <1>1, <1>2, LinkFacts DEF TypeOK, RouterTypeOK
  <2>3. Taken(c)' = Append(Taken(c), Head(wire[c]))
    BY <1>2, <2>2 DEF Taken
  <2>4. c \in FlitChannels
    BY LinkFacts
  <2>5. Append(Taken(c), Head(wire[c])) \o Tail(wire[c]) = Taken(c) \o wire[c]
    BY <1>1, <1>2, <2>4, TakenType, HandedOver
  <2> QED BY <1>3, <2>1, <2>3, <2>5
<1>4. CASE d # c
  <2>1. wire'[d] = wire[d]
    BY <1>1, <1>2, <1>4, LinkFacts DEF TypeOK, NocBusTypeOK
  <2>2. CASE d \in Links
    BY <1>1, <1>2, <1>4, <2>1, <2>2, OneWriter, LinkFacts DEF TypeOK, RouterTypeOK, Taken
  <2>3. CASE d \notin Links
    BY <2>1, <2>3 DEF Taken, elementVars
  <2> QED BY <2>2, <2>3
<1> QED BY <1>3, <1>4

LEMMA LinesSink ==
  ASSUME IInv, NEW way, Routed(way), NEW e \in Elements, NEW c \in FlitChannels, SinkFlit(e, c)
  PROVE  Lines' = Lines
<1> SUFFICES ASSUME NEW d \in FlitChannels PROVE Taken(d)' \o wire'[d] = Taken(d) \o wire[d]
  BY DEF Lines
<1>1. TypeOK
  BY DEF IInv
<1>2. /\ c[3] = e /\ wire[c] # <<>> /\ fifo' = fifo
      /\ wire' = [wire EXCEPT ![c] = Tail(@)]
      /\ sunk' = [sunk EXCEPT ![e] = Append(@, Head(wire[c]))]
  BY DEF SinkFlit
<1>3. c \notin Links
  BY <1>2, LinkFacts, NocAssumption
<1>4. CASE d = c
  <2>1. wire'[c] = Tail(wire[c])
    BY <1>1, <1>2 DEF TypeOK, NocBusTypeOK
  <2>2. sunk'[e] = Append(sunk[e], Head(wire[c]))
    BY <1>1, <1>2 DEF TypeOK, ElementTypeOK
  <2>3. Taken(c)' = Append(Taken(c), Head(wire[c]))
    BY <1>2, <1>3, <2>2 DEF Taken
  <2>4. Append(Taken(c), Head(wire[c])) \o Tail(wire[c]) = Taken(c) \o wire[c]
    BY <1>1, <1>2, TakenType, HandedOver
  <2> QED BY <1>4, <2>1, <2>3, <2>4
<1>5. CASE d # c
  <2>1. wire'[d] = wire[d]
    BY <1>1, <1>2, <1>5 DEF TypeOK, NocBusTypeOK
  <2>2. CASE d \in Links
    BY <1>2, <2>1, <2>2 DEF Taken, Port
  <2>3. CASE d \notin Links
    <3>1. d[3] # e
      BY <1>2, <1>3, <1>5, <2>3 DEF Routed
    <3>2. sunk'[d[3]] = sunk[d[3]]
      BY <1>1, <1>2, <2>3, <3>1, NoLink DEF TypeOK, ElementTypeOK
    <3> QED BY <2>1, <2>3, <3>2 DEF Taken
  <2> QED BY <2>2, <2>3
<1> QED BY <1>4, <1>5

(* A topic of a model has one reader.                                      *)
LEMMA OneChannel ==
  ASSUME NEW way, Routed(way), NEW b \in FlitChannels, NEW d \in FlitChannels,
         b[1] = d[1], b[2] = d[2]
  PROVE  b = d
<1>1. CASE b \in Links /\ d \in Links
  BY <1>1, PointToPointAssumption DEF PointToPoint
<1>2. CASE b \notin Links /\ d \notin Links
  BY <1>2 DEF Routed
<1> QED BY <1>1, <1>2 DEF Links

(* What is published comes to the end of one line.                         *)
LEMMA LinesPublish ==
  ASSUME TypeOK, NEW way, Routed(way), NEW m, NEW topic, NEW f \in Flits,
         PublishFlit(m, topic, f), NEW b \in FlitChannels, b[1] = m, b[2] = topic
  PROVE  /\ \A d \in FlitChannels \ {b} : wire'[d] = wire[d]
         /\ Taken(b) \o wire'[b] \in {Lines[b], Append(Lines[b], f)}
<1>1. \A d \in FlitChannels \ {b} : ~(d[1] = m /\ d[2] = topic)
  BY OneChannel
<1>2. \A d \in FlitChannels \ {b} : wire'[d] = wire[d]
  BY <1>1 DEF PublishFlit
<1>3. wire'[b] = wire[b] \/ wire'[b] = Append(wire[b], f)
  BY DEF PublishFlit
<1>4. Taken(b) \o Append(wire[b], f) = Append(Taken(b) \o wire[b], f)
  BY TakenType, EndComes
<1> QED BY <1>2, <1>3, <1>4, TakenType

(* A new flit comes to the end of the first line of its way.               *)
LEMMA LinesSend ==
  ASSUME IInv, NEW way, Routed(way), NEW e \in Elements, SendFlit(e)
  PROVE  \E f \in getFlit(e) :
           /\ f \in Flits /\ f.src = e /\ f.num = sent[e] + 1
           /\ 1 \in DOMAIN way[e][f.dst] /\ way[e][f.dst][1] \in FlitChannels
           /\ Passes(Lines, Lines', <<>>, f, way[e][f.dst][1])
<1>1. PICK f \in getFlit(e) : PublishFlit(e, "PacketGenerator", f)
  BY DEF SendFlit
<1>2. f \in Flits /\ f.src = e /\ f.num = sent[e] + 1 /\ f.dst \in Elements
  BY <1>1, RouterAssumption DEF getFlit
<1> DEFINE w == way[e][f.dst]
<1>3. w \in Seq(FlitChannels) /\ w # <<>> /\ w[1][1] = e
  BY <1>2 DEF Routed, IsWay
<1>4. 1 \in DOMAIN w /\ w[1] \in FlitChannels
  BY <1>3
<1> DEFINE b == w[1]
<1>5. b[2] = "PacketGenerator"
  <2>1. b[2] \in PublishedFlits(b[1])
    BY <1>4 DEF FlitChannels
  <2> QED BY <1>3, <2>1, NocAssumption DEF PublishedFlits
<1>6. TypeOK
  BY DEF IInv
<1> HIDE DEF b, w
<1>7. fifo' = fifo /\ sunk' = sunk
  BY DEF SendFlit
<1>8. \A d \in FlitChannels : Taken(d)' = Taken(d) /\ Lines'[d] = Taken(d) \o wire'[d]
  BY <1>7 DEF Taken, Port, Lines
<1>9. /\ \A d \in FlitChannels \ {b} : wire'[d] = wire[d]
      /\ Taken(b) \o wire'[b] \in {Lines[b], Append(Lines[b], f)}
  BY <1>1, <1>2, <1>3, <1>4, <1>5, <1>6, LinesPublish DEF b
<1>10. <<>> \notin FlitChannels /\ b \in FlitChannels
  BY <1>4 DEF FlitChannels, b
<1>11. \A d \in FlitChannels \ {b} : Lines'[d] = Lines[d]
  BY <1>6, <1>8, <1>9, TakenType
<1>12. Passes(Lines, Lines', <<>>, f, b)
  BY <1>8, <1>9, <1>10, <1>11 DEF Passes
<1> QED BY <1>1, <1>2, <1>4, <1>12 DEF b, w

(* A flit that is forwarded goes from the front of a line to the end of    *)
(* the next one of its way.                                                *)
LEMMA LinesForward ==
  ASSUME IInv, NEW way, Routed(way), OnWay(way, Lines, sent),
         NEW r \in Routers, NEW p \in Ports, ForwardFlit(r, p), UNCHANGED elementVars
  PROVE  \E c \in Links, f \in Flits, k \in Nat :
           /\ f = Lines[c][1] /\ 1 \in DOMAIN Lines[c]
           /\ k \in DOMAIN way[f.src][f.dst] /\ k + 1 \in DOMAIN way[f.src][f.dst]
           /\ way[f.src][f.dst][k] = c
           /\ Passes(Lines, Lines', c, f, way[f.src][f.dst][k + 1])
<1>1. TypeOK
  BY DEF IInv
<1>2. /\ fifo[r][p] # <<>> /\ fifo' = [fifo EXCEPT ![r][p] = Tail(@)]
      /\ PublishFlit(r, OutPort(r, p), Head(fifo[r][p]))
  BY DEF ForwardFlit, MayForward
<1>3. PICK c \in Links : c[3] = r /\ Port(c) = p
  BY <1>2 DEF IInv, InvUnlinked
<1>4. c \in FlitChannels /\ c[1] # c[3]
  BY LinkFacts
<1>5. Taken(c) = fifo[r][p] /\ Taken(c)' = fifo'[r][p]
  BY <1>3 DEF Taken
<1>6. PICK f \in Flits : f = Head(fifo[r][p])
  BY <1>1, <1>2 DEF TypeOK, RouterTypeOK
<1>7. /\ Tail(Taken(c)) \o wire[c] = Tail(Lines[c])
      /\ f = Lines[c][1] /\ Lines[c] # <<>>
  <2>1. /\ Taken(c) \in Seq(Flits) /\ wire[c] \in Seq(Flits) /\ Taken(c) # <<>>
        /\ Lines[c] = Taken(c) \o wire[c] /\ f = Head(Taken(c))
    BY <1>1, <1>2, <1>4, <1>5, <1>6, TakenType
  <2>2. \A s, t \in Seq(Flits) : s # <<>> =>
          /\ Tail(s) \o t = Tail(s \o t)
          /\ Head(s) = (s \o t)[1] /\ s \o t # <<>>
    BY FrontLeaves
  <2> QED BY <2>1, <2>2
<1>8. 1 \in DOMAIN Lines[c]
  <2>1. Lines[c] \in Seq(Flits)
    BY <1>1, <1>4, LinesType
  <2> QED BY <1>7, <2>1
<1> DEFINE w == way[f.src][f.dst]
<1>9. PICK k \in DOMAIN w : w[k] = c
  BY <1>4, <1>7, <1>8 DEF OnWay
<1>10. /\ f.src \in Elements /\ f.dst \in Elements
       /\ w \in Seq(FlitChannels) /\ w # <<>> /\ w[Len(w)][2] = "Local"
       /\ \A l \in 1 .. Len(w) - 1 : /\ w[l + 1][1] = w[l][3]
                                     /\ w[l + 1][2] = Route[w[l][3]][f.dst]
  <2>1. f.src \in Elements /\ f.dst \in Elements
    BY RouterAssumption
  <2>2. IsWay(w, f.src, f.dst)
    BY <2>1 DEF Routed
  <2> HIDE DEF w
  <2> QED BY <2>1, <2>2 DEF IsWay
<1> HIDE DEF w
<1>11. k \in 1 .. Len(w) - 1
  <2>1. k # Len(w)
    BY <1>9, <1>10 DEF Links
  <2> QED BY <1>10, <2>1
<1>12. k + 1 \in DOMAIN w /\ w[k + 1] \in FlitChannels /\ k \in Nat
  BY <1>10, <1>11
<1> DEFINE b == w[k + 1]
<1>13. b[1] = r /\ b[2] = OutPort(r, p)
  BY <1>3, <1>6, <1>9, <1>10, <1>11 DEF OutPort
<1>14. b # c /\ b \in FlitChannels
  BY <1>3, <1>4, <1>12, <1>13
<1> HIDE DEF b
<1>15. /\ \A d \in FlitChannels \ {b} : wire'[d] = wire[d]
       /\ Taken(b) \o wire'[b] \in {Lines[b], Append(Lines[b], f)}
  BY <1>1, <1>2, <1>6, <1>13, <1>14, LinesPublish
<1>16. fifo'[r][p] = Tail(fifo[r][p])
  BY <1>1, <1>2 DEF TypeOK, RouterTypeOK
<1>17. ASSUME NEW d \in FlitChannels, d # c PROVE Taken(d)' = Taken(d)
  <2>1. CASE d \in Links
    <3>1. ~(d[3] = r /\ Port(d) = p)
      BY <1>3, <1>17, <2>1, OneWriter
    <3> QED BY <1>1, <1>2, <2>1, <3>1, LinkFacts DEF Taken, TypeOK, RouterTypeOK
  <2>2. CASE d \notin Links
    BY <2>2 DEF Taken, elementVars
  <2> QED BY <2>1, <2>2
<1>18. \A d \in FlitChannels : Lines'[d] = Taken(d)' \o wire'[d]
  BY DEF Lines
<1>19. Lines'[c] = Tail(Lines[c])
  BY <1>4, <1>5, <1>7, <1>14, <1>15, <1>16, <1>18
<1>20. Lines'[b] \in {Lines[b], Append(Lines[b], f)}
  BY <1>14, <1>15, <1>17, <1>18
<1>21. \A d \in FlitChannels \ {b, c} : Lines'[d] = Lines[d]
  BY <1>1, <1>15, <1>17, <1>18, TakenType
<1>22. Passes(Lines, Lines', c, f, b)
  BY <1>7, <1>14, <1>19, <1>20, <1>21 DEF Passes
<1> QED BY <1>7, <1>8, <1>9, <1>12, <1>22 DEF b, w

LEMMA InitLines == ASSUME NEW way, Routed(way) PROVE Init => InvLines(way)
<1> SUFFICES ASSUME Init PROVE InvLines(way)
  OBVIOUS
<1>1. ASSUME NEW c \in FlitChannels PROVE Lines[c] = <<>>
  <2>1. wire[c] = <<>>
    BY DEF Init, NocBusInit
  <2>2. Taken(c) = <<>>
    BY LinkFacts, NoLink DEF Init, RouterInit, ElementInit, Taken
  <2> QED BY <2>1, <2>2 DEF Lines
<1>2. \A c \in FlitChannels : DOMAIN Lines[c] = {}
  BY <1>1
<1>3. OnWay(way, Lines, sent)
  BY <1>2 DEF OnWay
<1>4. NoneOvertakes(way, Lines)
  <2> SUFFICES ASSUME NEW s \in Elements, NEW d \in Elements PROVE InLine(Lines, way[s][d], s, d)
    BY DEF NoneOvertakes
  <2>1. \A k \in DOMAIN way[s][d] : DOMAIN Lines[way[s][d][k]] = {}
    BY <1>2, WayType DEF Distinct
  <2> QED BY <2>1 DEF InLine
<1> QED BY <1>3, <1>4 DEF InvLines

(* Every step keeps the flits on their ways and in their order.            *)
LEMMA NextLines ==
  ASSUME NEW way, Routed(way)
  PROVE  IInv /\ InvLines(way) /\ [Next]_vars => InvLines(way)'
<1> SUFFICES ASSUME IInv, InvLines(way), [Next]_vars PROVE InvLines(way)'
  OBVIOUS
<1>1. TypeOK /\ Lines \in [FlitChannels -> Seq(Flits)] /\ sent \in [Elements -> Nat]
  BY LinesType DEF IInv, TypeOK, ElementTypeOK
<1>2. ASSUME Lines' = Lines, sent' = sent PROVE InvLines(way)'
  BY <1>2 DEF InvLines
<1>3. ASSUME NEW r \in Routers, NEW c \in Links, ReceiveFlit(r, c), UNCHANGED elementVars
      PROVE  InvLines(way)'
  BY <1>2, <1>3, LinesReceive DEF elementVars
<1>4. ASSUME wire' = wire, fifo' = fifo, sunk' = sunk, sent' = sent PROVE InvLines(way)'
  BY <1>2, <1>4 DEF Lines, Taken, Port
<1>5. ASSUME NEW r \in Routers, NEW p \in Ports, ForwardFlit(r, p), UNCHANGED elementVars
      PROVE  InvLines(way)'
  <2>1. PICK c \in Links, f \in Flits, k \in Nat :
          /\ f = Lines[c][1] /\ 1 \in DOMAIN Lines[c]
          /\ k \in DOMAIN way[f.src][f.dst] /\ k + 1 \in DOMAIN way[f.src][f.dst]
          /\ way[f.src][f.dst][k] = c
          /\ Passes(Lines, Lines', c, f, way[f.src][f.dst][k + 1])
    BY <1>5, LinesForward DEF InvLines
  <2>2. f.src \in Elements /\ f.dst \in Elements /\ c \in FlitChannels
    BY RouterAssumption, LinkFacts
  <2>3. PICK b \in FlitChannels : b = way[f.src][f.dst][k + 1]
    BY <2>1, <2>2, WayType DEF Distinct
  <2>4. OnWay(way, Lines', sent)
    <3>1. f.num \in 1 .. sent[f.src]
      BY <2>1, <2>2 DEF InvLines, OnWay
    <3>2. OnWay(way, Lines, sent) /\ \A a \in Elements : 1 .. sent[a] \subseteq 1 .. sent[a]
      BY DEF InvLines
    <3>3. \E l \in DOMAIN way[f.src][f.dst] : way[f.src][f.dst][l] = b
      BY <2>1, <2>3
    <3>4. Passes(Lines, Lines', c, f, b)
      BY <2>1, <2>3
    <3> QED BY ONLY <1>1, <3>1, <3>2, <3>3, <3>4, StaysOnWay
  <2>5. ASSUME NEW s \in Elements, NEW d \in Elements
        PROVE  InLine(Lines', way[s][d], s, d)
    <3>1. InLine(Lines, way[s][d], s, d)
      BY DEF InvLines, NoneOvertakes
    <3>2. Distinct(way[s][d])
      BY WayType
    <3>3. Passes(Lines, Lines', c, f, b)
      BY <2>1, <2>3
    <3>4. GoesOn(Lines, way[s][d], s, d, c, f, k, b)
      BY <2>1, <2>2, <2>3 DEF GoesOn
    <3> QED BY ONLY <1>1, <3>1, <3>2, <3>3, <3>4, StaysInLine
  <2> QED BY <1>5, <2>4, <2>5 DEF InvLines, NoneOvertakes, elementVars
<1>6. ASSUME NEW e \in Elements, SendFlit(e)
      PROVE  InvLines(way)'
  <2>1. PICK f \in Flits :
          /\ f.src = e /\ f.num = sent[e] + 1
          /\ 1 \in DOMAIN way[e][f.dst] /\ way[e][f.dst][1] \in FlitChannels
          /\ Passes(Lines, Lines', <<>>, f, way[e][f.dst][1])
    BY <1>6, LinesSend
  <2>2. f.src \in Elements /\ f.dst \in Elements
    BY RouterAssumption
  <2>3. PICK b \in FlitChannels : b = way[f.src][f.dst][1]
    BY <2>1
  <2>4. sent' = [sent EXCEPT ![e] = @ + 1]
    BY <1>6 DEF SendFlit
  <2>5. /\ \A a \in Elements : 1 .. sent[a] \subseteq 1 .. sent'[a]
        /\ f.num \in 1 .. sent'[f.src]
    BY <1>1, <2>1, <2>4
  <2>6. OnWay(way, Lines', sent')
    <3>1. OnWay(way, Lines, sent)
      BY DEF InvLines
    <3>2. \E l \in DOMAIN way[f.src][f.dst] : way[f.src][f.dst][l] = b
      BY <2>1, <2>3
    <3>3. Passes(Lines, Lines', <<>>, f, b)
      BY <2>1, <2>3
    <3> QED BY ONLY <1>1, <2>5, <3>1, <3>2, <3>3, StaysOnWay
  <2>7. ASSUME NEW s \in Elements, NEW d \in Elements
        PROVE  InLine(Lines', way[s][d], s, d)
    <3>1. InLine(Lines, way[s][d], s, d)
      BY DEF InvLines, NoneOvertakes
    <3>2. Distinct(way[s][d])
      BY WayType
    <3>3. \A u \in DOMAIN way[s][d] : \A i \in DOMAIN Lines[way[s][d][u]] :
            f.src = s /\ Lines[way[s][d][u]][i].src = s
              => Lines[way[s][d][u]][i].num \in 1 .. sent[e]
      BY <2>1, <3>2 DEF InvLines, OnWay, Distinct
    <3>4. Passes(Lines, Lines', <<>>, f, b) /\ <<>> \notin FlitChannels
      BY <2>1, <2>3 DEF FlitChannels
    <3>5. Starts(Lines, way[s][d], s, d, f, b, sent[e]) /\ sent[e] \in Nat
      BY <1>1, <2>1, <2>3, <3>3 DEF Starts
    <3> QED BY ONLY <1>1, <3>1, <3>2, <3>4, <3>5, StartsBehind
  <2> QED BY <2>6, <2>7 DEF InvLines, NoneOvertakes
<1>7. ASSUME NEW e \in Elements, NEW c \in FlitChannels, SinkFlit(e, c)
      PROVE  InvLines(way)'
  BY <1>2, <1>7, LinesSink DEF SinkFlit
<1>8. ASSUME NEW r \in Routers, NEW c \in CreditChannels, ReceiveCredit(r, c), UNCHANGED elementVars
      PROVE  InvLines(way)'
  BY <1>4, <1>8 DEF ReceiveCredit, elementVars
<1>9. ASSUME NEW e \in Elements, NEW c \in CreditChannels, CreditIn(e, c)
      PROVE  InvLines(way)'
  BY <1>4, <1>9 DEF CreditIn
<1>10. CASE LateSubscription \/ UNCHANGED vars
  BY <1>4, <1>10 DEF LateSubscription, Join, routerVars, elementVars, vars, nocBusVars
<1> QED BY <1>3, <1>5, <1>6, <1>7, <1>8, <1>9, <1>10
        DEF Next, RouterProcess, RouterEvent, ElementProcess, ElementEvent

(* In an element that the ways lead to there is what has gone them.        *)
LEMMA LinesInOrder ==
  ASSUME NEW way, Routed(way)
  PROVE  IInv /\ InvLines(way) => InOrder
<1> SUFFICES ASSUME IInv, InvLines(way), NEW e \in Elements,
                    NEW i \in DOMAIN sunk[e], NEW j \in DOMAIN sunk[e]
             PROVE  /\ sunk[e][i].dst = e
                    /\ i < j /\ sunk[e][i].src = sunk[e][j].src
                         => sunk[e][i].num < sunk[e][j].num
  BY DEF InOrder
<1>1. TypeOK
  BY DEF IInv
<1>2. PICK c \in FlitChannels : c[2] = "Local" /\ c[3] = e /\ c \notin Links
  <2>1. PICK w : w = way[e][e]
    OBVIOUS
  <2>2. w \in Seq(FlitChannels) /\ w # <<>> /\ w[Len(w)][2] = "Local" /\ w[Len(w)][3] = e
    BY <2>1 DEF Routed, IsWay
  <2>3. w[Len(w)] \in FlitChannels
    BY <2>2
  <2> QED BY <2>2, <2>3 DEF Links
<1>3. Taken(c) = sunk[e] /\ Lines[c] = sunk[e] \o wire[c]
      /\ sunk[e] \in Seq(Flits) /\ wire[c] \in Seq(Flits)
  BY <1>1, <1>2, TakenType DEF Taken
<1>4. \A h \in DOMAIN sunk[e] : h \in DOMAIN Lines[c] /\ Lines[c][h] = sunk[e][h]
  <2>1. \A s, t \in Seq(Flits) : \A h \in DOMAIN s : h \in DOMAIN (s \o t) /\ (s \o t)[h] = s[h]
    OBVIOUS
  <2> QED BY <1>3, <2>1
<1>5. ASSUME NEW h \in DOMAIN sunk[e], NEW x, x = sunk[e][h]
      PROVE  /\ x.src \in Elements /\ x.dst = e
             /\ \E k \in DOMAIN way[x.src][e] : way[x.src][e][k] = c
  <2>1. x \in Flits
    BY <1>3, <1>5
  <2>2. x.src \in Elements /\ x.dst \in Elements
    BY <2>1, RouterAssumption
  <2>3. PICK w : w = way[x.src][x.dst]
    OBVIOUS
  <2>4. PICK k \in DOMAIN w : w[k] = c
    BY <1>4, <1>5, <2>3 DEF InvLines, OnWay
  <2>5. IsWay(w, x.src, x.dst)
    BY <2>2, <2>3 DEF Routed
  <2>6. /\ w \in Seq(FlitChannels) /\ w # <<>> /\ w[Len(w)][3] = x.dst
        /\ \A l \in 1 .. Len(w) - 1 : w[l] \in Links
    BY <2>5 DEF IsWay
  <2>7. k = Len(w)
    BY <1>2, <2>4, <2>6
  <2> QED BY <1>2, <2>2, <2>3, <2>4, <2>6, <2>7
<1>6. ASSUME i < j, sunk[e][i].src = sunk[e][j].src
      PROVE  sunk[e][i].num < sunk[e][j].num
  <2>1. PICK x, y : x = sunk[e][i] /\ y = sunk[e][j]
    OBVIOUS
  <2>2. PICK s \in Elements : s = x.src /\ s = y.src
    BY <1>5, <1>6, <2>1
  <2>3. x.dst = e /\ y.dst = e
    BY <1>5, <2>1
  <2>4. PICK k \in DOMAIN way[s][e] : way[s][e][k] = c
    BY <1>5, <2>1, <2>2
  <2>5. InLine(Lines, way[s][e], s, e)
    BY DEF InvLines, NoneOvertakes
  <2>6. Lines[c][i] = x /\ Lines[c][j] = y /\ i \in DOMAIN Lines[c] /\ j \in DOMAIN Lines[c]
    BY <1>4, <2>1
  <2> QED BY <1>6, <2>1, <2>2, <2>3, <2>4, <2>5, <2>6 DEF InLine
<1> QED BY <1>5, <1>6

(* The flits of one element reach another in the order of their generation *)
(* and nobody else, whatever the order of ticks, flits and credits, and    *)
(* also if late subscriptions lose some, in every network that is point to *)
(* point and whose routing leads to every element.                         *)
THEOREM FlitsInOrder ==
  ASSUME NEW way, Routed(way)
  PROVE  Spec => []InOrder
<1>1. Init => IInv /\ InvLines(way)
  BY InitInv, InitLines
<1>2. (IInv /\ InvLines(way)) /\ [Next]_vars => (IInv /\ InvLines(way))'
  BY NextInv, NextLines
<1>3. IInv /\ InvLines(way) => InOrder
  BY LinesInOrder
<1> QED BY <1>1, <1>2, <1>3, PTL DEF Spec

-----------------------------------------------------------------------------
(* Nobody waits for ever                                                   *)

(* Of some channels one has the lowest number.                             *)
LEMMA Lowest ==
  ASSUME NEW rank \in [FlitChannels -> Nat], NEW S \in SUBSET FlitChannels, S # {}
  PROVE  \E c \in S : \A b \in S : ~(rank[b] < rank[c])
<1> DEFINE T == {rank[c] : c \in S}
<1>1. T \subseteq Nat /\ T # {}
  OBVIOUS
<1>2. PICK x \in T : \A y \in T : ~(<<y, x>> \in OpToRel(<, Nat))
  BY <1>1, NatLessThanWellFounded, WFMin
<1>3. \A y \in T : ~(y < x)
  BY <1>1, <1>2 DEF OpToRel
<1> QED BY <1>3

(* A flit in front of a FIFO goes on through the next channel of its way.  *)
LEMMA FrontGoesOn ==
  ASSUME IInv, NEW way, Routed(way), InvLines(way),
         NEW c \in Links, fifo[c[3]][Port(c)] # <<>>
  PROVE  \E b \in FlitChannels :
           /\ b[1] = c[3] /\ b[2] = OutPort(c[3], Port(c))
           /\ \A rank : Falling(way, rank) => rank[b] < rank[c]
<1>1. TypeOK
  BY DEF IInv
<1>2. c \in FlitChannels /\ c[3] \in Routers /\ Port(c) \in Ports
  BY LinkFacts
<1>3. Taken(c) = fifo[c[3]][Port(c)]
  BY DEF Taken
<1>4. /\ Taken(c) \in Seq(Flits) /\ wire[c] \in Seq(Flits)
      /\ Lines[c] = Taken(c) \o wire[c]
  BY <1>1, <1>2, TakenType
<1>5. PICK f \in Flits : f = Head(Taken(c))
  BY <1>3, <1>4
<1>6. 1 \in DOMAIN Lines[c] /\ f = Lines[c][1]
  <2>1. \A s, t \in Seq(Flits) : s # <<>> => 1 \in DOMAIN (s \o t) /\ Head(s) = (s \o t)[1]
    OBVIOUS
  <2> QED BY <1>3, <1>4, <1>5, <2>1
<1>7. f.src \in Elements /\ f.dst \in Elements
  BY RouterAssumption
<1>8. PICK w : w = way[f.src][f.dst]
  OBVIOUS
<1>9. PICK k \in DOMAIN w : w[k] = c
  BY <1>2, <1>6, <1>8 DEF InvLines, OnWay
<1>10. IsWay(w, f.src, f.dst)
  BY <1>7, <1>8 DEF Routed
<1>11. /\ w \in Seq(FlitChannels) /\ w # <<>> /\ w[Len(w)][2] = "Local"
       /\ \A l \in 1 .. Len(w) - 1 : /\ w[l + 1][1] = w[l][3]
                                     /\ w[l + 1][2] = Route[w[l][3]][f.dst]
  BY <1>10 DEF IsWay
<1>12. k \in 1 .. Len(w) - 1
  <2>1. k # Len(w)
    BY <1>9, <1>11 DEF Links
  <2> QED BY <1>11, <2>1
<1>13. w[k + 1] \in FlitChannels
  BY <1>11, <1>12
<1>14. w[k + 1][1] = c[3] /\ w[k + 1][2] = OutPort(c[3], Port(c))
  BY <1>3, <1>5, <1>9, <1>11, <1>12 DEF OutPort
<1>15. ASSUME NEW rank, Falling(way, rank) PROVE rank[w[k + 1]] < rank[c]
  BY <1>15, <1>7, <1>8, <1>9, <1>12 DEF Falling
<1> QED BY <1>13, <1>14, <1>15

(* A full FIFO is in front of each that waits: if nothing is on its way,   *)
(* one with a lower number has a flit too.                                 *)
LEMMA WaitsForLower ==
  ASSUME IInv, Late = FALSE, AtRest, NEW way, Routed(way), InvLines(way),
         NEW rank, Falling(way, rank),
         NEW c \in Links, fifo[c[3]][Port(c)] # <<>>
  PROVE  \E b \in Links : fifo[b[3]][Port(b)] # <<>> /\ rank[b] < rank[c]
<1>1. TypeOK
  BY DEF IInv
<1>2. c[3] \in Routers /\ Port(c) \in Ports
  BY LinkFacts
<1>3. PICK b \in FlitChannels :
        b[1] = c[3] /\ b[2] = OutPort(c[3], Port(c)) /\ rank[b] < rank[c]
  BY FrontGoesOn
<1>4. OutPort(c[3], Port(c)) # "Local" /\ ~(credit[c[3]][Opposite[OutPort(c[3], Port(c))]] > 0)
  BY <1>2 DEF AtRest, MayForward
<1>5. b \in Links
  BY <1>3, <1>4 DEF Links
<1>6. b[2] \in Directions
  BY <1>2, <1>3, <1>5, LinkFacts
<1>7. Opposite[b[2]] = Port(b)
  BY <1>6 DEF Port, Opposite, InputFifo, Directions
<1>8. ~(Credit(b) > 0)
  BY <1>3, <1>4, <1>7 DEF Credit
<1>9. Flying(b) = 0 /\ Returning(b) = 0
  BY <1>5, LinkFacts DEF AtRest, Flying, Returning
<1>10. /\ Credit(b) \in Nat /\ Waiting(b) \in Nat /\ Places(b) = MaxCredit
       /\ Credit(c) \in Nat /\ Flying(c) \in Nat /\ Returning(c) \in Nat
       /\ Waiting(c) \in Nat /\ Places(c) = MaxCredit
  BY <1>1, <1>5, PlacesType DEF IInv, InvPlaces
<1>11. Waiting(c) > 0
  <2>1. fifo[c[3]][Port(c)] \in Seq(Flits)
    BY <1>1, <1>2 DEF TypeOK, RouterTypeOK
  <2> QED BY <2>1 DEF Waiting
<1>12. Waiting(b) > 0
  BY <1>8, <1>9, <1>10, <1>11 DEF Places
<1>13. fifo[b[3]][Port(b)] # <<>>
  BY <1>12 DEF Waiting
<1> QED BY <1>3, <1>5, <1>13

LEMMA RestIsEmpty ==
  ASSUME Late = FALSE, NEW way, Routed(way), NEW rank, Falling(way, rank)
  PROVE  IInv /\ InvLines(way) => NoDeadlock
<1> SUFFICES ASSUME IInv, InvLines(way), AtRest
             PROVE  /\ \A r \in Routers : \A p \in Ports : fifo[r][p] = <<>>
                    /\ \A c \in Links : Credit(c) = MaxCredit
  BY DEF NoDeadlock
<1> DEFINE Held == {c \in Links : fifo[c[3]][Port(c)] # <<>>}
<1>1. Held = {}
  <2> SUFFICES ASSUME Held # {} PROVE FALSE
    OBVIOUS
  <2>1. rank \in [FlitChannels -> Nat] /\ Held \in SUBSET FlitChannels
    BY DEF Falling, Links
  <2>2. PICK c \in Held : \A b \in Held : ~(rank[b] < rank[c])
    BY <2>1, Lowest
  <2>3. PICK b \in Links : fifo[b[3]][Port(b)] # <<>> /\ rank[b] < rank[c]
    BY <2>2, WaitsForLower
  <2> QED BY <2>2, <2>3
<1>2. ASSUME NEW r \in Routers, NEW p \in Ports, fifo[r][p] # <<>> PROVE FALSE
  <2>1. PICK c \in Links : c[3] = r /\ Port(c) = p
    BY <1>2 DEF IInv, InvUnlinked
  <2> QED BY <1>1, <1>2, <2>1
<1>3. ASSUME NEW c \in Links PROVE Credit(c) = MaxCredit
  <2>1. Flying(c) = 0 /\ Returning(c) = 0
    BY LinkFacts DEF AtRest, Flying, Returning
  <2>2. Waiting(c) = 0
    BY <1>1 DEF Waiting
  <2>3. Credit(c) \in Nat /\ Places(c) = MaxCredit
    BY PlacesType DEF IInv, InvPlaces
  <2> QED BY <2>1, <2>2, <2>3 DEF Places
<1> QED BY <1>2, <1>3

(* No order of ticks, flits and credits, and no traffic, makes flits wait  *)
(* for one another for ever, and the network gives all places back, if     *)
(* the ways do not go in a circle and subscriptions are in time.           *)
THEOREM DeadlockFree ==
  ASSUME Late = FALSE, NEW way, Routed(way), NEW rank, Falling(way, rank)
  PROVE  Spec => []NoDeadlock
<1>1. Init => IInv /\ InvLines(way)
  BY InitInv, InitLines
<1>2. (IInv /\ InvLines(way)) /\ [Next]_vars => (IInv /\ InvLines(way))'
  BY NextInv, NextLines
<1>3. IInv /\ InvLines(way) => NoDeadlock
  BY RestIsEmpty
<1> QED BY <1>1, <1>2, <1>3, PTL DEF Spec
=============================================================================
