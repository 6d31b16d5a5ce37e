--------------------------- MODULE MCNetworkOnChip ---------------------------
(***************************************************************************)
(* The network of hosts-configs/config0.xml: four routers, two wide and    *)
(* two high, each with a processing element (the one of router_0 is        *)
(* commented out there in favour of the SystemC adapter); and its upper    *)
(* row alone.                                                              *)
(***************************************************************************)
EXTENDS NetworkOnChip, TLC

CONSTANTS router_0, router_1, router_2, router_3,
          element_0, element_1, element_2, element_3,
          MaxFlits  \* bound on the flits that one element generates

Mesh == {router_0, router_1, router_2, router_3}
MeshElements == {element_0, element_1, element_2, element_3}
Row == {router_0, router_1}
RowElements == {element_0, element_1}

Number(m) == CASE m \in {router_0, element_0} -> 0
               [] m \in {router_1, element_1} -> 1
               [] m \in {router_2, element_2} -> 2
               [] OTHER -> 3
X(m) == Number(m) % 2
Y(m) == Number(m) \div 2

(* The <Dependencies> of the hosts file: the neighbours and the element of *)
(* a router, the router of an element.                                     *)
Adjacent(a, b) == (X(a) = X(b)) # (Y(a) = Y(b))
MCDependencies ==
  [m \in NocModels |-> {n \in NocModels :
     \/ m \in Routers /\ n \in Routers /\ Adjacent(m, n)
     \/ (m \in Routers) # (n \in Routers) /\ Number(m) = Number(n)}]

(* connectivityBits 1010, 1100, 0011 and 0101 of the hosts file.           *)
MCConnectivityBits ==
  [r \in Routers |-> {b \in 0 .. 3 : \E n \in Routers :
     /\ Adjacent(r, n)
     /\ CASE b = 0 -> Y(n) < Y(r)
          [] b = 1 -> X(n) > X(r)
          [] b = 2 -> X(n) < X(r)
          [] OTHER -> Y(n) > Y(r)}]

ConfiguredBits == router_0 :> {1, 3} @@ router_1 :> {2, 3}
                    @@ router_2 :> {0, 1} @@ router_3 :> {0, 2}

ASSUME BitsOfHostsFile == Routers = Mesh => MCConnectivityBits = ConfiguredBits

(* Routing along the row first (routingBits 00111100).                     *)
MCRoute == [r \in Routers |-> [e \in Elements |->
  CASE X(e) > X(r) -> "East"
    [] X(e) < X(r) -> "West"
    [] Y(e) > Y(r) -> "South"
    [] Y(e) < Y(r) -> "North"
    [] OTHER -> "Local"]]

(* The ways on which the flits then go, each found from its first link on. *)
MCWay == [s \in Elements |-> [d \in Elements |->
  LET onward[c \in FlitChannels] ==
        IF c[2] = "Local" THEN <<c>>
        ELSE <<c>> \o onward[CHOOSE b \in FlitChannels :
                               b[1] = c[3] /\ b[2] = MCRoute[c[3]][d]]
  IN  onward[CHOOSE c \in Links : c[1] = s]]]

ASSUME WaysOfHostsFile == Routed(MCWay)

(* ... along the row, then along the column, then into an element.         *)
MCRank == [c \in FlitChannels |->
  CASE c[2] = "Local" -> 0
    [] c[2] \in {"North", "South"} -> 1
    [] c[2] \in {"East", "West"} -> 2
    [] OTHER -> 3]

ASSUME NoCircleOfHostsFile == Falling(MCWay, MCRank)

MCFlits == [src : Elements, dst : Elements, num : 1 .. MaxFlits]

(* Only one element sends, and more flits than it has credits ...          *)
OneSender == [e \in Elements |-> IF e = element_0 THEN MaxFlits ELSE 0]
(* ... or both ends of the diagonal send to anyone.                        *)
Diagonal == [e \in Elements |-> CASE e = element_0 -> MaxFlits
                                  [] e = element_3 -> 1
                                  [] OTHER -> 0]

=============================================================================
