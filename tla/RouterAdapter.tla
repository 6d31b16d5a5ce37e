---------------------------- MODULE RouterAdapter ----------------------------
(***************************************************************************)
(* models/router: the adapter that connects a Router of the fraser library *)
(* to the events of the simulation, between loading the state and End.     *)
(*                                                                         *)
(* The Router itself is outside this repository.  It is modelled from the  *)
(* calls of the adapter: five input FIFOs, a credit counter for every      *)
(* output port that leads to another router, and an arbitration which      *)
(* forwards at most one flit in a cycle, to the port that Route names, if  *)
(* there is credit for it.  Which of the flits that may go it prefers      *)
(* (round robin) is left open.  Its Local output needs no credit: no model *)
(* ever publishes one for it.                                              *)
(***************************************************************************)
EXTENDS NocBus

CONSTANTS
  Flits,      \* the flits of the run: records with a source and a destination
  Route,      \* Route[r][e]: the output port of router r towards element e
  MaxCredit   \* places of a FIFO that its writer may fill

ASSUME RouterAssumption ==
  /\ \A f \in Flits : f.src \in Elements /\ f.dst \in Elements
  /\ Route \in [Routers -> [Elements -> Ports]]
  /\ MaxCredit \in Nat

VARIABLES
  fifo,    \* fifo[r][p]: the FIFO of input port p of router r
  credit   \* credit[m][p]: m's credit for the FIFO of its neighbour's port p

routerVars == <<fifo, credit>>

RouterInit ==
  /\ fifo = [r \in Routers |-> [p \in Ports |-> <<>>]]
  /\ credit = [m \in NocModels |-> [p \in Ports |-> MaxCredit]]

RouterTypeOK ==
  /\ fifo \in [Routers -> [Ports -> Seq(Flits)]]
  /\ credit \in [NocModels -> [Ports -> Nat]]

-----------------------------------------------------------------------------

(* "PacketGenerator", "South", "West", "North" and "East": the flit goes   *)
(* into the FIFO of the port it came through.                              *)
ReceiveFlit(r, c) ==
  /\ c \in Links
  /\ c[3] = r
  /\ wire[c] # <<>>
  /\ wire' = [wire EXCEPT ![c] = Tail(@)]
  /\ fifo' = [fifo EXCEPT ![r][InputFifo[c[2]]] = Append(@, Head(wire[c]))]
  /\ UNCHANGED <<credits, joinedF, joinedC, credit>>

(* "Credit_in_N++" and its like.                                           *)
ReceiveCredit(r, c) ==
  /\ c \in CreditChannels
  /\ c[3] = r
  /\ credits[c] > 0
  /\ credits' = [credits EXCEPT ![c] = @ - 1]
  /\ credit' = [credit EXCEPT ![r][c[2]] = @ + 1]
  /\ UNCHANGED <<wire, joinedF, joinedC, fifo>>

(* What arbitrateWithRoundRobinPrioritization may choose.                  *)
OutPort(r, p) == Route[r][Head(fifo[r][p]).dst]

MayForward(r, p) ==
  /\ fifo[r][p] # <<>>
  /\ OutPort(r, p) # "Local" => credit[r][Opposite[OutPort(r, p)]] > 0

(* A bug: the FIFO keeps the flit.                                         *)
getNextFlitKept(r, p) == fifo

(* Router::getNextFlit takes the flit out of its FIFO.                     *)
getNextFlit(r, p) == [fifo EXCEPT ![r][p] = Tail(@)]

(* A bug: the counter is not decreased.                                    *)
SpentNothing(m, p) == credit

Spent(m, p) == [credit EXCEPT ![m][p] = @ - 1]

(* "SimTimeChanged": sendFlit, and updateCreditCounter for the FIFO that   *)
(* gave the flit.                                                          *)
ForwardFlit(r, p) ==
  /\ MayForward(r, p)
  /\ PublishFlit(r, OutPort(r, p), Head(fifo[r][p]))
  /\ PublishCredit(r, p)
  /\ fifo' = getNextFlit(r, p)
  /\ credit' = IF OutPort(r, p) = "Local" THEN credit
               ELSE Spent(r, Opposite[OutPort(r, p)])
  /\ UNCHANGED <<joinedF, joinedC>>

RouterEvent(r) ==
  \/ \E c \in Links : ReceiveFlit(r, c)
  \/ \E c \in CreditChannels : ReceiveCredit(r, c)
  \/ \E p \in Ports : ForwardFlit(r, p)

=============================================================================
