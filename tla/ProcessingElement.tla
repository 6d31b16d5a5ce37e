-------------------------- MODULE ProcessingElement --------------------------
(***************************************************************************)
(* models/processing_element: generates the flits of packets, one in a     *)
(* cycle of the clock and only with credit for its router's local FIFO,    *)
(* and consumes the flits its router sends it.  mCredit_Cnt_L is the       *)
(* element's credit[e]["Local"].  PacketGenerator and PacketSink are       *)
(* outside this repository: getFlit gives some flit or none.               *)
(***************************************************************************)
EXTENDS RouterAdapter

CONSTANT Budget   \* Budget[e]: how many flits the generator of e gives at most

ASSUME BudgetAssumption == Budget \in [Elements -> Nat]

VARIABLES
  sent,  \* sent[e]: how many flits e has generated
  sunk   \* sunk[e]: the flits e has given to its packet sink

elementVars == <<sent, sunk>>

ElementInit ==
  /\ sent = [e \in Elements |-> 0]
  /\ sunk = [e \in Elements |-> <<>>]

ElementTypeOK ==
  /\ sent \in [Elements -> Nat]
  /\ sunk \in [Elements -> Seq(Flits)]

-----------------------------------------------------------------------------

(* What PacketGenerator::getFlit may return when it returns a flit.        *)
getFlit(e) ==
  {f \in Flits : f.src = e /\ f.dst # e /\ f.num = sent[e] + 1 /\ sent[e] < Budget[e]}

(* A bug: mCredit_Cnt_L > 0 is missing.                                    *)
MaySendAlways(e) == TRUE

MaySend(e) == credit[e]["Local"] > 0

(* "SimTimeChanged"                                                        *)
SendFlit(e) ==
  /\ MaySend(e)
  /\ \E flit \in getFlit(e) : PublishFlit(e, "PacketGenerator", flit)
  /\ credit' = Spent(e, "Local")
  /\ sent' = [sent EXCEPT ![e] = @ + 1]
  /\ UNCHANGED <<credits, joinedF, joinedC, fifo, sunk>>

MayCount(e) == credit[e]["Local"] < MaxCredit

(* "Credit_in_L++": the counter stays at its initial value.                *)
CreditIn(e, c) ==
  /\ c \in CreditChannels
  /\ c[3] = e
  /\ credits[c] > 0
  /\ credits' = [credits EXCEPT ![c] = @ - 1]
  /\ credit' = IF MayCount(e) THEN [credit EXCEPT ![e]["Local"] = @ + 1] ELSE credit
  /\ UNCHANGED <<wire, joinedF, joinedC, fifo, sent, sunk>>

(* "Local"                                                                 *)
SinkFlit(e, c) ==
  /\ c \in FlitChannels
  /\ c[3] = e
  /\ wire[c] # <<>>
  /\ wire' = [wire EXCEPT ![c] = Tail(@)]
  /\ sunk' = [sunk EXCEPT ![e] = Append(@, Head(wire[c]))]
  /\ UNCHANGED <<credits, joinedF, joinedC, fifo, credit, sent>>

ElementEvent(e) ==
  \/ SendFlit(e)
  \/ \E c \in CreditChannels : CreditIn(e, c)
  \/ \E c \in FlitChannels : SinkFlit(e, c)

=============================================================================
