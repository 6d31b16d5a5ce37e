---------------------------- MODULE ResumedNetwork ----------------------------
(***************************************************************************)
(* The network on chip with savepoints: the processes of a run that goes   *)
(* on from a savepoint are new ones.  loadState gives them the parameters  *)
(* that serialize stores, and init() sets up Router and PacketGenerator    *)
(* with these.  FIFOs, credit counters, the generator's position and the   *)
(* events on their way are in no file, so that it does not matter when the *)
(* state was stored: the network starts again, and so do its packets.      *)
(***************************************************************************)
EXTENDS NetworkOnChip

CONSTANT MaxResumes   \* bound: how often a run is resumed

ASSUME ResumeAssumption == MaxResumes \in Nat

VARIABLE resumes   \* how often the run has been resumed

resumedVars == <<vars, resumes>>

ResumedInit == Init /\ resumes = 0

(* A bug: credit counters are stored and restored, what they count is not. *)
RestoredCreditOnly == credit

(* The initial value of mCredit_Cnt_L and of the Router's counters.        *)
RestoredCredit == [m \in NocModels |-> [p \in Ports |-> MaxCredit]]

(* A run starts from stored parameters, after the old one has ended or has *)
(* been killed at any point.                                               *)
Resume ==
  /\ resumes < MaxResumes
  /\ resumes' = resumes + 1
  /\ wire' = [c \in FlitChannels |-> <<>>]
  /\ credits' = [c \in CreditChannels |-> 0]
  /\ joinedF' = {c \in FlitChannels : OnTime(c)}
  /\ joinedC' = {c \in CreditChannels : OnTime(c)}
  /\ fifo' = [r \in Routers |-> [p \in Ports |-> <<>>]]
  /\ credit' = RestoredCredit
  /\ sent' = [e \in Elements |-> 0]
  /\ sunk' = [e \in Elements |-> <<>>]

ResumedNext == Resume \/ (Next /\ UNCHANGED resumes)

ResumedSpec == ResumedInit /\ [][ResumedNext]_resumedVars

(* Every model of the run that is not resumed again goes on handling its   *)
(* events and the ticks of the clock.                                      *)
ResumedFairSpec ==
  /\ ResumedSpec
  /\ \A r \in Routers : WF_resumedVars(RouterProcess(r) /\ UNCHANGED resumes)
  /\ \A e \in Elements : WF_resumedVars(ElementProcess(e) /\ UNCHANGED resumes)

-----------------------------------------------------------------------------

(* Every flit of every element gets to the element it was meant for, and   *)
(* nobody waits for ever for a credit: neither in a run that starts afresh *)
(* nor in one that goes on from another, wherever that was cut.            *)
Delivered == <>[]Arrived

(* The network implements FlitService: seen from its elements it is        *)
(* nothing but the flits that are underway, none of which is lost, doubled *)
(* or overtaken.                                                           *)
OnWires(W) == UNION {{W[c][i] : i \in DOMAIN W[c]} : c \in FlitChannels}
InFifos(Q) == UNION {{Q[x[1]][x[2]][i] : i \in DOMAIN Q[x[1]][x[2]]} : x \in Routers \X Ports}

Underway == OnWires(wire) \union InFifos(fifo)

Service == INSTANCE FlitService WITH pending <- Underway

ServiceSpec == Service!Spec

=============================================================================
