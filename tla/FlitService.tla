----------------------------- MODULE FlitService -----------------------------
(***************************************************************************)
(* What the network promises its elements, without routers, credits or     *)
(* FIFOs: a flit that is generated reaches the element it is meant for,    *)
(* once, and after all flits that the same element has generated for it    *)
(* before.  Nothing is lost, unless all the processes are replaced.        *)
(***************************************************************************)
EXTENDS Integers, Sequences

CONSTANTS Elements, Flits

VARIABLES
  sent,     \* sent[e]: how many flits e has generated
  pending,  \* the flits that are generated and not delivered
  sunk      \* sunk[e]: the flits delivered to e

vars == <<sent, pending, sunk>>

Init ==
  /\ sent = [e \in Elements |-> 0]
  /\ pending = {}
  /\ sunk = [e \in Elements |-> <<>>]

Send(e) ==
  /\ \E f \in Flits :
       /\ f.src = e
       /\ f.num = sent[e] + 1
       /\ pending' = pending \union {f}
  /\ sent' = [sent EXCEPT ![e] = @ + 1]
  /\ UNCHANGED sunk

Oldest(f) ==
  \A g \in pending : g.src = f.src /\ g.dst = f.dst => f.num <= g.num

Deliver(f) ==
  /\ Oldest(f)
  /\ pending' = pending \ {f}
  /\ sunk' = [sunk EXCEPT ![f.dst] = Append(@, f)]
  /\ UNCHANGED sent

(* A run that starts from stored parameters has not generated anything.    *)
Restart ==
  /\ sent' = [e \in Elements |-> 0]
  /\ pending' = {}
  /\ sunk' = [e \in Elements |-> <<>>]

Next ==
  \/ \E e \in Elements : Send(e)
  \/ \E f \in pending : Deliver(f)
  \/ Restart

Spec == Init /\ [][Next]_vars

-----------------------------------------------------------------------------

Same(f, g) == f.src = g.src /\ f.num = g.num

(* Each flit that was generated is at one place: pending, or delivered to  *)
(* the element it is meant for.                                            *)
Accounted ==
  /\ \A e \in Elements : \A n \in 1 .. sent[e] :
       \/ \E f \in pending : f.src = e /\ f.num = n
       \/ \E d \in Elements : \E i \in DOMAIN sunk[d] :
            sunk[d][i].src = e /\ sunk[d][i].num = n /\ sunk[d][i].dst = d
  /\ \A f, g \in pending : Same(f, g) => f = g
  /\ \A d \in Elements : \A i \in DOMAIN sunk[d] :
       /\ \A f \in pending : ~Same(f, sunk[d][i])
       /\ \A c \in Elements : \A j \in DOMAIN sunk[c] :
            Same(sunk[c][j], sunk[d][i]) => c = d /\ j = i

(* For its proof: nothing is known that was not generated.                 *)
InvGenerated ==
  /\ sent \in [Elements -> Nat]
  /\ sunk \in [Elements -> Seq(Flits)]
  /\ pending \subseteq Flits
  /\ \A f \in pending : f.num \in 1 .. sent[f.src]
  /\ \A d \in Elements : \A i \in DOMAIN sunk[d] :
       sunk[d][i].num \in 1 .. sent[sunk[d][i].src]

=============================================================================
