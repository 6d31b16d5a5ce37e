---------------------------- MODULE NetworkOnChip ----------------------------
(***************************************************************************)
(* The routers and processing elements of a hosts file as one network,     *)
(* with the properties of its credit-based flow control.  The ticks of the *)
(* simulation model are not awaited by anyone and each model handles them  *)
(* at its own pace, so here a model may handle one at any time; a tick on  *)
(* which it sends nothing changes nothing.                                 *)
(***************************************************************************)
EXTENDS ProcessingElement

CONSTANT FifoSize   \* mFifoSize, the depth of every FIFO of a router

ASSUME FifoAssumption == FifoSize \in Nat /\ MaxCredit <= FifoSize

vars == <<nocBusVars, routerVars, elementVars>>

Init == NocBusInit /\ RouterInit /\ ElementInit

RouterProcess(r)  == RouterEvent(r) /\ UNCHANGED elementVars
ElementProcess(e) == ElementEvent(e)
LateSubscription  == Join /\ UNCHANGED <<routerVars, elementVars>>

Next ==
  \/ \E r \in Routers : RouterProcess(r)
  \/ \E e \in Elements : ElementProcess(e)
  \/ LateSubscription

Spec == Init /\ [][Next]_vars

TypeOK == NocBusTypeOK(Flits) /\ RouterTypeOK /\ ElementTypeOK

-----------------------------------------------------------------------------

(* The places of the FIFO that link c leads to, wherever they are: credit  *)
(* of the writer, flits on their way, flits in the FIFO, credits on their  *)
(* way back.                                                               *)
Port(c)      == InputFifo[c[2]]
Credit(c)    == credit[c[1]][Port(c)]
Flying(c)    == Len(wire[c])
Waiting(c)   == Len(fifo[c[3]][Port(c)])
Returning(c) == credits[Back(c)]
Places(c)    == Credit(c) + Flying(c) + Waiting(c) + Returning(c)

(* Credits are neither lost nor made: whatever the order in which ticks,   *)
(* flits and credits are handled, the four add up to the initial credit    *)
(* (so that the guard mCredit_Cnt_L < 3 never drops a credit, and a full   *)
(* FIFO is one whose writer has no credit).                                *)
CreditsConserved == \A c \in Links : Places(c) = MaxCredit

(* Subscriptions that arrive late can lose places, never add them.         *)
CreditsNotCreated == \A c \in Links : Places(c) <= MaxCredit

(* No router pushes a flit into a full FIFO, even if events were lost.     *)
NoOverflow == \A r \in Routers : \A p \in Ports : Len(fifo[r][p]) <= FifoSize

(* The flits of one element reach another in the order of generation, none *)
(* twice, and every flit that reaches an element is meant for it.          *)
InOrder ==
  \A e \in Elements : \A i, j \in DOMAIN sunk[e] :
    /\ sunk[e][i].dst = e
    /\ i < j /\ sunk[e][i].src = sunk[e][j].src => sunk[e][i].num < sunk[e][j].num

(* Every flit that the generators of a run give has got to its element.    *)
Arrived ==
  \A e \in Elements : \A n \in 1 .. Budget[e] : \E d \in Elements :
    \E i \in DOMAIN sunk[d] :
      sunk[d][i].src = e /\ sunk[d][i].num = n /\ sunk[d][i].dst = d

(* Nothing is on its way any more, and no router has a flit that may go.   *)
AtRest ==
  /\ \A c \in FlitChannels : wire[c] = <<>>
  /\ \A b \in CreditChannels : credits[b] = 0
  /\ \A r \in Routers : \A p \in Ports : ~MayForward(r, p)

(* Then there is none at all, and every credit is back where it was at the *)
(* beginning: no flits wait for one another, and none for a lost credit.   *)
NoDeadlock == AtRest =>
  /\ \A r \in Routers : \A p \in Ports : fifo[r][p] = <<>>
  /\ \A c \in Links : Credit(c) = MaxCredit

(* The inductive invariant behind the theorems: subscriptions that are not *)
(* late lose nothing, and a port that no link leads to stays empty.        *)
InvJoined == ~Late => joinedF = FlitChannels /\ joinedC = CreditChannels
InvPlaces == \A c \in Links :
  /\ Places(c) <= MaxCredit
  /\ ~Late => Places(c) = MaxCredit
InvUnlinked == \A r \in Routers : \A p \in Ports :
  fifo[r][p] # <<>> => \E c \in Links : c[3] = r /\ Port(c) = p
IInv == TypeOK /\ InvJoined /\ InvPlaces /\ InvUnlinked

-----------------------------------------------------------------------------
(* The ways of the flits, for the proofs of InOrder and NoDeadlock.        *)

(* The channels that a flit from s to d goes through, none of them twice.  *)
IsWay(channels, s, d) ==
  /\ channels \in Seq(FlitChannels) /\ channels # <<>>
  /\ channels[1][1] = s
  /\ \A k \in 1 .. Len(channels) - 1 :
       /\ channels[k] \in Links
       /\ channels[k + 1][1] = channels[k][3]
       /\ channels[k + 1][2] = Route[channels[k][3]][d]
  /\ channels[Len(channels)][2] = "Local" /\ channels[Len(channels)][3] = d
  /\ \A k, l \in DOMAIN channels : channels[k] = channels[l] => k = l

(* The routing leads from everywhere to everywhere, and each router has    *)
(* one element, each element one router.                                   *)
Routed(way) ==
  /\ \A s, d \in Elements : IsWay(way[s][d], s, d)
  /\ \A b, c \in FlitChannels \ Links : b[1] = c[1] \/ b[3] = c[3] => b = c

(* Channels do not wait for one another in a circle: numbers can be given  *)
(* to them that fall along every way.                                      *)
Falling(way, rank) ==
  /\ rank \in [FlitChannels -> Nat]
  /\ \A s, d \in Elements : \A k \in 1 .. Len(way[s][d]) - 1 :
       rank[way[s][d][k + 1]] < rank[way[s][d][k]]

(* The flits that have been published on a channel and that its reader has *)
(* not forwarded, in their order.                                          *)
Taken(c) == IF c \in Links THEN fifo[c[3]][Port(c)] ELSE sunk[c[3]]
Lines == [c \in FlitChannels |-> Taken(c) \o wire[c]]

(* Every flit of the lines is on its way ...                               *)
OnWay(way, lines, number) ==
  \A c \in FlitChannels : \A i \in DOMAIN lines[c] :
    LET f == lines[c][i] IN
      /\ f.num \in 1 .. number[f.src]
      /\ \E k \in DOMAIN way[f.src][f.dst] : way[f.src][f.dst][k] = c

(* ... and none is ahead of a former one with the same way.                *)
InLine(lines, channels, s, d) ==
  \A k, l \in DOMAIN channels :
    \A i \in DOMAIN lines[channels[k]] : \A j \in DOMAIN lines[channels[l]] :
      LET f == lines[channels[k]][i]
          g == lines[channels[l]][j]
      IN  /\ f.src = s /\ f.dst = d /\ g.src = s /\ g.dst = d
          /\ k > l \/ (k = l /\ i < j)
          => f.num < g.num

NoneOvertakes(way, lines) == \A s, d \in Elements : InLine(lines, way[s][d], s, d)

InvLines(way) == OnWay(way, Lines, sent) /\ NoneOvertakes(way, Lines)

=============================================================================
