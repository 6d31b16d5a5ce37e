------------------------- MODULE ResumedNetwork_proofs -------------------------
(***************************************************************************)
(* Proofs about ResumedNetwork, for every network, and however often it is *)
(* killed and resumed.                                                     *)
(***************************************************************************)
EXTENDS ResumedNetwork, NetworkOnChip_proofs

(* A new run starts in an initial state of the network.                    *)
LEMMA ResumeInit == Resume => Init'
BY DEF Resume, RestoredCredit, Init, NocBusInit, RouterInit, ElementInit, OnTime

(* So the invariant of the network goes through every step.                *)
LEMMA ResumedInv == ResumedSpec => []IInv
<1>1. ResumedInit => IInv
  BY InitInv DEF ResumedInit
<1>2. Init' => IInv'
  BY InitInv, PTL
<1>3. IInv /\ [ResumedNext]_resumedVars => IInv'
  <2> SUFFICES ASSUME IInv, [ResumedNext]_resumedVars PROVE IInv'
    OBVIOUS
  <2>1. CASE Resume
    BY <1>2, <2>1, ResumeInit
  <2>2. CASE ~Resume
    <3>1. [Next]_vars
      BY <2>2 DEF ResumedNext, resumedVars
    <3> QED
      BY <3>1, NextInv
  <2> QED
    BY <2>1, <2>2
<1> QED
  BY <1>1, <1>3, PTL DEF ResumedSpec

(* What is stored and what is not fit together: a resumed network has all  *)
(* its credits, wherever the run before it was cut.                        *)
THEOREM ConservedAgain ==
  ASSUME Late = FALSE
  PROVE  ResumedSpec => []CreditsConserved
<1>1. IInv => CreditsConserved
  BY DEF IInv, InvPlaces, CreditsConserved
<1> QED
  BY <1>1, ResumedInv, PTL

(* The flits of a run that goes on are on the ways of that run alone.      *)
LEMMA ResumedLines ==
  ASSUME NEW way, Routed(way)
  PROVE  ResumedSpec => [](IInv /\ InvLines(way))
<1>1. ResumedInit => InvLines(way)
  BY InitLines DEF ResumedInit
<1>2. Init' => InvLines(way)'
  <2>1. Init => InvLines(way)
    BY InitLines
  <2> QED BY <2>1, PTL
<1>3. IInv /\ InvLines(way) /\ [ResumedNext]_resumedVars => InvLines(way)'
  <2> SUFFICES ASSUME IInv, InvLines(way), [ResumedNext]_resumedVars PROVE InvLines(way)'
    OBVIOUS
  <2>1. CASE Resume
    BY <1>2, <2>1, ResumeInit
  <2>2. CASE ~Resume
    <3>1. [Next]_vars
      BY <2>2 DEF ResumedNext, resumedVars
    <3> QED
      BY <3>1, NextLines
  <2> QED
    BY <2>1, <2>2
<1> QED BY <1>1, <1>3, ResumedInv, PTL DEF ResumedSpec

(* Nor does anything that was on its way get into the order of the run     *)
(* that goes on: flits reach an element in the order of their generation.  *)
THEOREM InOrderAgain ==
  ASSUME NEW way, Routed(way)
  PROVE  ResumedSpec => []InOrder
<1>1. IInv /\ InvLines(way) => InOrder
  BY LinesInOrder
<1> QED BY <1>1, ResumedLines, PTL

(* Wherever a run was cut, the next one does not wait for what the former  *)
(* has not done: if it comes to rest it is empty.                          *)
THEOREM DeadlockFreeAgain ==
  ASSUME Late = FALSE, NEW way, Routed(way), NEW rank, Falling(way, rank)
  PROVE  ResumedSpec => []NoDeadlock
<1>1. IInv /\ InvLines(way) => NoDeadlock
  BY RestIsEmpty
<1> QED BY <1>1, ResumedLines, PTL

-----------------------------------------------------------------------------
(* The service                                                             *)

(* A flit is underway if it is on a wire or in a FIFO.                     *)
Has(s, f) == \E i \in DOMAIN s : s[i] = f

LEMMA OnWiresIs ==
  ASSUME NEW W, NEW f
  PROVE  f \in OnWires(W) <=> \E c \in FlitChannels : Has(W[c], f)
BY DEF OnWires, Has

LEMMA InFifosIs ==
  ASSUME NEW Q, NEW f
  PROVE  f \in InFifos(Q) <=> \E r \in Routers, p \in Ports : Has(Q[r][p], f)
<1>1. f \in InFifos(Q) <=> \E x \in Routers \X Ports : Has(Q[x[1]][x[2]], f)
  BY DEF InFifos, Has
<1>2. ASSUME NEW r \in Routers, NEW p \in Ports, Has(Q[r][p], f)
      PROVE  \E x \in Routers \X Ports : Has(Q[x[1]][x[2]], f)
  <2> WITNESS <<r, p>> \in Routers \X Ports
  <2> QED BY <1>2
<1> QED BY <1>1, <1>2

(* What a queue has before its front is taken, ...                         *)
LEMMA FrontOrRest ==
  ASSUME NEW S, NEW s \in Seq(S), s # <<>>, NEW f
  PROVE  Has(s, f) <=> (f = Head(s) \/ Has(Tail(s), f))
<1>1. 1 \in DOMAIN s /\ Head(s) = s[1]
  OBVIOUS
<1>2. DOMAIN Tail(s) = 1 .. Len(s) - 1 /\ \A i \in 1 .. Len(s) - 1 : Tail(s)[i] = s[i + 1]
  OBVIOUS
<1>3. ASSUME NEW i \in DOMAIN s, i # 1 PROVE i - 1 \in DOMAIN Tail(s) /\ Tail(s)[i - 1] = s[i]
  BY <1>2, <1>3
<1>4. \A i \in DOMAIN Tail(s) : i + 1 \in DOMAIN s
  BY <1>2
<1> QED BY <1>1, <1>2, <1>3, <1>4 DEF Has

(* ... and when something has come to its end.                             *)
LEMMA WithLast ==
  ASSUME NEW S, NEW s \in Seq(S), NEW e \in S, NEW f
  PROVE  Has(Append(s, e), f) <=> (f = e \/ Has(s, f))
<1>1. Len(s) + 1 \in DOMAIN Append(s, e) /\ Append(s, e)[Len(s) + 1] = e
  OBVIOUS
<1>2. \A i \in DOMAIN s : i \in DOMAIN Append(s, e) /\ Append(s, e)[i] = s[i]
  OBVIOUS
<1>3. \A i \in DOMAIN Append(s, e) : i \in DOMAIN s \/ i = Len(s) + 1
  OBVIOUS
<1> QED BY <1>1, <1>2, <1>3 DEF Has

(* What is published in time is on a wire then.                            *)
LEMMA Published ==
  ASSUME TypeOK, joinedF = FlitChannels, NEW m, NEW topic, NEW h \in Flits,
         PublishFlit(m, topic, h), NEW b \in FlitChannels, b[1] = m, b[2] = topic
  PROVE  OnWires(wire') = OnWires(wire) \union {h}
<1>1. ASSUME NEW c \in FlitChannels, NEW f
      PROVE  Has(Append(wire[c], h), f) <=> (f = h \/ Has(wire[c], f))
  <2>1. wire[c] \in Seq(Flits)
    BY DEF TypeOK, NocBusTypeOK
  <2> QED BY <2>1, WithLast
<1>2. \A c \in FlitChannels : wire'[c] = wire[c] \/ wire'[c] = Append(wire[c], h)
  BY DEF PublishFlit
<1>3. wire'[b] = Append(wire[b], h)
  BY DEF PublishFlit
<1>4. ASSUME NEW f
      PROVE  (\E c \in FlitChannels : Has(wire'[c], f))
               <=> (f = h \/ \E c \in FlitChannels : Has(wire[c], f))
  <2>1. \A c \in FlitChannels : Has(wire'[c], f) => f = h \/ Has(wire[c], f)
    BY <1>1, <1>2
  <2>2. \A c \in FlitChannels : Has(wire[c], f) => Has(wire'[c], f)
    BY <1>1, <1>2
  <2>3. Has(wire'[b], h)
    BY <1>1, <1>3
  <2> QED BY <2>1, <2>2, <2>3
<1>5. \A f : f \in OnWires(wire') <=> (f = h \/ f \in OnWires(wire))
  BY <1>4, OnWiresIs
<1> QED BY <1>5

(* Taking a flit off the wire, into a FIFO.                                *)
LEMMA ReceiveKeeps ==
  ASSUME TypeOK, NEW r \in Routers, NEW c \in Links, ReceiveFlit(r, c)
  PROVE  Underway' = Underway
<1>1. /\ c[3] = r /\ wire[c] # <<>>
      /\ wire' = [wire EXCEPT ![c] = Tail(@)]
      /\ fifo' = [fifo EXCEPT ![r][Port(c)] = Append(@, Head(wire[c]))]
  BY DEF ReceiveFlit, Port
<1>2. c \in FlitChannels /\ Port(c) \in Ports
  BY LinkFacts
<1>3. wire[c] \in Seq(Flits) /\ fifo[r][Port(c)] \in Seq(Flits)
  BY <1>2 DEF TypeOK, NocBusTypeOK, RouterTypeOK
<1>4. PICK h \in Flits : h = Head(wire[c])
  BY <1>1, <1>3
<1>5. \A d \in FlitChannels : wire'[d] = IF d = c THEN Tail(wire[c]) ELSE wire[d]
  BY <1>1 DEF TypeOK, NocBusTypeOK
<1>6. \A q \in Routers : \A p \in Ports : fifo'[q][p] =
        IF q = r /\ p = Port(c) THEN Append(fifo[r][Port(c)], h) ELSE fifo[q][p]
  BY <1>1, <1>2, <1>4 DEF TypeOK, RouterTypeOK
<1>7. ASSUME NEW f
      PROVE  f \in OnWires(wire') \union InFifos(fifo') <=> f \in OnWires(wire) \union InFifos(fifo)
  <2>1. Has(wire[c], f) <=> (f = h \/ Has(wire'[c], f))
    BY <1>1, <1>2, <1>3, <1>4, <1>5, FrontOrRest
  <2>2. Has(fifo'[r][Port(c)], f) <=> (f = h \/ Has(fifo[r][Port(c)], f))
    BY <1>2, <1>3, <1>6, WithLast
  <2>3. f \in OnWires(wire) <=> (f = h \/ f \in OnWires(wire'))
    BY <1>2, <1>5, <2>1, OnWiresIs
  <2>4. f \in InFifos(fifo') <=> (f = h \/ f \in InFifos(fifo))
    BY <1>2, <1>6, <2>2, InFifosIs
  <2> QED BY <2>3, <2>4
<1> QED BY <1>7 DEF Underway

(* A router hands a flit on: it is not in the FIFO any more, but on a wire.*)
LEMMA ForwardKeeps ==
  ASSUME IInv, Late = FALSE, NEW way, Routed(way), InvLines(way),
         NEW r \in Routers, NEW p \in Ports, ForwardFlit(r, p)
  PROVE  Underway' = Underway
<1>1. TypeOK /\ joinedF = FlitChannels
  <2>1. TypeOK
    BY DEF IInv
  <2>2. InvJoined
    BY DEF IInv
  <2>3. joinedF = FlitChannels
    BY <2>2 DEF InvJoined
  <2> QED BY <2>1, <2>3
<1>2. /\ fifo[r][p] # <<>> /\ fifo' = [fifo EXCEPT ![r][p] = Tail(@)]
      /\ PublishFlit(r, OutPort(r, p), Head(fifo[r][p]))
  BY DEF ForwardFlit, MayForward, getNextFlit
<1>3. fifo[r][p] \in Seq(Flits)
  BY <1>1 DEF TypeOK, RouterTypeOK
<1>4. PICK h \in Flits : h = Head(fifo[r][p])
  BY <1>2, <1>3
<1>5. PICK c \in Links : c[3] = r /\ Port(c) = p
  BY <1>2 DEF IInv, InvUnlinked
<1>6. PICK b \in FlitChannels : b[1] = r /\ b[2] = OutPort(r, p)
  BY <1>2, <1>5, FrontGoesOn
<1>7. OnWires(wire') = OnWires(wire) \union {h}
  BY <1>1, <1>2, <1>4, <1>6, Published
<1>8. \A q \in Routers : \A o \in Ports : fifo'[q][o] =
        IF q = r /\ o = p THEN Tail(fifo[r][p]) ELSE fifo[q][o]
  BY <1>1, <1>2 DEF TypeOK, RouterTypeOK
<1>9. ASSUME NEW f PROVE f \in InFifos(fifo) <=> (f = h \/ f \in InFifos(fifo'))
  <2>1. Has(fifo[r][p], f) <=> (f = h \/ Has(fifo'[r][p], f))
    BY <1>2, <1>3, <1>4, <1>8, FrontOrRest
  <2> QED BY <1>8, <2>1, InFifosIs
<1> QED BY <1>7, <1>9 DEF Underway

(* What an element sends is underway, ...                                  *)
LEMMA SendServes ==
  ASSUME IInv, Late = FALSE, NEW way, Routed(way), NEW e \in Elements, SendFlit(e)
  PROVE  Service!Send(e)
<1>1. TypeOK /\ joinedF = FlitChannels
  <2>1. TypeOK /\ InvJoined
    BY DEF IInv
  <2>2. joinedF = FlitChannels
    BY <2>1 DEF InvJoined
  <2> QED BY <2>1, <2>2
<1>2. PICK f \in getFlit(e) : PublishFlit(e, "PacketGenerator", f)
  BY DEF SendFlit
<1>3. f \in Flits /\ f.src = e /\ f.num = sent[e] + 1 /\ f.dst \in Elements
  BY <1>2, RouterAssumption DEF getFlit
<1>4. PICK b \in FlitChannels : b[1] = e /\ b[2] = "PacketGenerator"
  <2>1. PICK w : w = way[e][f.dst]
    OBVIOUS
  <2>2. w \in Seq(FlitChannels) /\ w # <<>> /\ w[1][1] = e
    BY <1>3, <2>1 DEF Routed, IsWay
  <2>3. w[1] \in FlitChannels
    BY <2>2
  <2>4. w[1][2] \in PublishedFlits(w[1][1])
    BY <2>3 DEF FlitChannels
  <2>5. w[1][2] = "PacketGenerator"
    BY <2>2, <2>4, NocAssumption DEF PublishedFlits
  <2> QED BY <2>2, <2>3, <2>5
<1>5. OnWires(wire') = OnWires(wire) \union {f}
  BY <1>1, <1>2, <1>3, <1>4, Published
<1>6. fifo' = fifo /\ sunk' = sunk /\ sent' = [sent EXCEPT ![e] = @ + 1]
  BY DEF SendFlit
<1>7. Underway' = Underway \union {f}
  BY <1>5, <1>6 DEF Underway
<1> QED BY <1>3, <1>6, <1>7 DEF Service!Send

(* Where a flit is in a queue that follows another one, ...                *)
At(s, i, f) == i \in DOMAIN s /\ s[i] = f

LEMMA AtFirst ==
  ASSUME NEW s \in Seq(Flits), NEW t \in Seq(Flits), NEW i, NEW f, At(s, i, f)
  PROVE  At(s \o t, i, f)
BY DEF At

LEMMA AtSecond ==
  ASSUME NEW s \in Seq(Flits), NEW t \in Seq(Flits), NEW i, NEW f, At(t, i, f)
  PROVE  At(s \o t, Len(s) + i, f)
BY DEF At

(* ... and where it was before the front was taken.                        *)
LEMMA AtTail ==
  ASSUME NEW s \in Seq(Flits), s # <<>>, NEW i, NEW f, At(Tail(s), i, f)
  PROVE  At(s, i + 1, f) /\ i \in Nat /\ i > 0
BY DEF At

(* A flit that an element gets is in its line behind those it has got.     *)
(* Every other one that is underway is in another line or behind it.       *)
Behind(c, n, g) ==
  \E a \in FlitChannels : \E i : At(Lines[a], i, g) /\ (a = c => i > n)

LEMMA RestIsBehind ==
  ASSUME IInv, NEW e \in Elements, NEW c \in FlitChannels, SinkFlit(e, c), NEW g \in Underway'
  PROVE  Behind(c, Len(sunk[e]) + 1, g)
<1>1. TypeOK
  BY DEF IInv
<1>2. /\ c[3] = e /\ wire[c] # <<>> /\ fifo' = fifo
      /\ wire' = [wire EXCEPT ![c] = Tail(@)]
  BY DEF SinkFlit
<1>3. c \notin Links
  BY <1>2, LinkFacts, NocAssumption
<1>4. \A a \in FlitChannels : /\ Taken(a) \in Seq(Flits) /\ wire[a] \in Seq(Flits)
                              /\ Lines[a] = Taken(a) \o wire[a]
  BY <1>1, TakenType
<1>5. Taken(c) = sunk[e]
  BY <1>2, <1>3 DEF Taken
<1>6. ASSUME NEW a \in FlitChannels, Has(wire'[a], g)
      PROVE  Behind(c, Len(sunk[e]) + 1, g)
  <2>1. PICK i : At(wire'[a], i, g)
    BY <1>6 DEF Has, At
  <2>2. CASE a = c
    <3>1. wire'[c] = Tail(wire[c])
      BY <1>1, <1>2 DEF TypeOK, NocBusTypeOK
    <3>2. At(wire[c], i + 1, g) /\ i \in Nat /\ i > 0
      BY <1>2, <1>4, <2>1, <2>2, <3>1, AtTail
    <3>3. PICK k : k = Len(sunk[e]) + (i + 1)
      OBVIOUS
    <3>4. At(Lines[c], k, g)
      BY <1>4, <1>5, <3>2, <3>3, AtSecond
    <3>5. k > Len(sunk[e]) + 1
      <4>1. Len(sunk[e]) \in Nat
        BY <1>4, <1>5
      <4>2. i \in Nat /\ i > 0
        BY <3>2
      <4>3. PICK l \in Nat : l = Len(sunk[e])
        BY <4>1
      <4>4. \A x, y \in Nat : x > 0 => y + (x + 1) > y + 1
        OBVIOUS
      <4>5. l + (i + 1) > l + 1
        BY ONLY <4>2, <4>4
      <4> QED BY ONLY <3>3, <4>3, <4>5
    <3> QED BY <2>2, <3>4, <3>5 DEF Behind
  <2>3. CASE a # c
    <3>1. wire'[a] = wire[a]
      BY <1>1, <1>2, <2>3 DEF TypeOK, NocBusTypeOK
    <3>2. At(Lines[a], Len(Taken(a)) + i, g)
      BY <1>4, <2>1, <3>1, AtSecond
    <3> QED BY <2>3, <3>2 DEF Behind
  <2> QED BY <2>2, <2>3
<1>7. ASSUME NEW r \in Routers, NEW p \in Ports, Has(fifo[r][p], g)
      PROVE  Behind(c, Len(sunk[e]) + 1, g)
  <2>1. PICK i : At(fifo[r][p], i, g)
    BY <1>7 DEF Has, At
  <2>2. fifo[r][p] # <<>>
    BY <2>1 DEF At
  <2>3. PICK a \in Links : a[3] = r /\ Port(a) = p
    BY <2>2 DEF IInv, InvUnlinked
  <2>4. a \in FlitChannels /\ a # c /\ Taken(a) = fifo[r][p]
    BY <1>3, <2>3 DEF Links, Taken
  <2>5. At(Lines[a], i, g)
    BY <1>4, <2>1, <2>4, AtFirst
  <2> QED BY <2>4, <2>5 DEF Behind
<1>8. g \in OnWires(wire') \/ g \in InFifos(fifo)
  BY <1>2 DEF Underway
<1> QED BY <1>6, <1>7, <1>8, OnWiresIs, InFifosIs

(* ... and what comes to an element is meant for it and the oldest of its  *)
(* source.                                                                 *)
LEMMA SinkServes ==
  ASSUME IInv, NEW way, Routed(way), InvLines(way),
         NEW e \in Elements, NEW c \in FlitChannels, SinkFlit(e, c)
  PROVE  \E h \in Underway : Service!Deliver(h)
<1>1. TypeOK
  BY DEF IInv
<1>2. /\ c[3] = e /\ wire[c] # <<>> /\ fifo' = fifo /\ sent' = sent
      /\ wire' = [wire EXCEPT ![c] = Tail(@)]
      /\ sunk' = [sunk EXCEPT ![e] = Append(@, Head(wire[c]))]
  BY DEF SinkFlit
<1>3. c \notin Links
  BY <1>2, LinkFacts, NocAssumption
<1>4. /\ wire[c] \in Seq(Flits) /\ sunk[e] \in Seq(Flits)
      /\ Lines[c] = sunk[e] \o wire[c]
  <2>1. Taken(c) = sunk[e]
    BY <1>2, <1>3 DEF Taken
  <2> QED BY <1>1, <2>1, TakenType
<1>5. PICK h \in Flits : h = Head(wire[c])
  BY <1>2, <1>4
<1>6. PICK n : n = Len(sunk[e]) + 1
  OBVIOUS
<1>7. n \in DOMAIN Lines[c] /\ Lines[c][n] = h /\ n \in Nat
  <2>1. At(wire[c], 1, h)
    BY <1>2, <1>4, <1>5 DEF At
  <2>2. At(Lines[c], n, h)
    BY <1>4, <1>6, <2>1, AtSecond
  <2>3. Len(sunk[e]) \in Nat
    BY <1>4
  <2> QED BY <1>6, <2>2, <2>3 DEF At
<1>8. h.src \in Elements /\ h.dst \in Elements
  BY RouterAssumption
<1>9. PICK w : w = way[h.src][h.dst]
  OBVIOUS
<1>10. /\ w \in Seq(FlitChannels) /\ w # <<>> /\ w[Len(w)][3] = h.dst
       /\ \A l \in 1 .. Len(w) - 1 : w[l] \in Links
       /\ \A k, l \in DOMAIN w : w[k] = w[l] => k = l
  BY <1>8, <1>9 DEF Routed, IsWay
<1>11. \A a \in FlitChannels : \A i \in DOMAIN Lines[a] :
         /\ Lines[a][i].num \in 1 .. sent[Lines[a][i].src]
         /\ \E k \in DOMAIN way[Lines[a][i].src][Lines[a][i].dst] :
              way[Lines[a][i].src][Lines[a][i].dst][k] = a
  BY DEF InvLines, OnWay
<1>12. PICK k \in DOMAIN w : w[k] = c
  BY <1>7, <1>9, <1>11
<1>13. k = Len(w) /\ h.dst = e
  BY <1>2, <1>3, <1>10, <1>12
<1>14. ASSUME NEW g, Behind(c, n, g), g.src = h.src, g.dst = h.dst
       PROVE  h.num < g.num
  <2>1. PICK a \in FlitChannels : \E i : At(Lines[a], i, g) /\ (a = c => i > n)
    BY <1>14 DEF Behind
  <2>2. PICK i \in DOMAIN Lines[a] : Lines[a][i] = g /\ (a = c => i > n)
    BY <2>1 DEF At
  <2>3. PICK l \in DOMAIN w : w[l] = a
    BY <1>9, <1>11, <1>14, <2>2
  <2>4. InLine(Lines, w, h.src, h.dst)
    BY <1>8, <1>9 DEF InvLines, NoneOvertakes
  <2>5. k > l \/ (k = l /\ n < i)
    <3>1. CASE a = c
      <4>1. k = l
        BY <1>10, <1>12, <2>3, <3>1
      <4>2. i \in Nat
        <5>1. Lines[c] \in Seq(Flits)
          BY <1>1, LinesType
        <5> QED BY <2>2, <3>1, <5>1
      <4> QED BY <1>7, <2>2, <3>1, <4>1, <4>2
    <3>2. CASE a # c
      BY <1>10, <1>12, <1>13, <2>3, <3>2
    <3> QED BY <3>1, <3>2
  <2> QED BY <1>7, <1>12, <1>14, <2>2, <2>3, <2>4, <2>5 DEF InLine
<1>15. ASSUME NEW g \in Underway', g.src = h.src, g.dst = h.dst
       PROVE  h.num < g.num
  BY <1>6, <1>14, <1>15, RestIsBehind
<1>16. ASSUME NEW f PROVE f \in Underway <=> (f = h \/ f \in Underway')
  <2>1. wire' = [wire EXCEPT ![c] = Tail(wire[c])]
    BY <1>2
  <2>2. \A a \in FlitChannels : wire'[a] = IF a = c THEN Tail(wire[c]) ELSE wire[a]
    BY <1>1, <2>1 DEF TypeOK, NocBusTypeOK
  <2>3. Has(wire[c], f) <=> (f = h \/ Has(wire'[c], f))
    BY <1>2, <1>4, <1>5, <2>2, FrontOrRest
  <2>4. f \in OnWires(wire) <=> (f = h \/ f \in OnWires(wire'))
    BY <2>2, <2>3, OnWiresIs
  <2> QED BY <1>2, <2>4 DEF Underway
<1>17. h.num \in Int
  <2>1. h.num \in 1 .. sent[h.src]
    BY <1>7, <1>11
  <2> QED BY <2>1
<1>18. h \notin Underway'
  BY <1>15, <1>17
<1>19. Underway' = Underway \ {h} /\ h \in Underway
  BY <1>16, <1>18
<1>20. ASSUME NEW g \in Underway, g.src = h.src, g.dst = h.dst PROVE h.num <= g.num
  <2>1. CASE g = h
    BY <1>17, <2>1
  <2>2. CASE g # h
    <3>1. g \in Underway'
      BY <1>16, <2>2
    <3>2. h.num < g.num
      BY <1>15, <1>20, <3>1
    <3>3. g.num \in Int
      <4>1. PICK a \in FlitChannels : \E i \in DOMAIN Lines[a] : Lines[a][i] = g
        BY <1>6, <3>1, RestIsBehind DEF Behind, At
      <4>2. g.num \in 1 .. sent[g.src]
        BY <1>11, <4>1
      <4> QED BY <4>2
    <3> QED BY <1>17, <3>2, <3>3
  <2> QED BY <2>1, <2>2
<1>21. Service!Oldest(h)
  BY <1>20 DEF Service!Oldest
<1> QED BY <1>2, <1>5, <1>13, <1>19, <1>21 DEF Service!Deliver

(* A flit that a router takes or hands on stays underway, and what is not  *)
(* about flits goes unnoticed.                                             *)
LEMMA NextServes ==
  ASSUME IInv, Late = FALSE, NEW way, Routed(way), InvLines(way), [Next]_vars
  PROVE  [Service!Next]_(Service!vars)
<1>1. TypeOK
  BY DEF IInv
<1>2. ASSUME Underway' = Underway, sent' = sent, sunk' = sunk
      PROVE  [Service!Next]_(Service!vars)
  BY <1>2 DEF Service!vars
<1>3. ASSUME wire' = wire, fifo' = fifo, sent' = sent, sunk' = sunk
      PROVE  [Service!Next]_(Service!vars)
  BY <1>2, <1>3 DEF Underway
<1>4. ASSUME NEW r \in Routers, NEW c \in Links, ReceiveFlit(r, c), UNCHANGED elementVars
      PROVE  [Service!Next]_(Service!vars)
  <2>1. Underway' = Underway
    BY <1>1, <1>4, ReceiveKeeps
  <2> QED BY <1>2, <1>4, <2>1 DEF elementVars
<1>5. ASSUME NEW r \in Routers, NEW c \in CreditChannels, ReceiveCredit(r, c), UNCHANGED elementVars
      PROVE  [Service!Next]_(Service!vars)
  BY <1>3, <1>5 DEF ReceiveCredit, elementVars
<1>6. ASSUME NEW r \in Routers, NEW p \in Ports, ForwardFlit(r, p), UNCHANGED elementVars
      PROVE  [Service!Next]_(Service!vars)
  <2>1. Underway' = Underway
    BY <1>6, ForwardKeeps
  <2> QED BY <1>2, <1>6, <2>1 DEF elementVars
<1>7. ASSUME NEW e \in Elements, SendFlit(e)
      PROVE  [Service!Next]_(Service!vars)
  BY <1>7, SendServes DEF Service!Next
<1>8. ASSUME NEW e \in Elements, NEW c \in CreditChannels, CreditIn(e, c)
      PROVE  [Service!Next]_(Service!vars)
  BY <1>3, <1>8 DEF CreditIn
<1>9. ASSUME NEW e \in Elements, NEW c \in FlitChannels, SinkFlit(e, c)
      PROVE  [Service!Next]_(Service!vars)
  BY <1>9, SinkServes DEF Service!Next
<1>10. CASE LateSubscription \/ UNCHANGED vars
  BY <1>3, <1>10 DEF LateSubscription, Join, routerVars, elementVars, vars, nocBusVars
<1> QED BY <1>4, <1>5, <1>6, <1>7, <1>8, <1>9, <1>10
        DEF Next, RouterProcess, RouterEvent, ElementProcess, ElementEvent

(* At the beginning nothing is underway, in the first run and in any other.*)
LEMMA EmptyAtFirst == Init => Service!Init
<1> SUFFICES ASSUME Init PROVE Service!Init
  OBVIOUS
<1>1. \A c \in FlitChannels : wire[c] = <<>>
  BY DEF Init, NocBusInit
<1>2. \A r \in Routers, p \in Ports : fifo[r][p] = <<>>
  BY DEF Init, RouterInit
<1>3. \A f : f \notin OnWires(wire) /\ f \notin InFifos(fifo)
  BY <1>1, <1>2, OnWiresIs, InFifosIs DEF Has
<1>4. Underway = {}
  BY <1>3 DEF Underway
<1> QED BY <1>4 DEF Init, ElementInit, Service!Init

LEMMA ResumeServes == ASSUME Resume PROVE Service!Restart
<1>1. (Init => Service!Init)'
  BY EmptyAtFirst, PTL
<1>2. Service!Init'
  BY <1>1, ResumeInit
<1> QED BY <1>2 DEF Service!Init, Service!Restart

(* The network keeps what FlitService promises: whatever its size and its  *)
(* routing, however busy it is and wherever a run is cut, each flit that   *)
(* is generated is delivered once, to the element it is meant for and      *)
(* behind its predecessors, and none gets lost on the way.                 *)
THEOREM NetworkServes ==
  ASSUME Late = FALSE, NEW way, Routed(way)
  PROVE  ResumedSpec => ServiceSpec
<1>1. ResumedInit => Service!Init
  BY EmptyAtFirst DEF ResumedInit
<1>2. IInv /\ InvLines(way) /\ [ResumedNext]_resumedVars => [Service!Next]_(Service!vars)
  <2> SUFFICES ASSUME IInv, InvLines(way), [ResumedNext]_resumedVars
               PROVE  [Service!Next]_(Service!vars)
    OBVIOUS
  <2>1. CASE Resume
    BY <2>1, ResumeServes DEF Service!Next
  <2>2. CASE ~Resume
    <3>1. [Next]_vars
      BY <2>2 DEF ResumedNext, resumedVars
    <3> QED BY <3>1, NextServes
  <2> QED BY <2>1, <2>2
<1> QED BY <1>1, <1>2, ResumedLines, PTL DEF ResumedSpec, ServiceSpec, Service!Spec

(* A new flit is not yet anywhere, since its number is new.                *)
LEMMA SendAccounts ==
  ASSUME Service!InvGenerated, Service!Accounted, NEW e \in Elements, Service!Send(e)
  PROVE  Service!InvGenerated' /\ Service!Accounted'
<1>1. PICK h \in Flits : h.src = e /\ h.num = sent[e] + 1 /\ Underway' = Underway \union {h}
  BY DEF Service!Send
<1>2. /\ sent \in [Elements -> Nat]
      /\ sent' = [sent EXCEPT ![e] = @ + 1]
      /\ sunk' = sunk
      /\ Underway \subseteq Flits
  BY DEF Service!Send, Service!InvGenerated
<1>3. \A d \in Elements : \A i \in DOMAIN sunk[d] : sunk[d][i] \in Flits
  BY DEF Service!InvGenerated
<1>4. \A f \in Flits : f.src \in Elements
  BY RouterAssumption
<1>5. sent' \in [Elements -> Nat] /\ \A d \in Elements : 1 .. sent[d] \subseteq 1 .. sent'[d]
  BY <1>2
<1>6. h.num \in 1 .. sent'[e] /\ h.num \notin 1 .. sent[e]
  BY <1>1, <1>2
<1>7. \A f \in Underway : ~Service!Same(f, h)
  BY <1>1, <1>6 DEF Service!Same, Service!InvGenerated
<1>8. \A d \in Elements : \A i \in DOMAIN sunk[d] : ~Service!Same(h, sunk[d][i])
  BY <1>1, <1>6 DEF Service!Same, Service!InvGenerated
<1>9. Service!InvGenerated'
  <2>1. \A f \in Underway' : f.num \in 1 .. sent'[f.src]
    BY <1>1, <1>2, <1>4, <1>5, <1>6 DEF Service!InvGenerated
  <2>2. \A d \in Elements : \A i \in DOMAIN sunk[d] :
          sunk[d][i].num \in 1 .. sent'[sunk[d][i].src]
    BY <1>3, <1>4, <1>5 DEF Service!InvGenerated
  <2> QED BY <1>1, <1>2, <1>5, <2>1, <2>2 DEF Service!InvGenerated
<1>10. Service!Accounted'
  <2>1. ASSUME NEW d \in Elements, NEW n \in 1 .. sent'[d]
        PROVE  \/ \E f \in Underway' : f.src = d /\ f.num = n
               \/ \E c \in Elements : \E i \in DOMAIN sunk[c] :
                    sunk[c][i].src = d /\ sunk[c][i].num = n /\ sunk[c][i].dst = c
    <3>1. CASE n \in 1 .. sent[d]
      BY <1>1, <3>1 DEF Service!Accounted
    <3>2. CASE n \notin 1 .. sent[d]
      <4>1. d = e /\ n = sent[e] + 1
        BY <1>2, <3>2
      <4> QED BY <1>1, <4>1
    <3> QED BY <3>1, <3>2
  <2>2. \A f, g \in Underway' : Service!Same(f, g) => f = g
    BY <1>1, <1>7 DEF Service!Accounted, Service!Same
  <2>3. ASSUME NEW d \in Elements, NEW i \in DOMAIN sunk[d]
        PROVE  /\ \A f \in Underway' : ~Service!Same(f, sunk[d][i])
               /\ \A c \in Elements : \A j \in DOMAIN sunk[c] :
                    Service!Same(sunk[c][j], sunk[d][i]) => c = d /\ j = i
    BY <1>1, <1>8 DEF Service!Accounted
  <2> QED BY <1>2, <2>1, <2>2, <2>3 DEF Service!Accounted
<1> QED BY <1>9, <1>10

(* A flit that is delivered changes its place, and takes nobody else's.    *)
LEMMA DeliverAccounts ==
  ASSUME Service!InvGenerated, Service!Accounted, NEW h \in Underway, Service!Deliver(h)
  PROVE  Service!InvGenerated' /\ Service!Accounted'
<1> DEFINE t == h.dst
           k == Len(sunk[t]) + 1
<1>1. /\ sent \in [Elements -> Nat]
      /\ sent' = sent
      /\ sunk \in [Elements -> Seq(Flits)]
      /\ sunk' = [sunk EXCEPT ![t] = Append(@, h)]
      /\ Underway \subseteq Flits
      /\ Underway' = Underway \ {h}
  BY DEF Service!Deliver, Service!InvGenerated
<1>2. t \in Elements /\ h \in Flits
  BY <1>1, RouterAssumption
<1>3. sunk' \in [Elements -> Seq(Flits)]
  BY <1>1, <1>2
<1>4. /\ k \in DOMAIN sunk'[t] /\ k \notin DOMAIN sunk[t]
      /\ sunk'[t][k] = h
      /\ DOMAIN sunk'[t] = DOMAIN sunk[t] \union {k}
      /\ \A i \in DOMAIN sunk[t] : sunk'[t][i] = sunk[t][i]
  <2>1. sunk'[t] = Append(sunk[t], h) /\ sunk[t] \in Seq(Flits)
    BY <1>1, <1>2
  <2> QED BY <1>2, <2>1
<1>5. \A d \in Elements : d # t => sunk'[d] = sunk[d]
  BY <1>1
<1>6. ASSUME NEW d \in Elements, NEW i \in DOMAIN sunk'[d]
      PROVE  \/ i \in DOMAIN sunk[d] /\ sunk'[d][i] = sunk[d][i]
             \/ d = t /\ i = k /\ sunk'[d][i] = h
  BY <1>4, <1>5, <1>6
<1>7. \A d \in Elements : \A i \in DOMAIN sunk[d] :
        i \in DOMAIN sunk'[d] /\ sunk'[d][i] = sunk[d][i]
  BY <1>4, <1>5
<1> HIDE DEF t, k
<1>8. Service!InvGenerated'
  <2>1. \A d \in Elements : \A i \in DOMAIN sunk'[d] :
          sunk'[d][i].num \in 1 .. sent[sunk'[d][i].src]
    BY <1>6 DEF Service!InvGenerated
  <2> QED BY <1>1, <1>3, <2>1 DEF Service!InvGenerated
<1>9. Service!Accounted'
  <2>1. ASSUME NEW e \in Elements, NEW n \in 1 .. sent[e]
        PROVE  \/ \E f \in Underway' : f.src = e /\ f.num = n
               \/ \E d \in Elements : \E i \in DOMAIN sunk'[d] :
                    sunk'[d][i].src = e /\ sunk'[d][i].num = n /\ sunk'[d][i].dst = d
    <3>1. CASE \E f \in Underway : f.src = e /\ f.num = n
      BY <1>1, <1>2, <1>4, <3>1 DEF t
    <3>2. CASE \E d \in Elements : \E i \in DOMAIN sunk[d] :
                 sunk[d][i].src = e /\ sunk[d][i].num = n /\ sunk[d][i].dst = d
      BY <1>7, <3>2
    <3> QED BY <3>1, <3>2 DEF Service!Accounted
  <2>2. \A f, g \in Underway' : Service!Same(f, g) => f = g
    BY <1>1 DEF Service!Accounted
  <2>3. ASSUME NEW d \in Elements, NEW i \in DOMAIN sunk'[d]
        PROVE  /\ \A f \in Underway' : ~Service!Same(f, sunk'[d][i])
               /\ \A c \in Elements : \A j \in DOMAIN sunk'[c] :
                    Service!Same(sunk'[c][j], sunk'[d][i]) => c = d /\ j = i
    <3>1. ASSUME NEW f \in Underway' PROVE ~Service!Same(f, sunk'[d][i])
      <4>1. f \in Underway /\ f # h
        BY <1>1, <3>1
      <4> QED BY <1>6, <4>1 DEF Service!Accounted
    <3>2. ASSUME NEW c \in Elements, NEW j \in DOMAIN sunk'[c],
                 Service!Same(sunk'[c][j], sunk'[d][i])
          PROVE  c = d /\ j = i
      <4>1. CASE c = t /\ j = k /\ sunk'[c][j] = h
        BY <1>6, <3>2, <4>1 DEF Service!Accounted
      <4>2. CASE j \in DOMAIN sunk[c] /\ sunk'[c][j] = sunk[c][j]
        <5>1. CASE d = t /\ i = k /\ sunk'[d][i] = h
          BY <3>2, <4>2, <5>1 DEF Service!Accounted, Service!Same
        <5>2. CASE i \in DOMAIN sunk[d] /\ sunk'[d][i] = sunk[d][i]
          BY <3>2, <4>2, <5>2 DEF Service!Accounted
        <5> QED BY <1>6, <5>1, <5>2
      <4> QED BY <1>6, <4>1, <4>2
    <3> QED BY <3>1, <3>2
  <2> QED BY <1>1, <2>1, <2>2, <2>3 DEF Service!Accounted
<1> QED BY <1>8, <1>9

(* Where nothing is generated there is nothing to account for.             *)
LEMMA NothingAccounts ==
  Service!Init => Service!InvGenerated /\ Service!Accounted
<1> SUFFICES ASSUME Service!Init PROVE Service!InvGenerated /\ Service!Accounted
  OBVIOUS
<1>1. \A e \in Elements : sent[e] = 0 /\ DOMAIN sunk[e] = {}
  BY DEF Service!Init
<1>2. Underway = {} /\ sent \in [Elements -> Nat] /\ sunk \in [Elements -> Seq(Flits)]
  BY DEF Service!Init
<1> QED BY <1>1, <1>2 DEF Service!InvGenerated, Service!Accounted

(* However busy the network is and wherever a run was cut: each flit that  *)
(* a run's generators have sent is on a wire, in a FIFO, or with the sink  *)
(* it is meant for, and at one of these places alone.                      *)
THEOREM NoneLost ==
  ASSUME Late = FALSE, NEW way, Routed(way)
  PROVE  ResumedSpec => []Service!Accounted
<1> DEFINE Inv == Service!InvGenerated /\ Service!Accounted
<1>1. Service!Init => Inv
  BY NothingAccounts
<1>2. Inv /\ [Service!Next]_(Service!vars) => Inv'
  <2> SUFFICES ASSUME Inv, [Service!Next]_(Service!vars) PROVE Inv'
    OBVIOUS
  <2>1. ASSUME NEW e \in Elements, Service!Send(e) PROVE Inv'
    BY <2>1, SendAccounts
  <2>2. ASSUME NEW f \in Underway, Service!Deliver(f) PROVE Inv'
    BY <2>2, DeliverAccounts
  <2>3. CASE Service!Restart
    <3>1. Service!Init'
      BY <2>3 DEF Service!Restart, Service!Init
    <3>2. (Service!Init => Inv)'
      BY <1>1, PTL
    <3> QED BY <3>1, <3>2
  <2>4. CASE UNCHANGED Service!vars
    BY <2>4 DEF Service!vars, Service!InvGenerated, Service!Accounted
  <2> QED BY <2>1, <2>2, <2>3, <2>4 DEF Service!Next
<1>3. Inv => Service!Accounted
  OBVIOUS
<1>4. ServiceSpec => []Service!Accounted
  <2> HIDE DEF Inv
  <2> QED BY <1>1, <1>2, <1>3, PTL DEF ServiceSpec, Service!Spec
<1>5. ResumedSpec => ServiceSpec
  BY NetworkServes
<1> QED BY <1>4, <1>5, PTL
=============================================================================
