------------------------ MODULE SystemcAdapter_proofs ------------------------
(***************************************************************************)
(* Proofs about SystemcAdapter for every number of ticks, flits and        *)
(* credits.                                                                *)
(***************************************************************************)
EXTENDS SystemcAdapter, SequenceTheorems, TLAPS

USE AdapterAssumption DEF AdapterAssumption

-----------------------------------------------------------------------------
(* Sequences                                                               *)

(* What is appended is last; the rest stays.                               *)
LEMMA Appended ==
  ASSUME NEW S, NEW s \in Seq(S), NEW x \in S
  PROVE  /\ Append(s, x) \in Seq(S)
         /\ Len(s) \in Nat /\ Len(Append(s, x)) = Len(s) + 1
         /\ DOMAIN s = 1 .. Len(s) /\ DOMAIN Append(s, x) = 1 .. Len(s) + 1
         /\ Append(s, x)[Len(s) + 1] = x
         /\ \A i \in 1 .. Len(s) : Append(s, x)[i] = s[i]
OBVIOUS

(* What is behind the first element.                                       *)
LEMMA Behind ==
  ASSUME NEW S, NEW s \in Seq(S), s # <<>>
  PROVE  /\ Tail(s) \in Seq(S) /\ Head(s) = s[1] /\ Head(s) \in S
         /\ Len(s) \in Nat \ {0} /\ Len(Tail(s)) = Len(s) - 1
         /\ DOMAIN s = 1 .. Len(s) /\ DOMAIN Tail(s) = 1 .. Len(s) - 1
         /\ \A i \in 1 .. Len(s) - 1 : Tail(s)[i] = s[i + 1]
<1>1. /\ Tail(s) \in Seq(S) /\ Len(Tail(s)) = Len(s) - 1
      /\ \A i \in 1 .. Len(Tail(s)) : Tail(s)[i] = s[i + 1]
  BY HeadTailProperties
<1>2. Len(s) \in Nat \ {0} /\ DOMAIN s = 1 .. Len(s) /\ Head(s) = s[1] /\ Head(s) \in S
  BY EmptySeq
<1>3. DOMAIN Tail(s) = 1 .. Len(Tail(s))
  BY <1>1
<1> QED
  BY <1>1, <1>2, <1>3

-----------------------------------------------------------------------------
(* The inductive invariant                                                 *)

(* The types of the parts.                                                 *)
LEMMA Parts ==
  ASSUME TypeOK
  PROVE  /\ time \in Nat /\ mCurrentSimTime \in Nat
         /\ \A p \in Publishers : link[p] \in Seq(Event) /\ Len(link[p]) \in Nat
         /\ Len(routed) \in Nat /\ Len(transactions) \in Nat /\ Len(generated) \in Nat
         /\ Received \in Int
<1>1. /\ routed \in Seq(RouterNames) /\ transactions \in Seq(Sockets)
      /\ link["router"] \in Seq(Event)
      /\ \A p \in Publishers : link[p] \in Seq(Event)
  BY DEF TypeOK, Publishers
<1> QED
  BY <1>1 DEF TypeOK, Received

(* The steps of the simulation model and of the router keep the types.     *)
LEMMA PublishType ==
  ASSUME TypeOK, NEW p \in Publishers, NEW ev \in Event, Publish(p, ev)
  PROVE  /\ link' \in [Publishers -> Seq(Event)]
         /\ link'[p] = Append(link[p], ev)
         /\ \A q \in Publishers \ {p} : link'[q] = link[q]
BY DEF TypeOK, Publish

(* An event of the simulation model on its way.                            *)
LEMMA SimulationModelStep == IInv /\ SimulationModel => IInv'
<1> SUFFICES ASSUME IInv, SimulationModel PROVE IInv'
  OBVIOUS
<1> USE DEF adapterVars
<1> DEFINE ev == [name |-> IF time <= LastTime THEN "SimTimeChanged" ELSE "End",
                  timestamp |-> time]
<1>1. /\ TypeOK /\ time \in 0 .. LastTime + 1 /\ time \in Nat
      /\ time' = time + 1 /\ UNCHANGED <<routed, adapterVars, generated>>
      /\ ev \in Event /\ Publish("simulation_model", ev)
      /\ ev.name \in {"SimTimeChanged", "End"} /\ ev.timestamp = time
      /\ "simulation_model" \in Publishers /\ "router" \in Publishers
  BY DEF IInv, TypeOK, SimulationModel, Ends, Event, Publishers
<1>2. /\ link' \in [Publishers -> Seq(Event)]
      /\ link'["simulation_model"] = Append(link["simulation_model"], ev)
      /\ link'["router"] = link["router"]
      /\ link["simulation_model"] \in Seq(Event)
  BY <1>1, PublishType, Parts
<1> HIDE DEF ev
<1>3. TypeOK'
  BY <1>1, <1>2 DEF TypeOK
<1>4. InvLinks'
  BY <1>1, <1>2, Appended DEF IInv, InvLinks, Received
<1>5. InvTimes'
  <2>1. \A i \in DOMAIN link'["simulation_model"] :
           link'["simulation_model"][i].timestamp < time'
    <3>1. \A i \in 1 .. Len(link["simulation_model"]) :
             link["simulation_model"][i].timestamp < time
      BY <1>1, <1>2 DEF IInv, InvTimes
    <3>2. \A i \in 1 .. Len(link["simulation_model"]) :
             link["simulation_model"][i].timestamp \in Nat
      <4>1. \A i \in 1 .. Len(link["simulation_model"]) :
               link["simulation_model"][i] \in Event
        BY <1>2
      <4> QED
        BY <4>1 DEF Event
    <3> QED
      BY <1>1, <1>2, <3>1, <3>2, Appended
  <2>2. \A i \in DOMAIN link'["router"] : link'["router"][i].timestamp < time'
    <3>1. \A i \in DOMAIN link["router"] : link["router"][i] \in Event
      BY <1>1, Parts
    <3>2. \A i \in DOMAIN link["router"] : link["router"][i].timestamp \in Nat
      BY <3>1 DEF Event
    <3> QED
      BY <1>1, <1>2, <3>2 DEF IInv, InvTimes
  <2>3. Over(mCurrentSimTime)'
    BY <1>1, Parts DEF IInv, InvTimes, Over
  <2> QED
    BY <2>1, <2>2, <2>3 DEF InvTimes, Publishers
<1>6. InvThread' /\ ToldAsRouted'
  BY <1>1, <1>2 DEF IInv, InvThread, Interrupted, ToldAsRouted, Received
<1>7. NeverAhead'
  <2>1. \A i \in DOMAIN generated : generated[i] \in Nat /\ Over(generated[i])
    BY <1>1 DEF IInv, TypeOK, NeverAhead
  <2> QED
    BY <1>1, <2>1 DEF NeverAhead, Over
<1> QED
  BY <1>3, <1>4, <1>5, <1>6, <1>7 DEF IInv

(* A flit or a credit of the router on its way.                            *)
LEMMA RouterStep == IInv /\ Router => IInv'
<1> SUFFICES ASSUME IInv, NEW name \in RouterNames, NEW t \in 0 .. time - 1,
                    Publish("router", [name |-> name, timestamp |-> t]),
                    routed' = Append(routed, name),
                    UNCHANGED <<time, adapterVars, generated>>
             PROVE  IInv'
  BY DEF Router
<1> USE DEF adapterVars
<1> DEFINE ev == [name |-> name, timestamp |-> t]
<1>1. /\ TypeOK /\ time \in Nat /\ t \in Nat /\ t < time
      /\ ev \in Event /\ ev.name = name /\ ev.timestamp = t
      /\ "simulation_model" \in Publishers /\ "router" \in Publishers
  BY Parts DEF IInv, Event, Publishers
<1>2. /\ link' \in [Publishers -> Seq(Event)]
      /\ link'["router"] = Append(link["router"], ev)
      /\ link'["simulation_model"] = link["simulation_model"]
      /\ link["router"] \in Seq(Event) /\ routed \in Seq(RouterNames)
      /\ link["simulation_model"] \in Seq(Event)
  BY <1>1, PublishType, Parts DEF TypeOK
<1> HIDE DEF ev
<1>3. TypeOK'
  BY <1>1, <1>2, Appended DEF TypeOK
<1>4. /\ Len(link'["router"]) = Len(link["router"]) + 1 /\ Len(link["router"]) \in Nat
      /\ DOMAIN link'["router"] = 1 .. Len(link["router"]) + 1
      /\ DOMAIN link["router"] = 1 .. Len(link["router"])
      /\ link'["router"][Len(link["router"]) + 1] = ev
      /\ \A i \in 1 .. Len(link["router"]) : link'["router"][i] = link["router"][i]
      /\ Len(routed') = Len(routed) + 1 /\ Len(routed) \in Nat
      /\ routed'[Len(routed) + 1] = name
      /\ \A i \in 1 .. Len(routed) : routed'[i] = routed[i]
  BY <1>1, <1>2, Appended
<1>5. Received' = Received /\ Received \in Nat /\ Received + Len(link["router"]) = Len(routed)
  BY <1>4 DEF Received, IInv, InvLinks
<1>6. InvLinks'
  <2>1. ASSUME NEW i \in 1 .. Len(link["router"]) + 1
        PROVE  link'["router"][i].name = routed'[Received' + i]
    <3>1. CASE i = Len(link["router"]) + 1
      <4>1. Received + i = Len(routed) + 1 /\ Received' = Received
        <5>1. PICK n \in Nat : n = Len(link["router"])
          BY <1>4
        <5>2. i = n + 1 /\ Received + n = Len(routed)
          BY <1>5, <3>1, <5>1
        <5> QED
          BY <1>5, <5>2
      <4>2. link'["router"][i] = ev
        BY <1>4, <3>1
      <4> QED
        BY <1>1, <1>4, <4>1, <4>2
    <3>2. CASE i \in 1 .. Len(link["router"])
      <4>1. Received + i \in 1 .. Len(routed)
        BY <1>4, <1>5, <3>2
      <4>2. link["router"][i].name = routed[Received + i]
        BY <1>4, <3>2 DEF IInv, InvLinks
      <4> QED
        BY <1>4, <1>5, <3>2, <4>1, <4>2
    <3>3. i = Len(link["router"]) + 1 \/ i \in 1 .. Len(link["router"])
      BY <1>4, <2>1
    <3> QED
      BY <3>1, <3>2, <3>3
  <2>2. \A i \in DOMAIN link'["simulation_model"] :
           link'["simulation_model"][i].name \in {"SimTimeChanged", "End"}
    BY <1>2 DEF IInv, InvLinks
  <2>3. Len(link'["router"]) <= Len(routed')
    BY <1>4, <1>5
  <2> QED
    BY <1>4, <2>1, <2>2, <2>3 DEF InvLinks
<1>7. InvTimes'
  <2>1. \A i \in 1 .. Len(link["router"]) + 1 : link'["router"][i].timestamp < time
    <3>1. \A i \in 1 .. Len(link["router"]) : link["router"][i].timestamp < time
      BY <1>1, <1>4 DEF IInv, InvTimes
    <3> TAKE i \in 1 .. Len(link["router"]) + 1
    <3>2. CASE i = Len(link["router"]) + 1
      BY <1>1, <1>4, <3>2
    <3>3. CASE i \in 1 .. Len(link["router"])
      BY <1>4, <3>1, <3>3
    <3> QED
      BY <1>4, <3>2, <3>3
  <2> QED
    BY <1>1, <1>2, <1>4, <2>1 DEF IInv, InvTimes, Over, Publishers
<1>8. InvThread' /\ ToldAsRouted'
  BY <1>4, <1>5 DEF IInv, InvThread, Interrupted, ToldAsRouted
<1>9. NeverAhead'
  BY DEF IInv, NeverAhead, Over
<1> QED
  BY <1>3, <1>6, <1>7, <1>8, <1>9 DEF IInv

(* The start of the thread.                                                *)
LEMMA ThreadStartStep == IInv /\ ThreadStart => IInv'
BY DEF IInv, ThreadStart, linkVars, TypeOK, InvLinks, InvTimes, InvThread, Received,
       Interrupted, ToldAsRouted, NeverAhead, Over

(* The end of a delay: an interrupted thread does not receive again.       *)
LEMMA DelayOverStep == IInv /\ DelayOver => IInv'
BY DEF IInv, DelayOver, linkVars, TypeOK, InvLinks, InvTimes, InvThread, Received,
       Interrupted, ToldAsRouted, NeverAhead, Over

(* A flit of the element, with a time that is over.                        *)
LEMMA TransportStep == IInv /\ b_transport => IInv'
<1> SUFFICES ASSUME IInv, b_transport PROVE IInv'
  OBVIOUS
<1> USE DEF adapterVars, linkVars, b_transport
<1>1. /\ TypeOK /\ generated \in Seq(Nat) /\ mCurrentSimTime \in Nat
      /\ generated' = Append(generated, mCurrentSimTime)
  BY DEF IInv, TypeOK
<1>2. TypeOK' /\ InvLinks' /\ InvTimes' /\ InvThread' /\ ToldAsRouted'
  BY <1>1 DEF IInv, TypeOK, InvLinks, InvTimes, InvThread, Received, Interrupted,
              ToldAsRouted, Over
<1>3. NeverAhead'
  BY <1>1, Appended DEF IInv, InvTimes, NeverAhead, Over
<1> QED
  BY <1>2, <1>3 DEF IInv

(* What an event of the router causes: one transaction, which is the one   *)
(* that the next name in the router's order calls for.                     *)
LEMMA RouterEventStep == IInv /\ HandleEvent("router") => IInv'
<1> SUFFICES ASSUME IInv, HandleEvent("router") PROVE IInv'
  OBVIOUS
<1> DEFINE s == link["router"]
           ev == Head(s)
           n == Received + 1
           socket == IF ev.name = "Local" THEN "memory" ELSE "creditCnt"
<1>1. /\ TypeOK /\ kernel = "receiving" /\ ~Interrupted
      /\ s \in Seq(Event) /\ s # <<>>
      /\ link["simulation_model"] \in Seq(Event)
      /\ routed \in Seq(RouterNames) /\ transactions \in Seq(Sockets)
      /\ Len(routed) \in Nat /\ Len(s) <= Len(routed)
  BY Parts DEF IInv, HandleEvent, InvThread, InvLinks, TypeOK, Publishers
<1>2. /\ Tail(s) \in Seq(Event) /\ ev = s[1] /\ ev \in Event
      /\ Len(s) \in Nat \ {0} /\ Len(Tail(s)) = Len(s) - 1
      /\ DOMAIN s = 1 .. Len(s) /\ DOMAIN Tail(s) = 1 .. Len(s) - 1
      /\ \A i \in 1 .. Len(s) - 1 : Tail(s)[i] = s[i + 1]
  BY <1>1, Behind
<1>3. /\ link' \in [Publishers -> Seq(Event)]
      /\ link'["router"] = Tail(s)
      /\ link'["simulation_model"] = link["simulation_model"]
      /\ kernel' = "delay" /\ mCurrentSimTime' = ev.timestamp
      /\ UNCHANGED <<time, routed, critical, generated>>
      /\ mRun' \in GoesOn(ev.name)
      /\ transactions' = transactions \o SocketOf(ev.name)
  BY <1>1, <1>2 DEF HandleEvent, TypeOK, Publishers
<1>4. Received \in Nat /\ n \in 1 .. Len(routed) /\ Received' = n
  <2>1. PICK l \in Nat, m \in Nat : l = Len(routed) /\ m = Len(s)
    BY <1>1, <1>2
  <2>2. Received = l - m /\ m > 0 /\ m <= l
    BY <1>1, <1>2, <2>1 DEF Received
  <2>3. Len(link'["router"]) = m - 1 /\ Len(routed') = l
    BY <1>2, <1>3, <2>1
  <2>4. Received' = l - (m - 1)
    BY <2>3 DEF Received
  <2> QED
    BY <2>1, <2>2, <2>4
<1>5. ev.name = routed[n] /\ ev.name \in RouterNames /\ ev.timestamp \in Nat
  <2>1. ev.name = routed[Received + 1]
    BY <1>2 DEF IInv, InvLinks
  <2>2. routed[n] \in RouterNames
    BY <1>1, <1>4
  <2> QED
    BY <1>2, <2>1, <2>2 DEF Event
<1>6. /\ socket \in Sockets /\ SocketOf(ev.name) = <<socket>>
      /\ GoesOn(ev.name) \subseteq BOOLEAN /\ socket # "interrupt"
  BY <1>5 DEF SocketOf, Sockets, GoesOn, RouterNames
<1> HIDE DEF socket
<1>7. transactions' = Append(transactions, socket)
  BY <1>1, <1>3, <1>6, AppendIsConcat
<1>8. /\ transactions' \in Seq(Sockets) /\ Len(transactions) \in Nat
      /\ Len(transactions') = Len(transactions) + 1
      /\ transactions'[Len(transactions) + 1] = socket
      /\ \A i \in 1 .. Len(transactions) : transactions'[i] = transactions[i]
  BY <1>1, <1>6, <1>7, Appended
<1>9. TypeOK'
  BY <1>1, <1>3, <1>5, <1>6, <1>8 DEF TypeOK
<1>10. InvLinks'
  <2>1. ASSUME NEW i \in 1 .. Len(s) - 1
        PROVE  Tail(s)[i].name = routed[n + i]
    <3>1. i + 1 \in 1 .. Len(s) /\ n + i = Received + (i + 1)
      BY <1>2, <1>4
    <3>2. s[i + 1].name = routed[Received + (i + 1)]
      BY <1>2, <3>1 DEF IInv, InvLinks
    <3> QED
      BY <1>2, <3>1, <3>2
  <2>2. \A i \in DOMAIN link'["simulation_model"] :
           link'["simulation_model"][i].name \in {"SimTimeChanged", "End"}
    BY <1>3 DEF IInv, InvLinks
  <2>3. Len(link'["router"]) <= Len(routed')
    BY <1>1, <1>2, <1>3
  <2> QED
    BY <1>2, <1>3, <1>4, <2>1, <2>2, <2>3 DEF InvLinks
<1>11. InvTimes'
  <2>1. \A i \in 1 .. Len(s) : s[i].timestamp < time
    BY <1>2 DEF IInv, InvTimes, Publishers
  <2>2. \A i \in DOMAIN Tail(s) : Tail(s)[i].timestamp < time
    <3> TAKE i \in DOMAIN Tail(s)
    <3>1. i + 1 \in 1 .. Len(s) /\ Tail(s)[i] = s[i + 1]
      BY <1>2
    <3> QED
      BY <2>1, <3>1
  <2>3. ev.timestamp < time
    BY <1>2, <2>1
  <2> QED
    BY <1>3, <2>2, <2>3 DEF IInv, InvTimes, Over, Publishers
<1>12. ~Interrupted'
  BY <1>6, <1>8 DEF Interrupted
<1>13. ToldAsRouted'
  <2>1. Len(transactions) = Received
    BY <1>1 DEF IInv, ToldAsRouted
  <2>2. ASSUME NEW i \in 1 .. n
        PROVE  transactions'[i] = IF routed[i] = "Local" THEN "memory" ELSE "creditCnt"
    <3>1. CASE i = n
      BY <1>5, <1>8, <2>1, <3>1 DEF socket
    <3>2. CASE i \in 1 .. Received
      BY <1>8, <2>1, <3>2 DEF IInv, ToldAsRouted
    <3> QED
      BY <1>4, <3>1, <3>2
  <2> QED
    BY <1>3, <1>4, <1>8, <1>12, <2>1, <2>2 DEF ToldAsRouted
<1>14. InvThread' /\ NeverAhead'
  BY <1>3, <1>12 DEF IInv, InvThread, NeverAhead, Over
<1> QED
  BY <1>9, <1>10, <1>11, <1>13, <1>14 DEF IInv

(* What an event of the simulation model causes: nothing, or at the end    *)
(* the interrupt, and then the loop is over.                               *)
LEMMA SimulationEventStep == IInv /\ HandleEvent("simulation_model") => IInv'
<1> SUFFICES ASSUME IInv, HandleEvent("simulation_model") PROVE IInv'
  OBVIOUS
<1> DEFINE s == link["simulation_model"]
           ev == Head(s)
<1>1. /\ TypeOK /\ kernel = "receiving" /\ ~Interrupted
      /\ s \in Seq(Event) /\ s # <<>>
      /\ link["router"] \in Seq(Event) /\ transactions \in Seq(Sockets)
      /\ Len(transactions) = Received
  BY Parts DEF IInv, HandleEvent, InvThread, ToldAsRouted, TypeOK, Publishers
<1>2. /\ Tail(s) \in Seq(Event) /\ ev = s[1] /\ ev \in Event
      /\ Len(s) \in Nat \ {0}
      /\ DOMAIN s = 1 .. Len(s) /\ DOMAIN Tail(s) = 1 .. Len(s) - 1
      /\ \A i \in 1 .. Len(s) - 1 : Tail(s)[i] = s[i + 1]
  BY <1>1, Behind
<1>3. /\ link' \in [Publishers -> Seq(Event)]
      /\ link'["simulation_model"] = Tail(s)
      /\ link'["router"] = link["router"]
      /\ kernel' = "delay" /\ mCurrentSimTime' = ev.timestamp
      /\ UNCHANGED <<time, routed, critical, generated>>
      /\ mRun' \in GoesOn(ev.name)
      /\ transactions' = transactions \o SocketOf(ev.name)
  BY <1>1, <1>2 DEF HandleEvent, TypeOK, Publishers
<1>4. ev.timestamp \in Nat /\ ev.name \in {"SimTimeChanged", "End"}
  <2>1. 1 \in DOMAIN s
    BY <1>2
  <2>2. s[1].name \in {"SimTimeChanged", "End"}
    BY <2>1 DEF IInv, InvLinks
  <2>3. ev.timestamp \in Nat
    BY <1>2 DEF Event
  <2> QED
    BY <1>2, <2>2, <2>3
<1>5. \A i \in DOMAIN Tail(s) : i + 1 \in DOMAIN s /\ Tail(s)[i] = s[i + 1]
  BY <1>2
<1>6. InvLinks' /\ InvTimes' /\ NeverAhead' /\ Received' = Received
  <2>1. \A i \in DOMAIN s : s[i].timestamp < time
    BY DEF IInv, InvTimes, Publishers
  <2>2. ev.timestamp < time
    BY <1>2, <2>1
  <2>3. InvTimes'
    BY <1>3, <1>5, <2>1, <2>2 DEF IInv, InvTimes, Over, Publishers
  <2>4. Received' = Received
    BY <1>3 DEF Received
  <2>5. InvLinks'
    BY <1>3, <1>5, <2>4 DEF IInv, InvLinks
  <2> QED
    BY <1>3, <2>3, <2>4, <2>5 DEF IInv, NeverAhead, Over
<1>7. CASE ev.name = "SimTimeChanged"
  <2>1. transactions' = transactions /\ mRun' \in BOOLEAN
    <3>1. SocketOf(ev.name) = <<>> /\ GoesOn(ev.name) \subseteq BOOLEAN
      BY <1>7 DEF SocketOf, GoesOn
    <3> QED
      BY <1>1, <1>3, <3>1, ConcatEmptySeq
  <2>2. TypeOK'
    BY <1>1, <1>3, <1>4, <2>1 DEF TypeOK
  <2>3. InvThread' /\ ToldAsRouted'
    BY <1>1, <1>3, <1>6, <2>1 DEF IInv, InvThread, Interrupted, ToldAsRouted
  <2> QED
    BY <1>6, <2>2, <2>3 DEF IInv
<1>8. CASE ev.name = "End"
  <2>1. SocketOf(ev.name) = <<"interrupt">> /\ mRun' = FALSE /\ "interrupt" \in Sockets
    BY <1>3, <1>8 DEF SocketOf, GoesOn, Sockets
  <2>2. transactions' = Append(transactions, "interrupt")
    BY <1>1, <1>3, <2>1, AppendIsConcat
  <2>3. /\ transactions' \in Seq(Sockets) /\ Len(transactions) \in Nat
        /\ Len(transactions') = Len(transactions) + 1
        /\ transactions'[Len(transactions) + 1] = "interrupt"
        /\ \A i \in 1 .. Len(transactions) : transactions'[i] = transactions[i]
    BY <1>1, <2>1, <2>2, Appended
  <2>4. TypeOK'
    BY <1>1, <1>3, <1>4, <2>1, <2>3 DEF TypeOK
  <2>5. Interrupted' /\ InvThread'
    BY <1>3, <2>1, <2>3 DEF InvThread, Interrupted
  <2>6. ToldAsRouted'
    BY <1>1, <1>3, <1>6, <2>3, <2>5 DEF IInv, ToldAsRouted
  <2> QED
    BY <1>6, <2>4, <2>5, <2>6 DEF IInv
<1> QED
  BY <1>4, <1>7, <1>8

(* The first state.                                                        *)
LEMMA InitIInv == Init => IInv
<1> SUFFICES ASSUME Init PROVE IInv
  OBVIOUS
<1> USE DEF Init
<1>1. TypeOK
  BY DEF TypeOK, Publishers
<1>2. /\ Len(routed) = 0 /\ Len(link["router"]) = 0 /\ Len(transactions) = 0
      /\ DOMAIN link["router"] = {} /\ DOMAIN link["simulation_model"] = {}
      /\ DOMAIN generated = {}
  BY DEF Publishers
<1>3. Received = 0 /\ ~Interrupted
  BY <1>2 DEF Received, Interrupted
<1>4. InvLinks /\ InvTimes /\ InvThread /\ ToldAsRouted /\ NeverAhead
  BY <1>2, <1>3
  DEF InvLinks, InvTimes, InvThread, ToldAsRouted, NeverAhead, Over, Publishers
<1> QED
  BY <1>1, <1>4 DEF IInv

(* Every step keeps the invariant.                                         *)
LEMMA NextIInv == IInv /\ [Next]_vars => IInv'
<1> SUFFICES ASSUME IInv, [Next]_vars PROVE IInv'
  OBVIOUS
<1>1. CASE SimulationModel
  BY <1>1, SimulationModelStep
<1>2. CASE Router
  BY <1>2, RouterStep
<1>3. CASE Adapter
  BY <1>3, ThreadStartStep, DelayOverStep, RouterEventStep, SimulationEventStep
  DEF Adapter, Publishers
<1>4. CASE b_transport
  BY <1>4, TransportStep
<1>5. CASE UNCHANGED vars
  BY <1>5 DEF vars, linkVars, adapterVars, IInv, TypeOK, InvLinks, InvTimes, InvThread,
              Received, Interrupted, ToldAsRouted, NeverAhead, Over
<1> QED
  BY <1>1, <1>2, <1>3, <1>4, <1>5 DEF Next

-----------------------------------------------------------------------------
(* The theorems                                                            *)

(* The inductive invariant: links hold what the router has published last, *)
(* times on their way are over, and an interrupt has ended the loop.       *)
THEOREM AdapterInvariant == Spec => []IInv
BY InitIInv, NextIInv, PTL DEF Spec

(* Every variable keeps its type, and the time ends behind LastTime.       *)
THEOREM TypeCorrect == Spec => []TypeOK
<1>1. IInv => TypeOK
  BY DEF IInv
<1> QED
  BY <1>1, AdapterInvariant, PTL

(* handleEvent: no flit and no credit that has been received is lost, told *)
(* twice or out of order, for any number of ticks in between.              *)
THEOREM ElementIsTold == Spec => []ToldAsRouted
<1>1. IInv => ToldAsRouted
  BY DEF IInv
<1> QED
  BY <1>1, AdapterInvariant, PTL

(* The element is never told anything after the interrupt of End.          *)
THEOREM NothingAfterInterrupt == Spec => []InterruptIsLast
<1>1. IInv => InterruptIsLast
  <2> SUFFICES ASSUME IInv, NEW i \in DOMAIN transactions,
                      transactions[i] = "interrupt"
               PROVE  i = Len(transactions)
    BY DEF InterruptIsLast
  <2>1. Received \in Int /\ Len(transactions) \in Nat /\ i \in 1 .. Len(transactions)
    BY Parts DEF IInv, TypeOK
  <2>2. i \notin 1 .. Received
    BY DEF IInv, ToldAsRouted
  <2> QED
    BY <2>1, <2>2 DEF IInv, ToldAsRouted
<1> QED
  BY <1>1, AdapterInvariant, PTL

(* No flit of the element has a timestamp that the simulation model has    *)
(* not yet reached.                                                        *)
THEOREM TimesAreOver == Spec => []NeverAhead
<1>1. IInv => NeverAhead
  BY DEF IInv
<1> QED
  BY <1>1, AdapterInvariant, PTL

=============================================================================
