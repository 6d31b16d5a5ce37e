-------------------------- MODULE EventQueue_proofs --------------------------
(***************************************************************************)
(* Proofs about EventQueue for every event, clock and set of savepoints.   *)
(***************************************************************************)
EXTENDS EventQueue, SequenceTheorems, TLAPS

(* What the constants are.                                                 *)
LEMMA Numbers ==
  /\ HalfInt \in Nat \ {0} /\ 2 * HalfInt \in Nat \ {0} /\ Long - 2 * HalfInt \in Nat
  /\ FirstTime \in Nat /\ Period \in Nat \ {0} /\ Repeat \in Nat \union {-1}
  /\ Times \subseteq Nat /\ Cuts \subseteq Nat
BY QueueAssumption

-----------------------------------------------------------------------------
(* The event set                                                           *)

(* What is appended is last; the rest stays.                               *)
LEMMA Appended ==
  ASSUME NEW S, NEW s \in Seq(S), NEW x \in S
  PROVE  /\ Append(s, x) \in Seq(S)
         /\ Len(s) \in Nat /\ Len(Append(s, x)) = Len(s) + 1
         /\ DOMAIN s = 1 .. Len(s) /\ DOMAIN Append(s, x) = 1 .. Len(s) + 1
         /\ Append(s, x)[Len(s) + 1] = x
         /\ \A i \in 1 .. Len(s) : Append(s, x)[i] = s[i]
OBVIOUS

(* The event that init() pushes is an event.                               *)
LEMMA LocalReqType == LocalReq \in Event
BY Numbers DEF LocalReq, Event

(* The scheduler only changes the order, and back() is due first.          *)
LEMMA ScheduledType ==
  ASSUME NEW es \in Seq(Event), NEW s \in Scheduled(es)
  PROVE  s \in Seq(Event) /\ Len(s) = Len(es)
<1>1. PICK p \in [DOMAIN es -> DOMAIN es] : s = [i \in DOMAIN es |-> es[p[i]]]
  BY DEF Scheduled
<1>2. DOMAIN es = 1 .. Len(es) /\ Len(es) \in Nat
  OBVIOUS
<1>3. s \in [1 .. Len(es) -> Event]
  BY <1>1, <1>2
<1> QED
  BY <1>2, <1>3

(* One event can be put in one order only, ...                             *)
LEMMA ScheduledOne ==
  ASSUME NEW es \in Seq(Event), NEW s \in Scheduled(es), Len(es) = 1
  PROVE  s = es
<1>1. PICK p \in [DOMAIN es -> DOMAIN es] : s = [i \in DOMAIN es |-> es[p[i]]]
  BY DEF Scheduled
<1>2. DOMAIN es = {1}
  OBVIOUS
<1>3. p[1] = 1
  BY <1>1, <1>2
<1>4. DOMAIN s = {1} /\ s[1] = es[1]
  BY <1>1, <1>2, <1>3
<1>5. s \in Seq(Event) /\ Len(s) = Len(es)
  BY ScheduledType
<1> QED
  BY <1>4, <1>5, SeqEqual

(* ... many in an order in which every event is due no earlier than those  *)
(* behind it, ...                                                          *)
LEMMA ScheduledOrder ==
  ASSUME NEW es \in Seq(Event), NEW s \in Scheduled(es)
  PROVE  /\ \A i \in DOMAIN s : Latest(i, s)
         /\ \A i \in DOMAIN s : \E j \in DOMAIN es : s[i] = es[j]
<1>1. PICK p \in [DOMAIN es -> DOMAIN es] : s = [i \in DOMAIN es |-> es[p[i]]]
  BY DEF Scheduled
<1>2. DOMAIN s = DOMAIN es /\ \A i \in DOMAIN es : p[i] \in DOMAIN es /\ s[i] = es[p[i]]
  BY <1>1
<1>3. \A i \in DOMAIN es : Latest(i, s)
  BY DEF Scheduled
<1> QED
  BY <1>2, <1>3

(* ... two in two orders, of which the scheduler takes the one in which    *)
(* the second is not due after the first.                                  *)
LEMMA ScheduledTwo ==
  ASSUME NEW es \in Seq(Event), NEW s \in Scheduled(es), Len(es) = 2
  PROVE  /\ s[1].timestamp >= s[2].timestamp
         /\ \/ s[1] = es[1] /\ s[2] = es[2]
            \/ s[1] = es[2] /\ s[2] = es[1]
<1>1. PICK p \in [DOMAIN es -> DOMAIN es] :
        s = [i \in DOMAIN es |-> es[p[i]]] /\ Permutes(p, DOMAIN es)
  BY DEF Scheduled
<1>2. DOMAIN es = {1, 2}
  OBVIOUS
<1>3. (p[1] = 1 /\ p[2] = 2) \/ (p[1] = 2 /\ p[2] = 1)
  BY <1>1, <1>2 DEF Permutes
<1>4. s \in Seq(Event) /\ Len(s) = 2
  BY ScheduledType
<1>5. Latest(1, s)
  BY <1>2 DEF Scheduled
<1>6. s[1].timestamp >= s[2].timestamp
  BY <1>4, <1>5 DEF Latest
<1> QED
  BY <1>1, <1>2, <1>3, <1>6

(* A time that an int can hold stays as it is.                             *)
LEMMA ViaIntType ==
  ASSUME NEW t \in Nat
  PROVE  ViaInt(t) \in Nat /\ (t < HalfInt => ViaInt(t) = t)
<1>1. HalfInt \in Nat \ {0} /\ 2 * HalfInt \in Nat \ {0} /\ Long - 2 * HalfInt \in Nat
  BY Numbers
<1>2. t % (2 * HalfInt) \in Nat
  BY <1>1
<1>3. \A n \in Nat, k \in Nat : n < k => n % k = n
  OBVIOUS
<1>4. t < HalfInt => t % (2 * HalfInt) = t
  BY <1>1, <1>3
<1> QED
  BY <1>1, <1>2, <1>4 DEF ViaInt

(* The event that is published goes back later, ...                        *)
LEMMA RepeatedType ==
  ASSUME TypeOK, mEventSet # <<>>, NEW t \in Nat
  PROVE  /\ back \in Event
         /\ back.repeat # 0 => Repeated(t) \in Event /\ Repeated(t).missed = 0
         /\ t + Period < HalfInt => Repeated(t).timestamp = t + Period
<1>1. back \in Event
  BY DEF back, TypeOK
<1>2. t + Period \in Nat
  BY Numbers
<1>3. back.repeat # 0 => Fewer(back.repeat) \in Nat \union {-1}
  <2>1. back.repeat \in Nat \union {-1}
    BY <1>1 DEF Event
  <2>2. \A n \in Nat : n # 0 => n - 1 \in Nat
    OBVIOUS
  <2> QED
    BY <2>1, <2>2 DEF Fewer
<1>4. ViaInt(t + Period) \in Nat /\ (t + Period < HalfInt => ViaInt(t + Period) = t + Period)
  BY <1>2, ViaIntType
<1>5. Repeated(t) = [timestamp |-> ViaInt(t + Period), repeat |-> Fewer(back.repeat), missed |-> 0]
  BY DEF Repeated
<1>6. back.repeat # 0 => Repeated(t) \in Event
  BY <1>3, <1>4, <1>5 DEF Event
<1> QED
  BY <1>1, <1>4, <1>5, <1>6

(* ... and the others stay as they are, or have missed one tick more.      *)
LEMMA AllButType ==
  ASSUME TypeOK, NEW n \in {0, 1}, n = 1 => mEventSet # <<>>, NEW t \in Nat
  PROVE  /\ AllBut(n, t) \in Seq(Event)
         /\ Len(AllBut(n, t)) = Len(mEventSet) - n
         /\ \A i \in 1 .. Len(mEventSet) - n :
              /\ AllBut(n, t)[i] = PassedOver(mEventSet[i], t)
              /\ AllBut(n, t)[i].timestamp = mEventSet[i].timestamp
<1>1. Len(mEventSet) \in Nat /\ Len(mEventSet) - n \in Nat
  BY DEF TypeOK
<1>2. ASSUME NEW i \in 1 .. Len(mEventSet) - n
      PROVE  /\ PassedOver(mEventSet[i], t) \in Event
             /\ PassedOver(mEventSet[i], t).timestamp = mEventSet[i].timestamp
  <2>1. mEventSet[i] \in Event
    BY <1>1 DEF TypeOK
  <2> QED
    BY <2>1 DEF PassedOver, Event
<1> QED
  BY <1>1, <1>2 DEF AllBut

(* What is left in the set after an event was published.                   *)
LEMMA UpdateType ==
  ASSUME TypeOK, mEventSet # <<>>, NEW t \in Nat, NEW es \in updateEvents(t)
  PROVE  /\ es \in Seq(Event)
         /\ Len(es) = IF back.repeat # 0 THEN Len(mEventSet) ELSE Len(mEventSet) - 1
<1>1. AllBut(1, t) \in Seq(Event) /\ Len(AllBut(1, t)) = Len(mEventSet) - 1
  BY AllButType
<1>2. CASE back.repeat # 0
  <2>1. Append(AllBut(1, t), Repeated(t)) \in Seq(Event)
    BY <1>1, <1>2, RepeatedType
  <2>2. Len(Append(AllBut(1, t), Repeated(t))) = Len(mEventSet)
    BY <1>1 DEF TypeOK
  <2>3. es \in Scheduled(Append(AllBut(1, t), Repeated(t)))
    BY <1>2 DEF updateEvents
  <2> QED
    BY <1>2, <2>1, <2>2, <2>3, ScheduledType
<1>3. CASE back.repeat = 0
  BY <1>1, <1>3 DEF updateEvents
<1> QED
  BY <1>2, <1>3

-----------------------------------------------------------------------------
(* Types                                                                   *)

(* A tick keeps the types, ...                                             *)
LEMMA TickType ==
  ASSUME TypeOK, NEW t \in Nat, HandleTick(t)
  PROVE  TypeOK'
<1> USE DEF TypeOK, Phases, Names
<1>1. CASE Due(t)
  <2>1. mEventSet # <<>> /\ mEventSet' \in updateEvents(t)
    BY <1>1 DEF HandleTick, Due
  <2>2. mEventSet' \in Seq(Event) /\ back \in Event
    BY <2>1, UpdateType, RepeatedType
  <2>3. [at |-> t, timestamp |-> back.timestamp] \in Publication
    BY <2>2 DEF Event, Publication
  <2>4. published' \in Seq(Publication)
    <3>1. published' = Append(published, [at |-> t, timestamp |-> back.timestamp])
      BY <1>1 DEF HandleTick
    <3> QED
      BY <2>3, <3>1, AppendProperties
  <2> QED
    BY <2>2, <2>4 DEF HandleTick
<1>2. CASE ~Due(t)
  BY <1>2, AllButType DEF HandleTick
<1> QED
  BY <1>1, <1>2

(* ... and so do the other events.                                         *)
LEMMA OtherType ==
  ASSUME TypeOK, NEW t \in Nat,
         \/ HandleEnd(t) \/ saveState(t) \/ saveStateThrows(t)
         \/ loadState(t) \/ loadStateThrows(t)
  PROVE  TypeOK'
<1> USE DEF TypeOK, Phases, Names
<1>1. CASE HandleEnd(t)
  BY <1>1 DEF HandleEnd
<1>2. CASE saveState(t)
  BY <1>2 DEF saveState
<1>3. CASE saveStateThrows(t)
  <2>1. <<>> \in Seq(Event)
    OBVIOUS
  <2> QED
    BY <1>3, <2>1 DEF saveStateThrows
<1>4. CASE loadState(t)
  BY <1>4, ScheduledType DEF loadState
<1>5. CASE loadStateThrows(t)
  BY <1>5 DEF loadStateThrows
<1> QED
  BY <1>1, <1>2, <1>3, <1>4, <1>5

-----------------------------------------------------------------------------
(* A tick on which an event is published                                   *)

(* With one event in the set: it goes back, or is gone.                    *)
LEMMA UpdateOne ==
  ASSUME TypeOK, Len(mEventSet) = 1, NEW t \in Nat, NEW es \in updateEvents(t)
  PROVE  \/ Len(es) = 1 /\ es[1] = Repeated(t) /\ back.repeat # 0
         \/ Len(es) = 0
<1>1. Len(AllBut(1, t)) = 0 /\ AllBut(1, t) \in Seq(Event) /\ mEventSet # <<>>
  BY AllButType
<1>2. CASE back.repeat # 0
  <2> DEFINE new == Append(AllBut(1, t), Repeated(t))
  <2>1. new \in Seq(Event) /\ Len(new) = 1 /\ new[1] = Repeated(t)
    BY <1>1, <1>2, RepeatedType
  <2>2. es \in Scheduled(new)
    BY <1>2 DEF updateEvents
  <2> HIDE DEF new
  <2> QED
    BY <1>2, <2>1, <2>2, ScheduledOne
<1>3. CASE back.repeat = 0
  BY <1>1, <1>3 DEF updateEvents
<1> QED
  BY <1>2, <1>3

(* With two: the one in front stays, before or behind the other one.       *)
LEMMA UpdateTwo ==
  ASSUME TypeOK, Len(mEventSet) = 2, NEW t \in Nat, NEW es \in updateEvents(t)
  PROVE  \/ /\ Len(es) = 2
            /\ es[1].timestamp >= es[2].timestamp
            /\ \/ es[1] = PassedOver(mEventSet[1], t) /\ es[2] = Repeated(t)
               \/ es[1] = Repeated(t) /\ es[2] = PassedOver(mEventSet[1], t)
            /\ back.repeat # 0
         \/ Len(es) = 1 /\ es[1] = PassedOver(mEventSet[1], t)
<1>1. /\ Len(AllBut(1, t)) = 1 /\ AllBut(1, t) \in Seq(Event) /\ mEventSet # <<>>
      /\ AllBut(1, t)[1] = PassedOver(mEventSet[1], t)
  <2>1. mEventSet # <<>> /\ 1 \in {0, 1} /\ Len(mEventSet) - 1 = 1
    OBVIOUS
  <2>2. /\ AllBut(1, t) \in Seq(Event) /\ Len(AllBut(1, t)) = Len(mEventSet) - 1
        /\ \A i \in 1 .. Len(mEventSet) - 1 :
             AllBut(1, t)[i] = PassedOver(mEventSet[i], t)
    BY <2>1, AllButType
  <2>3. 1 \in 1 .. Len(mEventSet) - 1
    BY <2>1
  <2> QED
    BY <2>1, <2>2, <2>3
<1>2. CASE back.repeat # 0
  <2> DEFINE new == Append(AllBut(1, t), Repeated(t))
  <2>1. /\ new \in Seq(Event) /\ Len(new) = 2
        /\ new[1] = PassedOver(mEventSet[1], t) /\ new[2] = Repeated(t)
    <3>1. Repeated(t) \in Event
      BY <1>1, <1>2, RepeatedType
    <3>2. /\ new \in Seq(Event) /\ Len(new) = Len(AllBut(1, t)) + 1
          /\ new[Len(AllBut(1, t)) + 1] = Repeated(t)
          /\ \A i \in 1 .. Len(AllBut(1, t)) : new[i] = AllBut(1, t)[i]
      BY <1>1, <3>1, Appended
    <3> HIDE DEF new
    <3> QED
      BY <1>1, <3>2
  <2>2. es \in Scheduled(new)
    BY <1>2 DEF updateEvents
  <2> HIDE DEF new
  <2>3. /\ es[1].timestamp >= es[2].timestamp
        /\ \/ es[1] = new[1] /\ es[2] = new[2]
           \/ es[1] = new[2] /\ es[2] = new[1]
    BY <2>1, <2>2, ScheduledTwo
  <2>4. Len(es) = 2
    BY <2>1, <2>2, ScheduledType
  <2> QED
    BY <1>2, <2>1, <2>3, <2>4
<1>3. CASE back.repeat = 0
  BY <1>1, <1>3 DEF updateEvents
<1> QED
  BY <1>2, <1>3

(* The publications after one more.                                        *)
LEMMA PublishedAt ==
  ASSUME TypeOK, TypeOK', NEW e, published' = Append(published, e)
  PROVE  /\ Len(published) \in Nat
         /\ Len(published') = Len(published) + 1
         /\ \A i \in 1 .. Len(published) : published'[i] = published[i]
         /\ published'[Len(published) + 1] = e
BY DEF TypeOK

(* What an event that stays has missed.                                    *)
LEMMA PassedOverAt ==
  ASSUME NEW e \in Event, NEW t \in Nat
  PROVE  /\ PassedOver(e, t).timestamp = e.timestamp
         /\ PassedOver(e, t).missed \in {e.missed, e.missed + 1}
         /\ e.timestamp > t => PassedOver(e, t).missed = e.missed
BY DEF PassedOver, Event

(* A publication is a record of the types above.                           *)
LEMMA LastPublished ==
  ASSUME TypeOK, NEW i \in 1 .. Len(published)
  PROVE  published[i].at \in Nat /\ published[i].timestamp \in Nat
<1>1. published[i] \in Publication
  BY DEF TypeOK
<1>2. \A r \in Publication : r.at \in Nat /\ r.timestamp \in Nat
  BY DEF Publication
<1> QED
  BY <1>1, <1>2

(* back() is an event of the set.                                          *)
LEMMA LastEvent ==
  ASSUME TypeOK, mEventSet # <<>>
  PROVE  /\ mEventSet \in Seq(Event)
         /\ Len(mEventSet) \in Nat /\ Len(mEventSet) - 1 \in Nat
         /\ Len(mEventSet) \in DOMAIN mEventSet
<1>1. mEventSet \in Seq(Event)
  BY DEF TypeOK
<1>2. Len(Tail(mEventSet)) = Len(mEventSet) - 1 /\ Tail(mEventSet) \in Seq(Event)
  BY <1>1, HeadTailProperties
<1>3. Len(Tail(mEventSet)) \in Nat /\ Len(mEventSet) \in Nat
  BY <1>1, <1>2
<1>4. \A k \in Nat : k - 1 \in Nat => k \in 1 .. k
  OBVIOUS
<1> QED
  BY <1>1, <1>2, <1>3, <1>4

(* The event set after a publication.                                      *)
LEMMA PublishKeepsFront ==
  ASSUME IInv, TypeOK', NEW t \in Nat, t >= clock, HandleTick(t), Due(t),
         t + Period < HalfInt, loads = 1,
         InvLoaded, InvFront, InvPublished
  PROVE  /\ Len(mEventSet') <= 2
         /\ InvFront'
         /\ NoStarvation'
         /\ \A i \in DOMAIN mEventSet' :
              Len(published) >= 1 => mEventSet'[i].timestamp >= published[Len(published)].at + Period
         /\ Len(mEventSet') = 2 => mEventSet'[1].timestamp >= t + Period
<1> DEFINE L == Len(published)
           es == mEventSet'
<1>0. loads' = 1
  BY DEF HandleTick
<1>1. /\ t \in Nat /\ mEventSet # <<>> /\ t >= back.timestamp
      /\ Len(mEventSet) \in {1, 2} /\ es \in updateEvents(t)
  <2>1. mEventSet # <<>> /\ Len(mEventSet) <= 2 /\ TypeOK
    BY DEF Due, IInv, InvLoaded
  <2>2. Len(mEventSet) \in Nat /\ Len(mEventSet) - 1 \in Nat
    BY <2>1, LastEvent
  <2>3. \A k \in Nat : k <= 2 /\ k - 1 \in Nat => k \in {1, 2}
    OBVIOUS
  <2>4. Len(mEventSet) \in {1, 2}
    BY <2>1, <2>2, <2>3
  <2> QED
    BY <2>1, <2>4 DEF HandleTick, Due
<1>2. /\ back \in Event
      /\ back.repeat # 0 => Repeated(t).timestamp = t + Period /\ Repeated(t).missed = 0
      /\ Period \in Nat \ {0}
  BY Numbers, <1>1, RepeatedType DEF IInv
<1>3. L >= 1 => published[L].at <= t /\ published[L].at \in Nat
  BY <1>1, LastPublished DEF IInv, InvPublished, TypeOK
<1>4. CASE Len(mEventSet) = 1
  <2>1. es \in Seq(Event)
    BY DEF TypeOK
  <2>2. CASE Len(es) = 1 /\ es[1] = Repeated(t) /\ back.repeat # 0
    <3>1. DOMAIN es = {1}
      BY <2>1, <2>2
    <3> QED
      BY <1>0, <1>1, <1>2, <1>3, <2>2, <3>1 DEF InvFront, NoStarvation, Event
  <2>3. CASE Len(es) = 0
    BY <2>1, <2>3 DEF InvFront, NoStarvation
  <2> QED
    BY <1>1, <1>4, <2>2, <2>3, UpdateOne DEF IInv
<1>5. CASE Len(mEventSet) = 2
  <2> DEFINE a == mEventSet[1]
             a2 == PassedOver(a, t)
  <2>1. a \in Event /\ back = mEventSet[2] /\ a.timestamp >= back.timestamp /\ a.missed = 0
    <3>1. mEventSet \in Seq(Event) /\ 1 \in 1 .. Len(mEventSet)
      BY <1>5 DEF IInv, TypeOK
    <3>2. mEventSet[1] \in Event
      BY <3>1
    <3>3. back = mEventSet[2]
      BY <1>5 DEF back
    <3> QED
      BY <1>5, <3>2, <3>3 DEF InvFront
  <2>2. L >= 1 => a.timestamp >= published[L].at + Period
    BY <1>5 DEF IInv, InvPublished
  <2>3. /\ a2.timestamp = a.timestamp /\ a2.missed <= 1
        /\ a.timestamp > t => a2.missed = 0
    BY <1>1, <2>1, PassedOverAt DEF Event
  <2>4. es \in Seq(Event)
    BY DEF TypeOK
  <2>5. CASE /\ Len(es) = 2 /\ es[1].timestamp >= es[2].timestamp
             /\ \/ es[1] = a2 /\ es[2] = Repeated(t)
                \/ es[1] = Repeated(t) /\ es[2] = a2
             /\ back.repeat # 0
    <3>1. DOMAIN es = {1, 2}
      BY <2>4, <2>5
    <3>2. es[1].timestamp >= t + Period /\ es[1].missed = 0 /\ es[2].missed <= 1
      BY <1>1, <1>2, <2>1, <2>3, <2>5 DEF Event
    <3>3. \A i \in {1, 2} :
             L >= 1 => es[i].timestamp >= published[L].at + Period
      BY <1>1, <1>2, <1>3, <2>1, <2>2, <2>3, <2>5 DEF Event
    <3>4. InvFront'
      BY <2>5, <3>2 DEF InvFront
    <3>5. NoStarvation'
      BY <1>0, <3>1, <3>2 DEF NoStarvation
    <3> QED
      BY <2>5, <3>1, <3>2, <3>3, <3>4, <3>5
  <2>6. CASE Len(es) = 1 /\ es[1] = a2
    <3>1. DOMAIN es = {1}
      BY <2>4, <2>6
    <3>2. NoStarvation'
      BY <1>0, <2>3, <2>6, <3>1 DEF NoStarvation
    <3>3. InvFront'
      BY <2>6 DEF InvFront
    <3> QED
      BY <2>1, <2>2, <2>3, <2>6, <3>1, <3>2, <3>3
  <2> QED
    BY <1>1, <1>5, <2>5, <2>6, UpdateTwo DEF IInv
<1> QED
  BY <1>1, <1>4, <1>5

(* The publications after one more, and what the step does not change.     *)
LEMMA PublicationStep ==
  ASSUME IInv, TypeOK', NEW t \in Nat, t >= clock, HandleTick(t), Due(t)
  PROVE  LET L == Len(published) IN
         /\ L \in Nat /\ Len(published') = L + 1
         /\ DOMAIN published = 1 .. L /\ DOMAIN published' = 1 .. L + 1
         /\ \A i \in 1 .. L : /\ published'[i] = published[i]
                              /\ published[i].at \in Nat
                              /\ published[i].timestamp \in Nat
         /\ published'[L + 1] = [at |-> t, timestamp |-> back.timestamp]
         /\ back.timestamp \in Nat /\ back.timestamp <= t
         /\ mEventSet # <<>> /\ mEventSet' \in updateEvents(t)
         /\ clock' = t /\ UNCHANGED <<phase, loads>> /\ buffer' = "SimTimeChanged"
<1> DEFINE e == [at |-> t, timestamp |-> back.timestamp]
<1>1. /\ published' = Append(published, e) /\ clock' = t /\ UNCHANGED <<phase, loads>>
      /\ t >= back.timestamp /\ mEventSet # <<>> /\ mEventSet' \in updateEvents(t)
      /\ buffer' = "SimTimeChanged"
  BY DEF HandleTick, Due
<1>2. TypeOK /\ published \in Seq(Publication) /\ published' \in Seq(Publication)
  BY DEF IInv, TypeOK
<1>3. back.timestamp \in Nat
  BY <1>1, <1>2, RepeatedType DEF Event
<1>4. \A i \in 1 .. Len(published) :
         published[i].at \in Nat /\ published[i].timestamp \in Nat
  BY <1>2, LastPublished
<1> HIDE DEF e
<1>5. /\ Len(published) \in Nat /\ Len(published') = Len(published) + 1
      /\ \A i \in 1 .. Len(published) : published'[i] = published[i]
      /\ published'[Len(published) + 1] = e
      /\ DOMAIN published = 1 .. Len(published)
      /\ DOMAIN published' = 1 .. Len(published) + 1
  BY <1>1, <1>2, PublishedAt
<1> QED
  BY <1>1, <1>3, <1>4, <1>5 DEF e

(* What is left in the set is in order and not due before what was         *)
(* published: the others were not, and the event goes back later.          *)
LEMMA PublishKeepsOrder ==
  ASSUME IInv, TypeOK', NEW t \in Nat, t >= clock, HandleTick(t), Due(t),
         t + Period < HalfInt
  PROVE  \A i \in DOMAIN mEventSet' :
           /\ Latest(i, mEventSet')
           /\ mEventSet'[i].timestamp >= back.timestamp
<1> DEFINE n == Len(mEventSet)
           rest == AllBut(1, t)
<1>1. /\ mEventSet # <<>> /\ mEventSet' \in updateEvents(t) /\ TypeOK
      /\ t >= back.timestamp /\ back \in Event /\ Period \in Nat /\ clock \in Nat
  BY Numbers, RepeatedType DEF HandleTick, Due, IInv, TypeOK
<1>2. /\ mEventSet \in Seq(Event) /\ n \in Nat /\ n - 1 \in Nat /\ n \in 1 .. n
      /\ DOMAIN mEventSet = 1 .. n
  BY <1>1, LastEvent
<1>3. /\ rest \in Seq(Event) /\ Len(rest) = n - 1 /\ DOMAIN rest = 1 .. n - 1
      /\ \A i \in 1 .. n - 1 : rest[i].timestamp = mEventSet[i].timestamp
  <2>1. 1 \in {0, 1}
    OBVIOUS
  <2>2. /\ rest \in Seq(Event) /\ Len(rest) = n - 1
        /\ \A i \in 1 .. n - 1 : rest[i].timestamp = mEventSet[i].timestamp
    BY <1>1, <2>1, AllButType
  <2> HIDE DEF rest
  <2>3. DOMAIN rest = 1 .. n - 1
    BY <2>2
  <2> QED
    BY <2>2, <2>3
<1>4. \A i \in 1 .. n : Latest(i, mEventSet)
  <2>1. Fits
    BY Numbers, <1>1 DEF Fits
  <2> QED
    BY <1>2, <2>1 DEF IInv, InvDue
<1>5. \A i \in 1 .. n - 1 : rest[i].timestamp >= back.timestamp
  <2> TAKE i \in 1 .. n - 1
  <2>1. i \in 1 .. n /\ n \in i .. n
    BY <1>2
  <2>2. mEventSet[i].timestamp >= mEventSet[n].timestamp
    BY <1>4, <2>1 DEF Latest
  <2> QED
    BY <1>3, <2>2 DEF back
<1> HIDE DEF rest
<1>6. CASE back.repeat # 0
  <2> DEFINE new == Append(rest, Repeated(t))
  <2>1. /\ Repeated(t) \in Event /\ Repeated(t).timestamp = t + Period
    BY <1>1, <1>6, RepeatedType
  <2>2. /\ new \in Seq(Event) /\ Len(new) = n - 1 + 1 /\ new[n - 1 + 1] = Repeated(t)
        /\ \A i \in 1 .. n - 1 : new[i] = rest[i]
    <3>1. /\ new \in Seq(Event) /\ Len(new) = Len(rest) + 1
          /\ new[Len(rest) + 1] = Repeated(t)
          /\ \A i \in 1 .. Len(rest) : new[i] = rest[i]
      BY <1>3, <2>1, Appended
    <3> HIDE DEF new
    <3> QED
      BY <1>3, <3>1
  <2>3. mEventSet' \in Scheduled(new)
    BY <1>1, <1>6 DEF updateEvents, rest
  <2> HIDE DEF new
  <2>4. /\ \A i \in DOMAIN mEventSet' : Latest(i, mEventSet')
        /\ \A i \in DOMAIN mEventSet' : \E j \in DOMAIN new : mEventSet'[i] = new[j]
    BY <2>2, <2>3, ScheduledOrder
  <2>5. \A j \in DOMAIN new : new[j].timestamp >= back.timestamp
    <3> TAKE j \in DOMAIN new
    <3>1. j \in 1 .. n - 1 \/ j = n - 1 + 1
      <4>1. j \in 1 .. n - 1 + 1
        BY <1>2, <2>2
      <4> QED
        BY <1>2, <4>1
    <3>2. t + Period >= back.timestamp
      BY <1>1 DEF Event
    <3> QED
      BY <1>5, <2>1, <2>2, <3>1, <3>2
  <2> QED
    BY <2>4, <2>5
<1>7. CASE back.repeat = 0
  <2>1. mEventSet' = rest
    BY <1>1, <1>7 DEF updateEvents, rest
  <2>2. \A i \in 1 .. n - 1 : Latest(i, rest)
    <3> TAKE i \in 1 .. n - 1
    <3>1. \A j \in i .. n - 1 : j \in 1 .. n - 1 /\ j \in i .. n
      BY <1>2
    <3>2. i \in 1 .. n
      BY <1>2
    <3> QED
      BY <1>3, <1>4, <3>1, <3>2 DEF Latest
  <2> QED
    BY <1>3, <1>5, <2>1, <2>2
<1> QED
  BY <1>6, <1>7

(* For one load: when what was published, in which distance.               *)
LEMMA PublishKeepsOnce ==
  ASSUME IInv, TypeOK', NEW t \in Nat, t >= clock, HandleTick(t), Due(t),
         phase = "running", t + Period < HalfInt, loads <= 1
  PROVE  InvOnce'
<1> DEFINE L == Len(published)
<1>1. /\ L \in Nat /\ Len(published') = L + 1
      /\ DOMAIN published = 1 .. L /\ DOMAIN published' = 1 .. L + 1
      /\ \A i \in 1 .. L : /\ published'[i] = published[i]
                           /\ published[i].at \in Nat
      /\ published'[L + 1] = [at |-> t, timestamp |-> back.timestamp]
      /\ back.timestamp \in Nat /\ back.timestamp <= t /\ mEventSet # <<>>
      /\ clock' = t /\ UNCHANGED <<phase, loads>>
  BY PublicationStep
<1>0. published'[L + 1].at = t
  BY <1>1
<1> HIDE DEF L
<1>2. /\ clock \in Nat /\ Period \in Nat \ {0} /\ loads = 1 /\ Fits
      /\ InvLoaded /\ InvFront /\ InvPublished /\ NoStarvation /\ Spacing
  BY Numbers DEF IInv, TypeOK, InvLoads, InvOnce, Fits
<1>3. /\ Len(mEventSet') <= 2 /\ InvFront' /\ NoStarvation'
      /\ \A i \in DOMAIN mEventSet' :
            L >= 1 => mEventSet'[i].timestamp >= published[L].at + Period
      /\ Len(mEventSet') = 2 => mEventSet'[1].timestamp >= t + Period
  BY <1>2, PublishKeepsFront DEF L
<1>4. L >= 2 => back.timestamp >= published[L - 1].at + Period
  <2>1. mEventSet \in Seq(Event) /\ Len(mEventSet) \in DOMAIN mEventSet
    BY <1>1, LastEvent DEF IInv
  <2> QED
    BY <1>2, <2>1 DEF L, InvPublished, back
<1>5. InvPublished'
  <2>1. L + 1 - 1 = L /\ (L + 1 >= 2 => L >= 1)
    BY <1>1
  <2>2. /\ Len(published') - 1 = L
        /\ Len(published') >= 2 => L >= 1
    BY <1>1, <2>1
  <2>3. published'[Len(published')].at <= clock'
    BY <1>1
  <2>4. L >= 1 => published'[L] = published[L]
    BY <1>1
  <2> QED
    BY <1>1, <1>3, <2>2, <2>3, <2>4 DEF InvPublished
<1>6. Spacing'
  <2> SUFFICES ASSUME NEW i \in 1 .. L + 1, i + 2 \in 1 .. L + 1
               PROVE  published'[i + 2].at - published'[i].at >= Period
    <3>1. \A i \in 1 .. L + 1 : i + loads' + 1 = i + 2
      BY <1>1, <1>2
    <3> QED
      BY <1>1, <3>1 DEF Spacing
  <2>1. \A k \in Nat, j \in Int : j \in 1 .. k + 1 /\ j + 2 \in 1 .. k + 1 =>
          /\ j + 2 <= k => j \in 1 .. k /\ j + 2 \in 1 .. k
          /\ ~(j + 2 <= k) => j = k - 1 /\ j + 2 = k + 1 /\ j \in 1 .. k /\ k >= 2
    OBVIOUS
  <2>2. CASE i + 2 <= L
    <3>1. i \in 1 .. L /\ i + 2 \in 1 .. L
      BY <1>1, <2>1, <2>2
    <3>2. i + loads + 1 = i + 2 /\ i \in DOMAIN published /\ i + 2 \in DOMAIN published
      BY <1>1, <1>2, <3>1
    <3>3. published[i + 2].at - published[i].at >= Period
      BY <1>2, <3>2 DEF Spacing
    <3> QED
      BY <1>1, <3>1, <3>3
  <2>3. CASE ~(i + 2 <= L)
    <3>1. i = L - 1 /\ i + 2 = L + 1 /\ i \in 1 .. L /\ L >= 2
      <4>1. L \in Nat /\ i \in Int /\ i \in 1 .. L + 1 /\ i + 2 \in 1 .. L + 1
        BY <1>1
      <4> HIDE DEF L
      <4> QED
        BY <2>1, <2>3, <4>1
    <3>2. /\ published'[i + 2].at = t /\ published'[i].at = published[L - 1].at
          /\ published[L - 1].at \in Nat
      BY <1>1, <3>1
    <3>3. t >= published[L - 1].at + Period
      BY <1>1, <1>2, <1>4, <3>1, <3>2
    <3> QED
      BY <1>2, <3>2, <3>3
  <2> QED
    BY <1>1, <2>2, <2>3
<1>7. InvLoaded'
  BY <1>1, <1>3 DEF InvLoaded
<1> QED
  BY <1>3, <1>5, <1>6, <1>7 DEF InvOnce

(* However often the state was loaded: the times do not go back.           *)
LEMMA PublishKeepsDue ==
  ASSUME IInv, TypeOK', NEW t \in Nat, t >= clock, HandleTick(t), Due(t),
         phase = "running", t + Period < HalfInt
  PROVE  InvDue' /\ DueOrder'
<1> DEFINE L == Len(published)
<1>1. /\ L \in Nat /\ Len(published') = L + 1
      /\ DOMAIN published = 1 .. L /\ DOMAIN published' = 1 .. L + 1
      /\ \A i \in 1 .. L : /\ published'[i] = published[i]
                           /\ published[i].timestamp \in Nat
      /\ published'[L + 1] = [at |-> t, timestamp |-> back.timestamp]
      /\ back.timestamp \in Nat /\ mEventSet # <<>>
      /\ clock' = t /\ UNCHANGED phase /\ buffer' = "SimTimeChanged"
  BY PublicationStep
<1>0. published'[L + 1].timestamp = back.timestamp
  BY <1>1
<1>2. Fits
  BY Numbers DEF IInv, TypeOK, Fits
<1>3. InvDue'
  BY <1>1, PublishKeepsOrder DEF InvDue
<1>4. L >= 1 => back.timestamp >= published[L].timestamp
  <2>1. mEventSet \in Seq(Event) /\ Len(mEventSet) \in DOMAIN mEventSet
    BY <1>1, LastEvent DEF IInv
  <2>2. L >= 1 => L \in {L} \ {0}
    BY <1>1
  <2> QED
    BY <1>2, <2>1, <2>2 DEF IInv, InvDue, back
<1>5. DueOrder'
  <2> SUFFICES ASSUME NEW i \in 1 .. L + 1, i + 1 \in 1 .. L + 1
               PROVE  published'[i].timestamp <= published'[i + 1].timestamp
    BY <1>1 DEF DueOrder
  <2>1. \A k \in Nat, j \in Int : j \in 1 .. k + 1 /\ j + 1 \in 1 .. k + 1 =>
          /\ j + 1 <= k => j \in 1 .. k /\ j + 1 \in 1 .. k
          /\ ~(j + 1 <= k) => j = k /\ j \in 1 .. k /\ k >= 1
    OBVIOUS
  <2>2. CASE i + 1 <= L
    <3>1. i \in 1 .. L /\ i + 1 \in 1 .. L
      BY <1>1, <2>1, <2>2
    <3>2. published[i].timestamp <= published[i + 1].timestamp
      BY <1>1, <1>2, <3>1 DEF IInv, DueOrder
    <3> QED
      BY <1>1, <3>1, <3>2
  <2>3. CASE ~(i + 1 <= L)
    <3>1. i = L /\ i \in 1 .. L /\ L >= 1
      <4>1. L \in Nat /\ i \in Int /\ i \in 1 .. L + 1 /\ i + 1 \in 1 .. L + 1
        BY <1>1
      <4> HIDE DEF L
      <4> QED
        BY <2>1, <2>3, <4>1
    <3> QED
      BY <1>1, <1>4, <3>1
  <2> QED
    BY <1>1, <2>2, <2>3
<1> QED
  BY <1>3, <1>5

(* On a tick on which nothing is due, nothing is passed over: back() is    *)
(* the event that is due first.                                            *)
LEMMA NothingDue ==
  ASSUME IInv, Fits, NEW t \in Nat, ~Due(t)
  PROVE  AllBut(0, t) = mEventSet
<1>1. /\ mEventSet \in Seq(Event) /\ Len(mEventSet) \in Nat
      /\ Len(mEventSet) - 0 = Len(mEventSet)
  <2>1. mEventSet \in Seq(Event)
    BY DEF IInv, TypeOK
  <2> QED
    BY <2>1
<1>2. /\ AllBut(0, t) \in Seq(Event) /\ Len(AllBut(0, t)) = Len(mEventSet)
      /\ \A i \in 1 .. Len(mEventSet) : AllBut(0, t)[i] = PassedOver(mEventSet[i], t)
  <2>1. 0 \in {0, 1} /\ 0 # 1 /\ TypeOK
    BY DEF IInv
  <2> QED
    BY <1>1, <2>1, AllButType
<1>3. ASSUME NEW i \in 1 .. Len(mEventSet)
      PROVE  PassedOver(mEventSet[i], t) = mEventSet[i]
  <2>1. mEventSet # <<>> /\ mEventSet[i] \in Event /\ back \in Event
    <3>1. mEventSet # <<>> /\ mEventSet[i] \in Event
      BY <1>1
    <3> QED
      BY <3>1, RepeatedType DEF IInv
  <2>2. back.timestamp > t
    BY <2>1 DEF Due, Event
  <2>3. mEventSet[i].timestamp >= back.timestamp
    <3>1. i \in DOMAIN mEventSet /\ Len(mEventSet) \in i .. Len(mEventSet)
      BY <1>1
    <3>2. Latest(i, mEventSet)
      BY <3>1 DEF IInv, InvDue
    <3> QED
      BY <3>1, <3>2 DEF Latest, back
  <2>4. ~(mEventSet[i].timestamp <= t)
    BY <2>1, <2>2, <2>3 DEF Event
  <2> QED
    BY <2>4 DEF PassedOver
<1> QED
  BY <1>1, <1>2, <1>3, SeqEqual

-----------------------------------------------------------------------------
(* The inductive invariant                                                 *)

(* Events that are all due at the first time are in order.                 *)
AtFirst ==
  /\ published = <<>>
  /\ \A i \in DOMAIN mEventSet : mEventSet[i].timestamp = FirstTime

LEMMA AllAtFirst == TypeOK /\ AtFirst => InvDue /\ DueOrder
<1> SUFFICES ASSUME TypeOK, AtFirst PROVE InvDue /\ DueOrder
  OBVIOUS
<1> USE DEF AtFirst
<1>1. \A i \in DOMAIN mEventSet : Latest(i, mEventSet)
  <2> TAKE i \in DOMAIN mEventSet
  <2>1. DOMAIN mEventSet = 1 .. Len(mEventSet) /\ Len(mEventSet) \in Nat
    BY DEF TypeOK
  <2>2. \A j \in i .. Len(mEventSet) : j \in DOMAIN mEventSet
    BY <2>1
  <2>3. FirstTime >= FirstTime
    BY Numbers
  <2> QED
    BY <2>2, <2>3 DEF Latest
<1>2. Len(published) = 0 /\ DOMAIN published = {}
  OBVIOUS
<1> QED
  BY <1>1, <1>2 DEF InvDue, DueOrder

LEMMA AllAtFirstNext == TypeOK' /\ AtFirst' => InvDue' /\ DueOrder'
BY AllAtFirst, PTL

(* The constructor's event set.                                            *)
Fresh == mEventSet = <<LocalReq>> /\ published = <<>>

LEMMA Constructed == TypeOK /\ Fresh => InvDue /\ InvOnce /\ DueOrder
<1> SUFFICES ASSUME TypeOK, Fresh PROVE InvDue /\ InvOnce /\ DueOrder
  OBVIOUS
<1> USE DEF Fresh
<1>1. Len(mEventSet) = 1 /\ DOMAIN mEventSet = {1} /\ mEventSet[1] = LocalReq
  OBVIOUS
<1>2. Len(published) = 0 /\ DOMAIN published = {}
  OBVIOUS
<1>3. InvDue /\ DueOrder
  BY <1>1, AllAtFirst DEF LocalReq, AtFirst
<1>4. loads \in Nat /\ LocalReq.missed = 0
  BY DEF TypeOK, LocalReq
<1> QED
  BY <1>1, <1>2, <1>3, <1>4
  DEF InvOnce, InvLoaded, InvFront, InvPublished, NoStarvation, Spacing

LEMMA ConstructedNext == TypeOK' /\ Fresh' => InvDue' /\ InvOnce' /\ DueOrder'
BY Constructed, PTL

(* What fits later, fits now.                                              *)
LEMMA FitsBefore ==
  ASSUME TypeOK, TypeOK', clock' >= clock, Fits'
  PROVE  Fits
<1>1. clock \in Nat /\ clock' \in Nat /\ Period \in Nat /\ HalfInt \in Nat
  BY Numbers DEF TypeOK
<1>2. clock' + Period < HalfInt
  BY DEF Fits
<1>3. \A a, b, c, d \in Nat : a >= b /\ a + c < d => b + c < d
  OBVIOUS
<1>4. clock + Period < HalfInt
  BY <1>1, <1>2, <1>3
<1> QED
  BY <1>4 DEF Fits

(* A step that leaves the events and the publications alone.               *)
LEMMA Apart ==
  ASSUME IInv, TypeOK', UNCHANGED <<mEventSet, published, loads>>, clock' >= clock,
         phase' \in {"constructed", "loading"} => phase' = phase,
         buffer' = "LoadState" => buffer = "LoadState" \/ phase = "constructed"
  PROVE  InvDue' /\ InvOnce' /\ DueOrder'
<1>1. Fits' => Fits
  BY FitsBefore DEF IInv
<1>2. InvDue' /\ DueOrder'
  BY <1>1 DEF IInv, InvDue, DueOrder
<1>3. InvOnce'
  <2> SUFFICES ASSUME Fits', loads' <= 1
               PROVE  /\ InvLoaded' /\ InvFront' /\ InvPublished'
                      /\ NoStarvation' /\ Spacing'
    BY DEF InvOnce
  <2>1. Fits /\ InvLoaded /\ InvFront /\ InvPublished /\ NoStarvation /\ Spacing
    BY <1>1 DEF IInv, InvOnce
  <2>2. InvLoaded' /\ InvFront' /\ NoStarvation' /\ Spacing'
    BY <2>1 DEF InvLoaded, InvFront, NoStarvation, Spacing
  <2>3. Len(published) \in Nat /\ clock \in Nat /\ clock' \in Nat
    BY DEF IInv, TypeOK
  <2>4. Len(published) >= 1 => published[Len(published)].at \in Nat
    BY <2>3, LastPublished DEF IInv
  <2>5. Len(published) >= 1 => published[Len(published)].at <= clock'
    BY <2>1, <2>3, <2>4 DEF InvPublished
  <2> QED
    BY <2>1, <2>2, <2>5 DEF InvPublished
<1> QED
  BY <1>2, <1>3

(* A tick, also one that is handled again.                                 *)
LEMMA TickStep ==
  ASSUME IInv, NEW t \in Nat, t >= clock, phase = "running", HandleTick(t)
  PROVE  IInv'
<1>1. /\ TypeOK' /\ clock' = t /\ buffer' = "SimTimeChanged"
      /\ UNCHANGED <<phase, loads>>
  BY TickType DEF IInv, HandleTick
<1>2. InvLoads'
  BY <1>1 DEF IInv, InvLoads
<1>3. CASE ~(t + Period < HalfInt)
  <2>1. ~Fits'
    BY <1>1, <1>3 DEF Fits
  <2> QED
    BY <1>1, <1>2, <2>1 DEF IInv, InvDue, InvOnce, DueOrder
<1>4. CASE t + Period < HalfInt /\ Due(t)
  <2>1. InvDue' /\ DueOrder'
    BY <1>1, <1>4, PublishKeepsDue
  <2>2. InvOnce'
    <3>1. CASE loads <= 1
      BY <1>1, <1>4, <3>1, PublishKeepsOnce
    <3>2. CASE ~(loads <= 1)
      BY <1>1, <3>2 DEF InvOnce
    <3> QED
      BY <3>1, <3>2
  <2> QED
    BY <1>1, <1>2, <2>1, <2>2 DEF IInv
<1>5. CASE t + Period < HalfInt /\ ~Due(t)
  <2>1. Fits
    BY Numbers, <1>5 DEF IInv, TypeOK, Fits
  <2>2. UNCHANGED <<mEventSet, published>>
    BY <1>5, <2>1, NothingDue DEF HandleTick
  <2> QED
    BY <1>1, <1>2, <2>2, Apart DEF IInv
<1> QED
  BY <1>3, <1>4, <1>5

(* The state is stored, or the process ends.                               *)
LEMMA SaveStep ==
  ASSUME IInv, NEW t \in Nat, t >= clock,
         HandleEnd(t) \/ saveState(t) \/ saveStateThrows(t) \/ loadStateThrows(t),
         loadStateThrows(t) => phase = "constructed" \/ buffer = "LoadState"
  PROVE  IInv'
<1>1. TypeOK'
  BY OtherType DEF IInv
<1>2. /\ UNCHANGED <<mEventSet, published, loads>> /\ clock' = t
      /\ phase' \in {"constructed", "loading"} => phase' = phase
      /\ buffer' = "LoadState" => buffer = "LoadState" \/ phase = "constructed"
  BY DEF HandleEnd, saveState, saveStateThrows, loadStateThrows
<1>3. InvDue' /\ InvOnce' /\ DueOrder'
  BY <1>1, <1>2, Apart
<1>4. InvLoads'
  BY DEF IInv, InvLoads, Receives, HandleEnd, saveState, saveStateThrows, loadStateThrows
<1> QED
  BY <1>1, <1>3, <1>4 DEF IInv

(* The state is loaded, perhaps once more: nothing is published yet.       *)
LEMMA LoadStep ==
  ASSUME IInv, NEW t \in Nat, t >= clock, loadState(t),
         phase = "constructed" \/ buffer = "LoadState"
  PROVE  IInv'
<1>1. /\ TypeOK' /\ phase' = "loading" /\ buffer' = "LoadState" /\ loads' = loads + 1
      /\ clock' = t /\ published' = published /\ mEventSet' \in Scheduled(mEventSet)
      /\ phase \in {"constructed", "running"} /\ loads \in Nat
      /\ mEventSet \in Seq(Event) /\ TypeOK
  BY OtherType DEF IInv, TypeOK, loadState, Receives
<1>2. InvLoads'
  BY <1>1 DEF InvLoads
<1>3. published = <<>> /\ \A i \in DOMAIN mEventSet : mEventSet[i].timestamp = FirstTime
  BY DEF IInv, InvDue
<1>4. \A i \in DOMAIN mEventSet' : mEventSet'[i].timestamp = FirstTime
  <2>1. \A i \in DOMAIN mEventSet' : \E j \in DOMAIN mEventSet : mEventSet'[i] = mEventSet[j]
    BY <1>1, ScheduledOrder
  <2> QED
    BY <1>3, <2>1
<1>5. InvDue' /\ DueOrder'
  BY <1>1, <1>3, <1>4, AllAtFirstNext DEF AtFirst
<1>6. InvOnce'
  <2>1. CASE Fits' /\ loads' <= 1
    <3>1. loads = 0 /\ phase = "constructed"
      BY <1>1, <2>1 DEF IInv, InvLoads
    <3>2. Fits
      BY Numbers, <1>1, <2>1 DEF IInv, TypeOK, Fits
    <3>3. mEventSet = <<LocalReq>>
      BY <3>1, <3>2 DEF IInv, InvOnce, InvLoaded
    <3>4. mEventSet' = <<LocalReq>>
      BY <1>1, <3>3, ScheduledOne
    <3> QED
      BY <1>1, <1>3, <3>4, ConstructedNext DEF Fresh
  <2> QED
    BY <2>1 DEF InvOnce
<1> QED
  BY <1>1, <1>2, <1>5, <1>6 DEF IInv

(* init() adds the event to what loadState has left.                       *)
LEMMA InitStep ==
  ASSUME IInv, init
  PROVE  IInv'
<1>1. /\ phase = "loading" /\ phase' = "running" /\ mEventSet' = Append(mEventSet, LocalReq)
      /\ UNCHANGED <<clock, file, published, buffer, loads>>
      /\ mEventSet \in Seq(Event) /\ LocalReq \in Event
  BY LocalReqType DEF init, IInv, TypeOK
<1>2. /\ mEventSet' \in Seq(Event) /\ Len(mEventSet') = Len(mEventSet) + 1
      /\ Len(mEventSet) \in Nat
      /\ \A i \in 1 .. Len(mEventSet) : mEventSet'[i] = mEventSet[i]
      /\ mEventSet'[Len(mEventSet) + 1] = LocalReq
  BY <1>1, AppendProperties
<1>3. TypeOK'
  BY <1>1, <1>2 DEF IInv, TypeOK, Phases
<1>4. InvLoads'
  BY <1>1 DEF IInv, InvLoads
<1>5. published = <<>> /\ \A i \in DOMAIN mEventSet : mEventSet[i].timestamp = FirstTime
  BY <1>1 DEF IInv, InvDue
<1>6. InvDue' /\ DueOrder'
  <2>1. \A i \in DOMAIN mEventSet' : mEventSet'[i].timestamp = FirstTime
    <3> TAKE i \in DOMAIN mEventSet'
    <3>1. i \in 1 .. Len(mEventSet) + 1
      BY <1>2
    <3>2. i \in DOMAIN mEventSet \/ i = Len(mEventSet) + 1
      BY <1>1, <1>2, <3>1
    <3> QED
      BY <1>1, <1>2, <1>5, <3>2 DEF LocalReq
  <2> QED
    BY <1>1, <1>3, <1>5, <2>1, AllAtFirstNext DEF AtFirst
<1>7. InvOnce'
  <2> SUFFICES ASSUME Fits', loads' <= 1
               PROVE  /\ InvLoaded' /\ InvFront' /\ InvPublished'
                      /\ NoStarvation' /\ Spacing'
    BY DEF InvOnce
  <2>1. mEventSet = <<LocalReq>>
    BY <1>1 DEF IInv, InvOnce, InvLoaded, Fits
  <2>2. /\ Len(mEventSet') = 2 /\ DOMAIN mEventSet' = {1, 2}
        /\ mEventSet'[1] = LocalReq /\ mEventSet'[2] = LocalReq
    <3>1. Len(mEventSet) = 1 /\ mEventSet[1] = LocalReq
      BY <2>1
    <3>2. Len(mEventSet') = 2 /\ mEventSet'[1] = LocalReq /\ mEventSet'[2] = LocalReq
      BY <1>2, <3>1
    <3>3. DOMAIN mEventSet' = 1 .. Len(mEventSet')
      BY <1>2
    <3>4. DOMAIN mEventSet' = {1, 2}
      BY <3>2, <3>3
    <3> QED
      BY <3>2, <3>4
  <2>3. Len(published') = 0 /\ DOMAIN published' = {} /\ loads' \in Nat
    BY <1>1, <1>3, <1>5 DEF TypeOK
  <2>4. LocalReq.missed = 0 /\ LocalReq.timestamp \in Nat
    BY Numbers DEF LocalReq
  <2> QED
    BY <1>1, <2>2, <2>3, <2>4
    DEF InvLoaded, InvFront, InvPublished, NoStarvation, Spacing
<1> QED
  BY <1>3, <1>4, <1>6, <1>7 DEF IInv

(* Every step keeps the invariant.                                         *)
LEMMA NextIInv == IInv /\ [Next]_queueVars => IInv'
<1> SUFFICES ASSUME IInv, [Next]_queueVars PROVE IInv'
  OBVIOUS
<1>1. Times \subseteq Nat /\ Cuts \subseteq Nat /\ clock \in Nat
  BY Numbers DEF IInv, TypeOK
<1>2. ASSUME NEW t \in Times, t >= clock, phase = "running" /\ HandleTick(t)
      PROVE  IInv'
  BY <1>1, <1>2, TickStep
<1>3. ASSUME NEW t \in Times, t >= clock, HandleEnd(t)
      PROVE  IInv'
  <2>1. ~loadStateThrows(t)
    BY <1>3 DEF HandleEnd, loadStateThrows
  <2> QED
    BY <1>1, <1>3, <2>1, SaveStep
<1>4. ASSUME NEW t \in Cuts, t >= clock, saveState(t) \/ saveStateThrows(t)
      PROVE  IInv'
  <2>1. ~loadStateThrows(t)
    BY <1>4 DEF saveState, saveStateThrows, loadStateThrows
  <2> QED
    BY <1>1, <1>4, <2>1, SaveStep
<1>5. ASSUME NEW t \in Cuts, t >= clock, phase = "constructed",
             loadState(t) \/ loadStateThrows(t)
      PROVE  IInv'
  BY <1>1, <1>5, LoadStep, SaveStep
<1>6. CASE HandleAgain
  <2>1. clock >= clock
    BY <1>1
  <2>2. CASE buffer = "SimTimeChanged" /\ HandleTick(clock)
    <3>1. phase = "running"
      BY <2>2 DEF HandleTick, Receives, IInv, InvLoads
    <3> QED
      BY <1>1, <2>1, <2>2, <3>1, TickStep
  <2>3. CASE buffer = "SaveState" /\ (saveState(clock) \/ saveStateThrows(clock))
    <3>1. ~loadStateThrows(clock)
      BY <2>3 DEF saveState, saveStateThrows, loadStateThrows
    <3> QED
      BY <1>1, <2>1, <2>3, <3>1, SaveStep
  <2>4. CASE buffer = "LoadState" /\ (loadState(clock) \/ loadStateThrows(clock))
    BY <1>1, <2>1, <2>4, LoadStep, SaveStep
  <2> QED
    BY <1>6, <2>2, <2>3, <2>4 DEF HandleAgain
<1>7. CASE init
  BY <1>7, InitStep
<1>8. CASE Restart
  <2>1. /\ phase' = "constructed" /\ clock' = 0 /\ mEventSet' = <<LocalReq>>
        /\ published' = <<>> /\ buffer' = "none" /\ loads' = 0 /\ file' = file
    BY <1>8 DEF Restart
  <2>2. <<>> \in Seq(Publication) /\ <<LocalReq>> \in Seq(Event)
    BY LocalReqType
  <2>3. TypeOK'
    BY <2>1, <2>2 DEF IInv, TypeOK, Phases, Names
  <2>4. InvLoads'
    BY <2>1 DEF InvLoads
  <2> QED
    BY <2>1, <2>3, <2>4, ConstructedNext DEF Fresh, IInv
<1>9. CASE UNCHANGED queueVars
  BY <1>9 DEF queueVars, IInv, TypeOK, InvLoads, InvDue, InvOnce, InvLoaded, InvFront,
              InvPublished, NoStarvation, Spacing, DueOrder, Fits
<1> QED
  BY <1>2, <1>3, <1>4, <1>5, <1>6, <1>7, <1>8, <1>9 DEF Next

(* The initial states have it.                                             *)
LEMMA InitIInv == Init => IInv
<1> SUFFICES ASSUME Init PROVE IInv
  OBVIOUS
<1>1. <<>> \in Seq(Event) /\ <<LocalReq>> \in Seq(Event) /\ <<>> \in Seq(Publication)
  BY LocalReqType
<1>2. TypeOK
  BY <1>1 DEF Init, TypeOK, Phases, Names
<1>3. InvLoads
  BY DEF Init, InvLoads
<1> QED
  BY <1>2, <1>3, Constructed DEF Fresh, Init, IInv

(* The invariant, for every first time, period and number of repetitions   *)
(* of the event, whatever ticks are lost or come twice and however often   *)
(* the queue is stored, killed and loaded.                                 *)
THEOREM QueueInvariant == Spec => []IInv
BY InitIInv, NextIInv, PTL DEF Spec

(* With it, in a process that has loaded its state once: an event that is  *)
(* due waits for one tick at most ...                                      *)
THEOREM DueIsPublished == Spec => [](loads <= 1 => NoStarvation)
<1>1. IInv => (loads <= 1 => NoStarvation)
  BY DEF IInv, InvOnce, NoStarvation
<1> QED
  BY <1>1, QueueInvariant, PTL

(* ... and there are never more than two publications in a period.         *)
THEOREM TwoInAPeriod == Spec => [](loads <= 1 => Spacing)
<1>1. IInv => (loads <= 1 => Spacing)
  BY DEF IInv, InvOnce, Spacing
<1> QED
  BY <1>1, QueueInvariant, PTL

(* However often it has loaded its state, the publications carry their     *)
(* timestamps in order while these fit into an int.                        *)
THEOREM TimestampsInOrder == Spec => []DueOrder
<1>1. IInv => DueOrder
  BY DEF IInv
<1> QED
  BY <1>1, QueueInvariant, PTL

=============================================================================
