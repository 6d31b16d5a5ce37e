----------------------------- MODULE EventQueue -----------------------------
(***************************************************************************)
(* models/event_queue_1: a model that publishes periodic events when the   *)
(* clock has reached their timestamps.  This module has the event set and  *)
(* what each event of the simulation model does to it, in handlers that    *)
(* take the event as it comes.  What may come is said in Next: ticks once  *)
(* a configuration is loaded, at times that may be lost (a full queue) but *)
(* never go back; EventQueueSystem checks that this is so.  run() does not *)
(* look at the result of receiveEvent and handles the buffer it has, then  *)
(* with an event it has handled before.  A new process may take the place  *)
(* of the old one at any time, and load what an earlier one has stored.    *)
(***************************************************************************)
EXTENDS Integers, Sequences

CONSTANTS
  FirstTime, Period, Repeat,  \* of the event that init() pushes: 100, 100, -1
  HalfInt,                    \* 2^31: an int has the values below it, and negative ones
  Long,                       \* 2^64: mCurrentSimTime and the timestamps of events
  MaxLoads,                   \* bound: calls of loadState in one process
  Times,                      \* the simulation times there are
  Cuts                        \* those at which the state is stored and loaded

ASSUME QueueAssumption ==
  /\ HalfInt \in Nat \ {0}
  /\ Long \in Nat
  /\ 2 * HalfInt <= Long
  /\ FirstTime \in Nat
  /\ Period \in Nat \ {0}
  /\ Repeat \in Nat \union {-1}
  /\ MaxLoads \in Nat \ {0}
  /\ Times \subseteq 0 .. Long - 1
  /\ Cuts \subseteq Times

VARIABLES
  phase,      \* what the process has done: see Phases
  clock,      \* mCurrentSimTime: every handled event sets it before it is read
  mEventSet,  \* the events in their order; back() is the last
  file,       \* file[t]: the events stored at time t (none: no file, or empty)
  published,  \* when events were published, and with which timestamp
  buffer,     \* the name of the event in the buffer, the last one handled
  loads       \* how often loadState has read a file

queueVars == <<phase, clock, mEventSet, file, published, buffer, loads>>

(* "loading" is the part of loadState from its synchronisation to init().  *)
Phases == {"constructed", "loading", "running", "ended", "dead"}

(* missed counts, for the properties, the ticks at which the event was due *)
(* and was not published.                                                  *)
Names  == {"none", "SimTimeChanged", "SaveState", "LoadState", "End"}

Event == [timestamp : Nat, repeat : Nat \union {-1}, missed : Nat]
Publication == [at : Nat, timestamp : Nat]

LocalReq == [timestamp |-> FirstTime, repeat |-> Repeat, missed |-> 0]

(* Configuration files may have been created before.                       *)
Init ==
  /\ phase = "constructed"
  /\ clock = 0
  /\ mEventSet = <<LocalReq>>
  /\ file \in [Cuts -> {<<>>, <<LocalReq>>}]
  /\ published = <<>>
  /\ buffer = "none"
  /\ loads = 0

-----------------------------------------------------------------------------

(* What Scheduler::scheduleEvents may make of an event set: back() is due  *)
(* first.  The order of events that are due together is left open.         *)
Permutes(p, S) == \A i \in S : \E j \in S : p[j] = i
Latest(i, s)   == \A j \in i .. Len(s) : s[i].timestamp >= s[j].timestamp
Scheduled(es) ==
  {s \in {[i \in DOMAIN es |-> es[p[i]]] :
             p \in {q \in [DOMAIN es -> DOMAIN es] : Permutes(q, DOMAIN es)}} :
     \A i \in DOMAIN es : Latest(i, s)}

(* run() is where it can handle an event.                                  *)
Receives == phase \in {"constructed", "running"}

back   == mEventSet[Len(mEventSet)]
Due(t) == mEventSet # <<>> /\ t >= back.timestamp

(* The events that are not published on tick t.                            *)
PassedOver(e, t) == IF e.timestamp <= t THEN [e EXCEPT !.missed = @ + 1] ELSE e
AllBut(n, t) ==
  [i \in 1 .. Len(mEventSet) - n |-> PassedOver(mEventSet[i], t)]

Fewer(repeat) == IF repeat = -1 THEN -1 ELSE repeat - 1

(* An int takes the low bits of the sum as a signed number; a negative one *)
(* is a very late time for the clock, which has no sign.                   *)
ViaInt(t) ==
  LET low == t % (2 * HalfInt)
  IN  IF low < HalfInt THEN low ELSE Long - 2 * HalfInt + low

(* A bug: the next time is counted from the last one, not from now.        *)
RepeatedFromLast(t) ==
  [timestamp |-> ViaInt(back.timestamp + Period),
   repeat |-> Fewer(back.repeat), missed |-> 0]

Repeated(t) ==
  [timestamp |-> ViaInt(t + Period), repeat |-> Fewer(back.repeat), missed |-> 0]

(* A bug: the event set is not sorted again.                               *)
updateEventsUnsorted(t) ==
  {IF back.repeat # 0 THEN Append(AllBut(1, t), Repeated(t)) ELSE AllBut(1, t)}

(* A bug: the last repetition is left out.                                 *)
updateEventsTooFew(t) ==
  IF back.repeat \notin {0, 1} THEN Scheduled(Append(AllBut(1, t), Repeated(t)))
                               ELSE {AllBut(1, t)}

updateEvents(t) ==
  IF back.repeat # 0 THEN Scheduled(Append(AllBut(1, t), Repeated(t)))
                     ELSE {AllBut(1, t)}

(* A tick publishes one event at most, with its own timestamp.             *)
HandleTick(t) ==
  /\ Receives
  /\ clock' = t
  /\ buffer' = "SimTimeChanged"
  /\ \/ /\ Due(t)
        /\ published' = Append(published, [at |-> t, timestamp |-> back.timestamp])
        /\ mEventSet' \in updateEvents(t)
     \/ ~Due(t) /\ mEventSet' = AllBut(0, t) /\ UNCHANGED published
  /\ UNCHANGED <<phase, file, loads>>

saveState(t) ==
  /\ Receives
  /\ clock' = t
  /\ buffer' = "SaveState"
  /\ file' = [file EXCEPT ![t] = mEventSet]
  /\ UNCHANGED <<phase, mEventSet, published, loads>>

(* The file was opened, and is empty; nobody catches the exception.        *)
saveStateThrows(t) ==
  /\ Receives
  /\ clock' = t
  /\ buffer' = "SaveState"
  /\ file' = [file EXCEPT ![t] = <<>>]
  /\ phase' = "dead"
  /\ UNCHANGED <<mEventSet, published, loads>>

(* serialize visits the events that are in memory, each of them as a copy: *)
(* what is read is thrown away.                                            *)
loadState(t) ==
  /\ Receives
  /\ Len(mEventSet) <= Len(file[t])
  /\ phase' = "loading"
  /\ clock' = t
  /\ buffer' = "LoadState"
  /\ loads' = loads + 1
  /\ mEventSet' \in Scheduled(mEventSet)
  /\ UNCHANGED <<file, published>>

(* With another number of events in the file the archive may throw (with   *)
(* fewer it does), and nobody catches what loadState throws then.          *)
loadStateThrows(t) ==
  /\ Receives
  /\ Len(mEventSet) # Len(file[t])
  /\ phase' = "dead"
  /\ clock' = t
  /\ buffer' = "LoadState"
  /\ UNCHANGED <<mEventSet, file, published, loads>>

(* The end of loadState, after its synchronisation: not sorted again.      *)
init ==
  /\ phase = "loading"
  /\ phase' = "running"
  /\ mEventSet' = Append(mEventSet, LocalReq)
  /\ UNCHANGED <<clock, file, published, buffer, loads>>

HandleEnd(t) ==
  /\ Receives
  /\ phase' = "ended"
  /\ clock' = t
  /\ buffer' = "End"
  /\ UNCHANGED <<mEventSet, file, published, loads>>

(* receiveEvent has failed, and run() handles the event in the buffer.     *)
HandleAgain ==
  \/ buffer = "SimTimeChanged" /\ HandleTick(clock)
  \/ buffer = "SaveState" /\ (saveState(clock) \/ saveStateThrows(clock))
  \/ buffer = "LoadState" /\ loads < MaxLoads
       /\ (loadState(clock) \/ loadStateThrows(clock))

(* A new process: the constructor.                                         *)
Restart ==
  /\ phase' = "constructed"
  /\ clock' = 0
  /\ mEventSet' = <<LocalReq>>
  /\ published' = <<>>
  /\ buffer' = "none"
  /\ loads' = 0
  /\ UNCHANGED file

Next ==
  \/ \E t \in Times :
       t >= clock /\ ((phase = "running" /\ HandleTick(t)) \/ HandleEnd(t))
  \/ \E t \in Cuts :
       /\ t >= clock
       /\ \/ saveState(t) \/ saveStateThrows(t)
          \/ phase = "constructed" /\ (loadState(t) \/ loadStateThrows(t))
  \/ HandleAgain
  \/ init
  \/ Restart

Spec == Init /\ [][Next]_queueVars

-----------------------------------------------------------------------------

TypeOK ==
  /\ phase \in Phases
  /\ clock \in Nat
  /\ mEventSet \in Seq(Event)
  /\ file \in [Cuts -> Seq(Event)]
  /\ published \in Seq(Publication)
  /\ buffer \in Names
  /\ loads \in Nat

(* The time to which an event is moved fits into an int.  Nothing is       *)
(* claimed behind that, where the next time may be never, or be over.      *)
Fits == clock + Period < HalfInt

(* Every loaded queue holds its event twice, one more time for each time   *)
(* it was loaded again, and a tick publishes only one event.  Still an     *)
(* event that is due waits for one tick at most per other event, whichever *)
(* ticks are lost or handled again, and however many events were due       *)
(* before the run was resumed.                                             *)
NoStarvation ==
  Fits => \A i \in DOMAIN mEventSet : mEventSet[i].missed <= loads

(* The copies of the event together never come faster than all of them     *)
(* once in a period, also when they catch up after a pause of the clock,   *)
(* when a tick is handled twice, or when another copy is added.            *)
Spacing ==
  Fits => \A i \in DOMAIN published :
    i + loads + 1 \in DOMAIN published =>
      published[i + loads + 1].at - published[i].at >= Period

(* Events are published with the time they were due, which may be long     *)
(* ago; still these times do not go back from one publication to the next, *)
(* however often the state was loaded.                                     *)
DueOrder ==
  Fits => \A i \in DOMAIN published :
    i + 1 \in DOMAIN published => published[i].timestamp <= published[i + 1].timestamp

(* "Restore states" (loadState): when it is over the queue has the events  *)
(* that were stored, in particular as many.                                *)
RestoresStored ==
  [][phase = "loading" /\ phase' = "running"
       => Len(mEventSet') = Len(file[clock])]_queueVars

(* The inductive invariant behind the theorems.  How often the process has *)
(* loaded its state: only right after that it can do so again, ...         *)
InvLoads ==
  /\ phase = "constructed" => loads = 0 /\ buffer \in {"none", "SaveState"}
  /\ phase \in {"loading", "running"} => loads >= 1
  /\ phase = "loading" => buffer = "LoadState"

(* ... when nothing is published; the events are sorted, and not due       *)
(* before what was published, ...                                          *)
InvDue ==
  /\ phase \in {"constructed", "loading"} \/ buffer = "LoadState" =>
       /\ published = <<>>
       /\ \A i \in DOMAIN mEventSet : mEventSet[i].timestamp = FirstTime
  /\ Fits => \A i \in DOMAIN mEventSet :
       /\ Latest(i, mEventSet)
       /\ \A L \in {Len(published)} \ {0} :
            mEventSet[i].timestamp >= published[L].timestamp

(* ... what the constructor, one load and its init leave behind, ...       *)
InvLoaded ==
  /\ phase \in {"constructed", "loading"} => mEventSet = <<LocalReq>>
  /\ Len(mEventSet) <= 2

(* ... the event in front of another is due later and has missed nothing,  *)
InvFront ==
  Len(mEventSet) = 2 =>
    /\ mEventSet[1].timestamp >= mEventSet[2].timestamp
    /\ mEventSet[1].missed = 0

(* ... and how the events relate to the publications so far.               *)
InvPublished ==
  LET L == Len(published) IN
  /\ L >= 1 => published[L].at <= clock
  /\ L >= 2 => \A i \in DOMAIN mEventSet :
       mEventSet[i].timestamp >= published[L - 1].at + Period
  /\ L >= 1 /\ Len(mEventSet) = 2 =>
       mEventSet[1].timestamp >= published[L].at + Period

(* The last three, and what follows from them, for one load.               *)
InvOnce ==
  Fits /\ loads <= 1 =>
    InvLoaded /\ InvFront /\ InvPublished /\ NoStarvation /\ Spacing

IInv == TypeOK /\ InvLoads /\ InvDue /\ InvOnce /\ DueOrder

=============================================================================
