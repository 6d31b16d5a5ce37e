------------------------------ MODULE EventBus ------------------------------
(***************************************************************************)
(* The publish/subscribe link from the simulation model to the other       *)
(* models.  Publisher and Subscriber come from the fraser library, which   *)
(* is outside this repository, so the link is modelled from the way the    *)
(* models use it: publishEvent never blocks, a subscriber sees the events  *)
(* of its subscribed topics in the order of publication, and (the default  *)
(* behaviour of a ZeroMQ PUB socket, on which the library rests) an event  *)
(* is silently dropped for a subscriber whose subscription has not yet     *)
(* arrived or whose queue is at its high-water mark.                       *)
(***************************************************************************)
EXTENDS Integers, Sequences, FiniteSets

CONSTANTS
  Models,         \* every started model but simulation_model and configuration_server
  Persist,        \* those with persist="true" in the hosts file: routers, PEs
  HighWaterMark,  \* events queued per subscriber before the publisher drops
  Faults          \* the classes of failure that may happen

FaultClasses == {"bind", "slowJoin", "critical", "interrupt", "archive",
                 "simInterrupt", "syncFail", "option", "stale"}

ASSUME BusAssumption ==
  /\ IsFiniteSet(Models)
  /\ Persist \subseteq Models
  /\ HighWaterMark \in Nat \ {0}
  /\ Faults \subseteq FaultClasses

VARIABLES
  inbox,       \* inbox[m]: events of simulation_model that m has not received
  subscribed   \* subscribed[m]: m's subscriptions have reached the publisher

busVars == <<inbox, subscribed>>

-----------------------------------------------------------------------------

ClockTopics == {"SimTimeChanged", "End"}
StateTopics == {"LoadState", "SaveState"}

Event == [name : ClockTopics \union StateTopics, timestamp : Nat]

(* Every model subscribes to the clock; only the classes that implement    *)
(* IPersist (RouterAdapter, ProcessingElement) subscribe to the requests   *)
(* to load and save their state.  SystemcAdapter does not.                 *)
Topics(m) == IF m \in Persist THEN ClockTopics \union StateTopics
                              ELSE ClockTopics

Delivers(m, ev) ==
  /\ subscribed[m]
  /\ ev.name \in Topics(m)
  /\ Len(inbox[m]) < HighWaterMark

(* A bug: an event overtakes those that wait.                              *)
PublishInFront(ev) ==
  inbox' = [m \in Models |-> IF Delivers(m, ev) THEN <<ev>> \o inbox[m] ELSE inbox[m]]

Publish(ev) ==
  inbox' = [m \in Models |-> IF Delivers(m, ev) THEN Append(inbox[m], ev)
                                                ELSE inbox[m]]

BusInit ==
  /\ inbox = [m \in Models |-> <<>>]
  /\ subscribed = [m \in Models |-> FALSE]

BusTypeOK ==
  /\ inbox \in [Models -> Seq(Event)]
  /\ subscribed \in [Models -> BOOLEAN]

=============================================================================
