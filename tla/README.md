# Verification of the FRASER template

TLA+ models of the distributed simulation in this repository (FRASER, German
Aerospace Center), model-checked with TLC and partly proved with TLAPS.

## 1. Inventory

A simulation is a set of processes on one or several hosts, described by a hosts
file (`hosts-configs/config0.xml`) and connected with ZeroMQ sockets. Nothing is
shared between processes but messages; within a process there is one thread and,
in each class, one event loop.

| Component | State it keeps | Operations | Talks to |
|---|---|---|---|
| `simulation_model` | clock (`mCurrentSimTime`, `mSimTime`, `mSimTimeStep`), savepoints, `mRun`, `mPause`, `mConfigMode` | `prepare`, `loadState`, `run`, `saveState`, `stopSim` | publishes `LoadState`, `SaveState`, `SimTimeChanged`, `End` to all; waits in `synchronizePub`; asks and stops the configuration server |
| `router` (`RouterAdapter`) | `mRun`, `mCurrentSimTime`, fields of the configuration file, the Bonfire `Router` with five FIFOs and the credit counters | `prepare`, `init`, `run`/`handleEvent`, `sendFlit`, `updateCreditCounter`, `saveState`, `loadState` | flits and credits to the neighbouring routers and its element, by topic |
| `processing_element` | `mCredit_Cnt_L`, packet generator and sink, fields | as the router's | one router |
| `systemc_adapter` | `mRun`, `mCurrentSimTime` | `prepare`, `run`/`handleEvent`, `b_transport` | one router; a SystemC processing element by TLM transactions |
| `event_queue_1` (`Queue`) | the event set, sorted by the scheduler | `prepare`, `init`, `run`/`handleEvent`, `updateEvents`, `saveState`, `loadState` | publishes the due event on a tick; not in `config0.xml` |
| `configuration_server` | `mModelInformation` (ports, addresses, parameters), `mRun` | one request at a time, `End` | answers every process in its `prepare` |
| `fraser` library, Bonfire | sockets, scheduler, signal flag; router, packet generator and sink | | git submodules that are not in the tree: external |
| scripts, makefiles, ansible | | start the processes, copy files | |

What is hard here, and the properties that answer to it (`PROJECT.json` lists every
hazard with its line):

* **Start, load, store, stop.** The processes start in any order. The simulation
  model waits for the others three times (after `prepare`, `loadState` and
  `saveState`), always by *counting* requests that carry no name; publish/subscribe
  events can be lost by slow subscriptions and full queues; processes end early or
  get signals. What should hold: a barrier opens only for those who did what it waits
  for, no tick before everybody has loaded, none past a savepoint before everybody
  has stored, a savepoint is a consistent cut, the configuration server ends last,
  everything ends.
* **Flow control of the network on chip.** Credits, flits and ticks arrive at each
  process in any relative order, and nobody waits for the ticks of the others.
  What should hold: credits are neither lost nor made, FIFOs do not overflow, no flits
  wait for one another in a circle, and every flit arrives at its destination once, in
  order and in the end.
* **Configuration.** All processes ask one server at the same time, in any order.
  Port numbers come from an interval that may be too small, keys are concatenated
  names that may clash, asking for an unknown key changes the table. What should hold:
  distinct ports inside the interval, connections that meet the sockets they are meant
  for, an answer for everybody before the server is stopped.
* **Event queue.** Periodic events; every loaded queue holds its event twice, a tick
  publishes one event at most, and ticks are lost or handled again. What should hold:
  due events are published in order, none starves, and not more often than their
  period allows; loading restores what was stored (it does not: finding 4).
* **SystemC adapter.** Its receive blocks the SystemC kernel, and with it the element
  that shares the thread. What should hold: the element is told every flit and credit
  once and in order, the receive does not block it for good, and the end gets through.
* **Resuming.** A savepoint has no FIFOs, credits or packet positions, and the clock is
  narrowed to an `int` on its way. What should hold: a resumed network has all its
  credits and delivers its flits, the clock goes on where it was stored, and ends.

## 2. Modules

```
EventBus          publish/subscribe from the simulation model (external library)
  SimulationModel         models/simulation_model
    SubscriberModel       life of a router, processing element or SystemC adapter
      SimulationSystem    all of them together, properties, refinement mapping
        SimulationSystem_proofs
        MCSimulationSystem
        EventQueueSystem  the same with the event queue as one of the models; the end
          EventQueueSystem_proofs
          MCEventQueueSystem
LockstepSimulation  abstract specification that SimulationSystem implements

EventQueue        models/event_queue_1: the event set (specification that the queue of
  EventQueue_proofs     EventQueueSystem implements)
  MCEventQueue

SimulationClock   the clock of models/simulation_model with its widths
  SimulationClock_proofs
  MCSimulationClock

NocBus            topics and topology of the network (external library, hosts file)
  RouterAdapter           models/router
    ProcessingElement     models/processing_element
      NetworkOnChip       all of them together, properties
        NetworkOnChip_proofs
        MCNetworkOnChip
        ResumedNetwork    the network in runs that go on from a savepoint
          ResumedNetwork_proofs
          MCResumedNetwork
FlitService         abstract specification that ResumedNetwork implements

SystemcAdapter    models/systemc_adapter between its router and its SystemC element
  SystemcAdapter_proofs
  MCSystemcAdapter

HostsFile         what the server makes of a hosts file: tables and answers (pure)
  ConfigurationServer     models/configuration_server
    ModelConnections      the prepare of all processes against it, properties
      ModelConnections_proofs
      MCModelConnections
```

Definitions whose comment begins with "A bug:" are mutations of the definition that
follows them. They take part in no specification; they show that a property would
find the bug.

### Life cycle (`SimulationSystem`)

`SimulationModel` follows `main`: `PrepareDone` is the end of the constructor, and
`PrepareFails` its end when a socket cannot be bound. `main` does not look at that and
goes on, to no purpose: nobody could have synchronised, `run` skips its loop, and all
that comes of it is that `stopSim` stops the server (`GiveUp`). `InvalidOption` is the
third branch of `main`, which returns without `stopSim` when the constructor has started
everybody. A `LoadState` whose archive throws resumes at the time of the constructor
(`LoadedTimes`).
`LoadState`/`LoadStateDone` and `SaveState`/`SaveStateDone` the two halves of the
methods of these names, split where `synchronizePub` blocks; `PublishTick`,
`CheckInterrupt` and `LoopExit` are one cycle of `run`, `StopSim` is `stopSim`. The
local clock of `run()` and the field `mCurrentSimTime` are one variable because they
differ only inside a step. `mRun` is kept, and read exactly where the code reads it.

`SubscriberModel` is what `RouterAdapter`, `ProcessingElement` and `SystemcAdapter`
have in common: `Prepare` (questions to the configuration server, bind, subscribe),
`Sync` (a request of `synchronizeSub` is counted and answered, whichever barrier is
open), and one action per event name of `handleEvent`. `Persist` are the models that
subscribe to `LoadState` and `SaveState`; `SystemcAdapter` does not. `initialised`
and `saved` record that the body of `loadState`/`saveState` was executed, and `failed`
that its archive has thrown, which the code prints and forgets (`ArchiveThrows`); only
without an exception is a model `Restored`, or a state `Stored`.

*Every* event sets the clock of a model (`simTime`), a flit or credit of a model that is
behind as well, and narrows it to 32 bits (`Clock`, `Word`). `HandleOther` is such an
event among `Peers`: it has any timestamp that some model may have put on an event so far
(`stamps`), so that clocks go back. `handled` is the timestamp of the last event of the
simulation model.

`EventBus` models the library: `publishEvent` does not block; events of the simulation
model arrive in order; an event is dropped for a subscriber that is not yet connected
or whose queue holds `HighWaterMark` events. `Faults` names the failures of an
instance: `bind` (a model or the simulation model cannot bind its port and gives up), `slowJoin`
(subscriptions reach the publisher at any later time), `critical`
(`foundCriticalSimCycle` ends a model on a tick), `interrupt` (a signal ends a model
while it receives), `simInterrupt` (a signal reaches the simulation model: it sets the
flag or, when it is caught by the receive of `synchronizePub`, throws an exception
that `main` does not catch, which is `SimDies`), `syncFail` (`synchronizePub` returns
false before everybody came), `archive` (an archive throws), `option` (`main` is called
with an option it does not know), `stale` (`receiveEvent` fails in the event queue).

### Event queue (`EventQueue`, `EventQueueSystem`)

`EventQueue` has the event set and one action per event of `handleEvent`. `HandleTick`
publishes `back()` when it is due and calls `updateEvents`, whose `Repeated` counts the
next time from now; `Scheduled` is any order that the library's scheduler may make of
the set, with the latest event in front. `loadState` is split where it synchronises:
its last statement, `init`, is an action of its own. `serialize` visits the events in
memory, each as a copy, so loading changes none of them, and throws if the file has
fewer (`loadStateThrows`); a file that could not be written is empty (`saveStateThrows`).
`ViaInt` is the `int` through which the next time goes: from 2^31 on it wraps, and a
negative one is a very late time for the unsigned clock. `HandleAgain` is the stale
`buffer` that `run` handles when `receiveEvent` fails: a tick, a request to store, or a
request to load, after which there is one more copy of the event. The handlers ask only
whether `run` is where it handles events (`Receives`); that ticks come when a state is
loaded, and at times that do not go back, is said in `Next`. `Restart` is a new process
at any time. `missed`, `published` and `loads` are history, for the properties.

`EventQueueSystem` puts it in the place of one of the models of `SimulationSystem`:
every step of the queue is one of `SubscriberModel` and one of `EventQueue` with the
timestamp of the event (`QueueHandles`), whatever the event is: `Queue::handleEvent`
would handle a tick before anything is loaded. The property `QueueSpec` says that this
system implements `EventQueue`, and so that no such tick comes, although the queue
answers the barrier of loading before `init` has added its event. Its exceptions, which
are not caught, end the process (`QueueDies`); a tick may be handled again
(`QueueHandlesAgain`). `QueueParameters` is what `EventQueue` supposes of its constants.

### SystemC adapter (`SystemcAdapter`)

`HandleEvent` is one pass of `run` up to the `wait` at the end of `handleEvent`, from
either publisher it is connected to; `SocketOf` gives the TLM transaction that an event
causes; `DelayOver` is the return of `wait`. `kernel` says what the SystemC kernel does
with the thread: while it is `"receiving"` the element cannot run, so that
`b_transport`, the call of the element, needs another value. Before `ThreadStart` it can:
`sc_start` takes its processes in any order. The element
(`proc_elem.h`, not in the tree) is taken to respect its credit as `ProcessingElement`
does, and the router to return credits.

### Clock (`SimulationClock`)

`SimulationModel` has one unbounded clock; here are the 64-bit field, the `int` of
`getCurrentSimTime` and the 64-bit local of `run()`, with their wrapping, for every
number that a configuration file can hold. `turn` flips with every tick, so that two
ticks with the same time are two steps and not one.

### Network on chip (`NetworkOnChip`)

A channel is a triple of publisher, topic and subscriber; which channels exist follows
from `Dependencies` and `ConnectivityBits` as in `prepare` and `init`. `ReceiveFlit`,
`ReceiveCredit` and `ForwardFlit` are the branches of `RouterAdapter::handleEvent`
(`ForwardFlit` is a tick on which the arbitration finds a flit: `sendFlit` and
`updateCreditCounter`), `SendFlit`, `CreditIn` and `SinkFlit` those of
`ProcessingElement::handleEvent`. Since nobody awaits the ticks of others, a model may
handle a tick at any time; ticks that do nothing are stuttering. The arbitration
is left open: any flit that has credit may go.

The topics `Credit_in_X++` are written as the port name of the FIFO that gave up a
place. Flit topics are named after the *output* of the sender, and `handleEvent`
translates them into the opposite input; credit topics are not translated. We read
this as: the counters of the library's `Router` are named after the input port of
the neighbour. Which counter the `Router` looks at before it sends is not in this
repository.

`PointToPointAssumption` says that every topic of a publisher has one reader and every
FIFO one writer. It holds for a mesh of two by two routers (`config0.xml`), which TLC
evaluates; in larger meshes a router hears all its neighbours on the same four topics.

`Lines`, `Routed` and `Falling` are for the proofs. The line of a channel holds the flits
that were published on it and that its reader has not forwarded: what is in the FIFO,
then what is on its way. `Routed(way)` says that `way` gives, for each pair of elements, the
channels through which `Route` leads, without a loop; TLC finds the ways of the mesh
(`MCWay`) and evaluates `Routed(MCWay)`. `Falling(way, rank)` says that `rank` numbers the
channels so that the numbers fall along every way: no channels wait for one another in a
circle. `MCRank` is such a numbering of the mesh, whose routing goes along the row first
(`routingBits`), which TLC evaluates, too.

`NoDeadlock` says what such a network is like when nothing can happen in it but another
flit being generated (`AtRest`): there is no flit in it, and all credits are back.

`ResumedNetwork` adds `Resume`: all processes are new ones, whose `init` starts from
the stored parameters. Nothing else of the network is in the files, so neither the time
of the savepoint nor what was on its way matters. Flits that the stored run has
delivered are generated and delivered again.

`FlitService` is what the elements see of the network: flits that are pending
(`Underway`: those on wires and in FIFOs) and, for each flit, one delivery to the element
that it is meant for, behind all former flits from the same source. A flit cannot
disappear from it but by `Restart`. `ServiceSpec` says that `ResumedNetwork` implements
it: a router that takes a flit or hands one on does nothing, as seen from there.
`Accounted` states what that is worth: each flit that a generator has sent is pending or
with its sink, and at one of these places alone.

### Configuration (`ModelConnections`)

`HostsFile` translates the functions of `ConfigurationServer.cpp` that read the XML
document: `PortTable`, `SyncTable`, `IpTable` and `ParameterTable` are what
`setModelPortNumbers`, `setModelIPAddresses` and `setModelParameters` write, in the
order of the constructor (`Information`); `Answer` is the chain of `else if` in `run`.
Names, keys and questions are sequences of words, so that `router_0` + `_port` is
`Append(<<"router", "0">>, "port")` and keys clash exactly where joined words do. A
file is a record; XML, and numbers as text, are abstracted. A hosts file may repeat a
name, refer to unknown hosts and models, or have an interval that is too small: the
tables then are what the loops leave behind.

`ConfigurationServer` has the constructor (`Configure`), one pass of the loop
(`Serve`, with the empty entry that `operator[]` leaves behind), `End` (`ServeEnd`)
and signals. Its sockets are queues: `mFrontend` for all questions, one `mailbox` for
each process.

`ModelConnections` gives each process the steps of its `prepare` (`Script`, by class)
up to the synchronisation, where `SubscriberModel` continues. A step asks its
questions, waits for each answer (`Ask`, `Hear`), then binds or connects a socket, or
replaces itself by the connections to the models it depends on. A failure ends
`prepare`. The two arguments of `connectToPub` are evaluated in an order that C++
leaves open: the questions of a step come in any order. `StopServer` stands for the
end of a simulation, or its failure, in the simulation model. `Faults` gives the
failures that may happen with each hosts file: `parse` and `bind` (of the server),
`signal` and `busy` (another program uses a port of a model). `Wanted` is what a model is
meant to listen to: the simulation model and the models its file names, for an event
queue, whose `prepare` does not look at `Dependencies`, the simulation model alone.
`NoFalseAddress` excludes files in which a parameter, which the server keeps in the same
table, has the key of the address of a model that is not in the file.

## 3. Runs

| Run | Instance | Shows |
|---|---|---|
| `lifecycle` | the queue and a router (persistent) and an adapter; step 2, clock 0..9 starting at 0 or 2, savepoints 0 and 4, both modes of `main` and an invalid option, signals to the simulation model, exceptions of archives, ticks handled again by the queue | `StoreAtCut` and the invariant behind it (`InvCut`), `SavepointNotSkipped`, `QueueSpec` (refinement), `EverythingStops` and `AllPublished` (liveness) |
| `lifecycle_faults` | 3 models (2 persistent) that send events to one another, queues of 2 events, clocks of models modulo 3, step 2, savepoints 0 and 2, six classes of faults (all but `syncFail`, `option` and `stale`) | `RoundsMatch`, `ServerOutlivesPrepare`, `InOrderOfTime`, the inductive invariant, `TickAfterRestore`, `TickAfterStore`, refinement of `LockstepSimulation` |
| `savepoint_off_grid` | savepoint 1, step 2 | violation of `SavepointNotSkipped`: finding 1 |
| `savepoint_sync_fails` | `syncFail` | violation of `TickAfterStore`: finding 2 |
| `noc_mesh` | the four routers of `config0.xml`, FIFOs of 1 place, crossing traffic, resumed at most once | `CreditsConserved`, `InOrder`, `NoDeadlock`, `ServiceSpec` (refinement of `FlitService`), `Delivered` (liveness): every flit arrives |
| `noc_row_late` | routers 0 and 1 with their elements, late subscriptions, 4 flits against 3 credits, FIFOs of 3 places | `CreditsNotCreated`, `NoOverflow`, the inductive invariant |
| `event_queue` | times 0..6, stored and loaded at 0 and 3, period 2, one repetition, an `int` up to 5, any event lost or handled again, up to two loads in a process, restarts | `NoStarvation`, `Spacing`, `DueOrder`, the inductive invariant |
| `queue_restore` | the same with a repetition without end, as `init` has it | violation of `RestoresStored`: finding 4 |
| `adapter` | two ticks, two flits in each direction, two credits, with and without critical cycles | `ToldAsRouted`, `InterruptIsLast`, `NeverAhead`, the inductive invariant, `EndReachesElement` and `ElementRuns` (liveness) |
| `clock` | 4 and 6 bits for 32 and 64, every start that the field can hold, ends on either side of each width, steps 0 to 3 | `FieldAgrees`, `Forward`, `ClockEnds` (liveness) |
| `configuration` | two files with four models (an exact interval and no failure; a parameter named `port`, an adapter and a busy port) and five with three (complete, too small, clashing, with unknown dependencies; all failures) | `MeetingPoint`, `NoPortTwice`, `PortsOfInterval`, `Wired`, the types and the two inductive invariants (`InvConfiguration`), `EverybodyConfigured` (liveness, for the complete file) |
| `configuration_interval` | four models and an interval of four ports | violation of `PortsInInterval`: finding 3 |

The inductive invariants (`IInv`) have the type invariant of their component among their
conjuncts.

Findings. (1) A savepoint that is not on the grid of `SimTimeStep` is passed silently
(`SimulationModel.cpp:71`). (2) When the synchronisation of `saveState` fails, `run`
does not look at `mRun` and publishes the next tick (`SimulationModel.cpp:192`). (3) The
synchronisation port is not compared with `maxPort` and may be `maxPort + 1`
(`ConfigurationServer.cpp:85`). (4) A loaded queue has its event once more than was
stored, because `init` has run in the constructor and runs again (`Queue.cpp:177`).

Met on the way, without a run: a comment calls the TLM payload "reused"
(`SystemcAdapter.cpp:138`), but every event allocates one that nobody deletes;
`getCurrentSimTime` returns an `int` (`SimulationModel.h:74`), so that a configuration
whose time is 2^31 or more resumes at another time; a step of zero publishes one tick for
ever; the next time of a queue's event goes through an `int`, too (`Queue.cpp:85`); an
exception of an archive (`RouterAdapter.cpp:266`) lets the simulation go on without the
state of a model; a simulation model that cannot bind stops the server while others
prepare, and one with an invalid option leaves everybody waiting (`main.cpp:33`); the
savepoint of a network has neither its flits nor its generators' positions. The
properties name each of these cases where they except it.

Bounds. `SimTime` bounds the clock, `HighWaterMark` the queues (2 makes drops of every
kind of event happen within three ticks; 100 is out of reach), `MaxFlits` and `Budget`
the flits, `MaxResumes` the resumptions, `MaxTime` the times of the queue, `LastTime`,
`Flits` and `Packets` what happens to the adapter. Three models suffice to have a
persistent one that lags behind another and one that never loads; a step of two leaves a
time between two ticks, which a savepoint could have (finding 1); two savepoints, the
first at the start time, give a barrier right after the one of `loadState` and two
rounds of the same barrier. Four flits against three credits exhaust the credits of the
element and of its router; two flits against one credit do so in the mesh, where two
flows cross two routers each. A resumption at any point, once, is as good as several:
nothing of the former run is left. One repetition lets the queue hold two events (three after a second load), one or
none, in every order, and a clock that jumps from 0 to 6 makes all late by more than a
period; `init` has the period 100 and repeats for ever (-1), which `queue_restore` has
and the proofs cover. The `int` of the run ends at 5, below the last times, so that next
times do wrap; what they wrap to is outside of `Fits`, and no property is claimed there.
Four ticks leave time for all publications when the run starts at 2, and clocks of
models that are narrowed modulo 3 wrap within the run. The events that models send to one another are left out of `lifecycle`
(`Peers` is empty), where they would touch nothing that it looks at, and are in
`lifecycle_faults`. In `clock` every start is tried with every end and step: ends at
0, at the limits of both widths and around them, so that clocks overflow, too. With two flits in each direction and two credits, credits run out at the adapter
while others are on their way. Hosts files have three or four models, enough for a
process that asks while another one waits, binds or has failed, and for a dependency in
each direction; their intervals are large, exact or too small, since only the place of
`maxPort` among the models matters. The configuration has no bound but the file: each
process asks finitely many questions. Deadlock is not checked because the processes are
meant to end (and, with faults, a model that ended early leaves others waiting: a
barrier has no timeout).

Fairness. Weak fairness of each process: the operating system schedules every process
again, `receiveEvent` returns when there is an event, and a ZeroMQ connection that is
not cut delivers. Faults, signals and late subscriptions are never owed. In the run
`lifecycle` signals to the simulation model may come at any time; `EverythingStops`
excepts three cases by name (`CutShort`), in each of which the code does leave others
waiting: a signal that the simulation model catches in `synchronizePub` (`SimDies`), a
queue that cannot read or write its file (`loadStateThrows`, `saveStateThrows`), and an
invalid option (`InvalidOption`). Weak fairness is enough for a router because
a flit with credit stays able to go until it goes; the element of a router needs no
fairness between its own actions because each takes from a queue that only grows
meanwhile and the budget is finite. Ticks are what makes an element send and a router
forward, so the fairness of these actions stands for a clock that keeps ticking: a run
whose `SimTime` ends earlier leaves flits behind. A network owes nothing to the run it
has left (`ResumedFairSpec`). In `ModelConnections` the server, each process and the end
of the simulation are weakly fair. Only `SystemcAdapter` has strong fairness: its one
receive takes from two publishers in turn (fair queueing of a ZeroMQ `SUB` socket), and
each is only possible when the delay of the other is over.

## 4. Proofs

`SimulationSystem_proofs` (for any set of models, clock, savepoints and queue bound):
type correctness; the inductive invariant `IInv` from `"syncFail" \notin Faults`, with
every other fault, a simulation model that cannot bind among them; and
from it `RoundsMatch`, `ServerOutlivesPrepare`, `TickAfterRestore`, `TickAfterStore`
and the refinement of `LockstepSimulation`. The second of these has one exception, the
simulation model without sockets, the next two have another, an exception of an archive
that was caught; the statements name them. The heart of `IInv` is
`CountedAreDone`: the number of requests counted at a barrier is at most the number
of models that have done what the barrier waits for and have left it. With
`InvWaiting` and `InvPending` (at most one request to load or store is pending for a
model, and only while its barrier is open) a full count implies that *every*
persistent model is done, although the count knows no names. `RoundsMatch` is not
inductive without them.

The times have an invariant of their own, `ClockInv`, which needs no assumption about
faults: whatever is dropped, a queue is sorted by timestamps between the last event that
was handled and the clock of the simulation, and no clock or timestamp of a model is ahead
of it, whatever model was behind and set another one back (`InOrderOfTime`), the clock only shows times between
its start and one step behind `SimTime` (`InvTimes`), and requests carry times that were
asked for (`InvEvents`). `SavepointNotSkipped` follows from it, from `TickAfterStore`, and
from `InvGrid` if start times and savepoints are a number of steps apart (`OnGrid`; without
it, finding 1). `StoreAtCut` needs more, since it says what a model has *handled*, not only
what it has not: `InvCut` says, for each state of the clock, which event is the last of
every queue, and that a request to store comes right behind the tick before it. That is
true only where nothing is lost, so that the theorem (`ConsistentCut`) supposes
subscriptions that are in time and queues that never fill (`NoQueueFull`, which every
behaviour of the run `lifecycle` satisfies); `CutInvariant` states that of `InvCut`
itself. A model that has lost a tick stores an
earlier state, and nobody notices.

`EventQueueSystem_proofs` (one of the models is the event queue, which may die in
`loadState` or `saveState`): the two invariants and the properties above again, since each
step is one of `SimulationSystem` or the exception; and `QueueRefines`, the refinement of
`EventQueue`. Its steps need `ClockInv` (ticks do not go back, requests carry known times),
`TypeOK`, and `InvQueue` (`QueueGuarded`): no tick is sent to a queue that has not loaded,
and none loads twice. Nothing in the queue guarantees that; it follows from the barrier,
through `IInv`: a tick is published when every persistent model is initialised. By the
refinement, what `EventQueue_proofs` shows is true of the queue of any simulation
(`QueueInSystem`), for one load, since there is only one.

`NetworkOnChip_proofs` (any point-to-point network, routing and FIFO size): type
correctness (no counter goes below zero), and the invariant that the places of each
link, that is, the writer's credit, the flits on their way and in the FIFO, and the
credits on their way back, add up to the initial credit, or to at most that when
subscriptions are late. One lemma per action shows that it moves a place of a link
and touches no other link (`OneReader`, `OneWriter`). `CreditsConserved`,
`CreditsNotCreated` and `NoOverflow` follow. `InOrder` looks only at an element that has
received; its invariant, `InvLines`, looks at the whole way: every flit of a line is on a
channel of its way (`OnWay`), and along a way, from its end back to its start, the
flits of a pair of elements have rising numbers (`NoneOvertakes`). Receiving leaves the
lines as they are, sending puts a number that is greater than all others on the first
line, and forwarding moves the front of a line to the end of the next one. The theorem
supposes `Routed(way)`: where a flit can come to a router twice, or has two ways, one may
overtake another.

`NoDeadlock` (`DeadlockFree`) follows from the same invariants and a numbering of the
channels that falls along every way. Suppose that some FIFO holds a flit when nothing can
go on. The flit in front is on its way (`InvLines`), so that it needs credit of the next
channel of that way, and has none. The places of that channel add up (`InvPlaces`) and none
is on a wire, so that they are all in the FIFO at its end, which therefore holds a flit,
too, and has a lower number (`WaitsForLower`). But some FIFO has the lowest number of those
that hold a flit (`Lowest`). The theorem supposes that subscriptions are in time: with a
late one a place may be lost, and a flit then waits for it for ever. It is the safety half of
`Delivered`; that an element goes on when it can is fairness, and left to TLC.

`ModelConnections_proofs` (any set of hosts files that have a simulation model, any
faults): the invariant `IInv`, and from it `MeetingPoint` and `NoPortTwice`. `IInv` says
that the table of the server *reads* as after its constructor, although it grows
(`InvTable`), that a process has at most one question or answer on its way
(`InvQuestions`, `InvAnswers`), and that what is still to do and what is bound and
connected follows from the file (`InvTodo`, `InvSockets`). Without the second an answer
could be taken for that to another question. `NoPortTwice` then needs that no two keys
have the same port: `PortKey` is injective, addresses and parameters do not overwrite
ports unless keys clash (`NoClash`), the loop gives different numbers, and the
synchronisation port exceeds them all. The same lemma (`BoundPort`) gives
`PortsOfInterval`, which is what is true of the interval although finding 3 is: only the
synchronisation may be outside, by one, since it gets a port only if every model got
one. `Wired` has a second invariant, `InvPlan`: where a model listens and where the
steps that it has left will lead to make up `Wanted`, and each connection was made with
the address that the server says. It is an invariant of the plan, since `Wired` itself
says nothing before a model is ready. `TypeOK` follows from both with the values of the
table.

`EventQueue_proofs` (any period, repetitions, times, widths and savepoints, any event
handled again): the invariant `IInv`, and from it `DueOrder`, however often the state is
loaded, and `NoStarvation` and `Spacing` for a process that has loaded once (for two loads
they are model-checked). All three are claimed as long as the next time fits into an `int`
(`Fits`). `InvFront` says that of two
events the one in front is due later and has missed nothing, so that an event that is
passed over becomes the next to be published; `InvPublished` relates the times that are
still in the set to the last two publications. None of the three properties is
inductive without both.

`SystemcAdapter_proofs` (any number of ticks, flits, packets and credits, with and without
critical cycles): the invariant `IInv`, and from it `ToldAsRouted`, `InterruptIsLast` and `NeverAhead`. `InvLinks` says that what is in the link of the router
is the rest of what the router has sent, `InvTimes` that every timestamp on its way is
before the time of the simulation, and `InvThread` that an interrupt has ended the loop,
without which a second transaction could follow it.

`SimulationClock_proofs` (any widths, starts, ends and steps): `FieldAgrees`, which says
what a clock that an `int` cannot hold is resumed at, and `Forward`, which says that the
step zero repeats its tick and any other goes forward, if the end and one step fit into
the local clock of `run`.

`ResumedNetwork_proofs` (any number of resumptions): `CreditsConserved`; an ordinary
step is one of `NetworkOnChip`, whose lemma is cited, and a resumption leaves an initial
network behind. `InOrder` and `NoDeadlock` follow in the same way. `NetworkServes` is
the refinement of `FlitService`, one lemma for each action: what is published gets on a
wire, since `Route` names a channel that exists (`Published`), so that forwarding a flit
moves it and sending one adds it; and what an element takes is the *oldest* of its
source for it, since everything else that is underway is behind it on the same way
(`RestIsBehind`, `SinkServes`). It supposes `Routed(way)` and subscriptions in time; it
says more than `InOrder`, which a network that loses flits satisfies as well. From it
follows `NoneLost`, that flits are `Accounted` for in every state: an argument about
`FlitService` alone (`SendAccounts`, `DeliverAccounts`, with numbers that are no larger
than what was sent), which the refinement carries over to the network.

Assumptions are those named in the modules (`BusAssumption`, `ClockAssumption`,
`NocAssumption`, `PointToPointAssumption`, `RouterAssumption`, `BudgetAssumption`,
`FifoAssumption`, `WordsAssumption`, `ServerAssumption`, `SimulationModelAssumption`,
`PeersAssumption`, `QueueAssumption`, `QueueParameters`, `QueueIsPersistent`,
`WidthAssumption`,
`ResumeAssumption`, `AdapterAssumption`), and those stated in a theorem.

Only model-checked: the liveness properties (`EverythingStops`, `AllPublished`,
`Delivered`, `EverybodyConfigured`, `EndReachesElement`, `ElementRuns`, `ClockEnds`), which
are outside the prover's reach. Every other property of the passing runs is stated by a theorem.

## 5. Not modelled

* contents of configuration files and savepoints other than the event set and the
  clock, their paths, `CycleTime`/`SpeedFactor`, output;
* the inside of the library classes; round robin of the arbitration; `PIR`, packet
  lengths and random numbers of the generator;
* the data of the TLM payloads: the pointer that they carry refers to a variable of a
  block that has ended (`SystemcAdapter.cpp:143`), so that the element may read
  anything; the SystemC element itself, which is not in the tree;
* the fields of `Queue`'s events. `Queue.cpp` is written for an older schema (string
  data) than `event.fbs` has; its control is modelled as it stands;
* what a clock that falls behind does: every event sets the clock of a model, also one of a
  publisher that is behind. The model has it (`HandleOther`), and nothing is claimed of the
  order of these clocks but that none is ahead (`InOrderOfTime`, `NeverAhead`); what
  `foundCriticalSimCycle` makes of such a clock is in the library. A `ProcessingElement`
  reads its 32 bits as a signed number;
* a request to load or store that the queue handles again within the whole simulation: it
  is in `EventQueue`; in `EventQueueSystem`, where it would send another request of
  synchronisation, only ticks are handled again;
* configurations beyond an `int` within the whole simulation: they are in
  `SimulationClock`, and for the queue in `EventQueue`;
* meshes larger than two by two, in which topics have several readers
  (`PointToPointAssumption`);
* scripts, makefiles and ansible recipes: they start processes and copy files, and the
  order in which they start them is left open here.

## 6. Plan

1. *(done)* Life cycle: `SimulationModel`, `SubscriberModel`, `SimulationSystem`,
   abstract `LockstepSimulation`, proofs of the barriers and the refinement; the death
   of the simulation model.
2. *(done)* Network on chip: `NocBus`, `RouterAdapter`, `ProcessingElement`,
   `NetworkOnChip`, proofs of the credits; `ResumedNetwork`.
3. *(done)* Configuration: `HostsFile`, `ConfigurationServer`, `ModelConnections`,
   proofs that connections meet their sockets and ports differ.
4. *(done)* `EventQueue` with its proofs, `EventQueueSystem`, `SystemcAdapter`,
   `SimulationClock`.
5. *(done)* Proofs of `StoreAtCut`, `SavepointNotSkipped` (for savepoints on the grid),
   `QueueSpec`, `InOrder` and `Wired`, of the type invariant of `ModelConnections`, of
   `Forward`, and of the invariants of `SystemcAdapter`.
6. *(done)* Proofs that ports lie in the interval, that no flits wait for one another,
   that the network implements `FlitService` and loses no flit, and of `InvCut`.
7. *(done)* Failures that the code swallows: archives, `prepare` of the simulation model,
   an invalid option; clocks that other models set back; the `int` of the queue and of the
   clock for all values, a queue without guards of its own (`QueueGuarded`).
