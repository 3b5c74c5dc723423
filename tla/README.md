# TLA+ verification of the DEVS stream processing simulator

The program (`src/StreamProcessing`) simulates a Flink-like cluster that executes
a stream processing job.  It is a set of DEVS models in C++ that the Cadmium
engine (`src/cadmium`, kept in the repository) runs: a *producer* sends messages to
the *master node*; the operators of the job are replicated over *task slots* of the
nodes; a node executes the messages scheduled on its slots on a few cores and sends
what an operator outputs to slots of the next operators, on the node itself or through
the *switch*.  This directory holds the specifications of that behaviour and of the
engine under it, the TLC runs that check them and the TLAPS proofs about them.

## 1. Inventory

### Parts of the simulator (`src/StreamProcessing`)

| part | source | state | operations |
|---|---|---|---|
| producer | `atomics/producer.hpp` | message counter, current line of the workload, requests to complete, whether it generates, its clock | output; internal transition by requests or by time; reads the time advance of all other models |
| node | `atomics/node.hpp` | task manager, `processing_`, `lapse_time_`, `internal_pendings_` | internal, external, confluence transition, output, time advance |
| master node | `atomics/nodemaster.hpp` | a node's, and `extern_locations_` | the same, overridden |
| switch | `atomics/switch.hpp` | a buffer per destination, `transmitting_`, `send_time_` | the same |
| task manager | `data_structures/flink/taskmanager.*` | execution buffer per core, task slots, active subtasks, pending executions, slots used | `scheduleExec`, `checkQueuedExecution`, `createSubTask`, `terminateActiveExecutions`, `reserveSlot` |
| execution buffer, task slot | `data_structures/flink/executionbuffer.hpp`, `taskslot.hpp` | vector with a head index, pointer to the active subtask; flags `using_`, `active_` | `emplace`, `pop`, `activateSubtask`; `pushTuple`, `popTuple` |
| job manager, job master, resource manager | `data_structures/flink/jobmanager.*`, `jobmaster.*`, `resourcemanager.*` | locations of the operators, references to the task managers | deployment of the slots, choice of the least loaded location |
| cluster configuration | `data_structures/clusterconfig.hpp` | operators, topology, workloads, factors | reading of the input files |
| metrics logger | `util/metriclogger.*` | captured metrics, index of the workload | capture, logging, printing |
| coupling | `test/system/main.cpp` | - | couples producer, nodes and switch; runs them to the end |

### Parts of the engine (`src/cadmium`)

| part | source (under `include/cadmium`) | state | operations |
|---|---|---|---|
| dynamic engine | `engine/pdevs_dynamic_*.hpp` | last and next event time at every level, inboxes and outboxes | init; collect the outputs of the imminent models, route them, advance the models |
| static engine | `engine/pdevs_runner.hpp`, `pdevs_coordinator.hpp`, `pdevs_simulator.hpp`, `pdevs_engine_helpers.hpp` | the same, for models known at compile time | the same |
| concurrency helpers | `engine/concurrency_helpers.hpp`, `parallel_helpers.hpp` | a pool's queue and what its threads run; the team of a parallel loop | make the calls on all submodels of a coordinator |
| construction | `modeling/dynamic_model_translator.hpp`, `dynamic_coupled.hpp`, `engine/pdevs_dynamic_coordinator.hpp` | submodels and couplings | translation of a static model, validation, engines and links for it |
| Cell-DEVS cells | `celldevs/cell`, `celldevs/delay_buffer` | state of a cell, what it knows of its neighbours, its clock, the scheduled states | the DEVS functions; transport, inertial and hybrid delay |
| Cell-DEVS scenarios | `celldevs/coupled`, `celldevs/utils/grid_utils.hpp` | cells, their configurations and neighbourhoods | a lattice from a scenario file |
| basic models | `basic_model/pdevs` | generator, accumulator, filter, passive model, stream of a file | the DEVS functions |

### How they interact

The engine advances the models in rounds.  In each it takes the least time of the
next events, asks the models due at that time for their *output*, routes the outputs
to the inboxes, and gives every due model its internal transition, every model
with input its external one, and every model with both its confluence transition
(for the models of the simulator always internal, then external with no time elapsed).
Coupled models form a tree; each level caches the least next event of those below it.
A coordinator may make the calls on its submodels one after the other, or concurrently
(`CADMIUM_EXECUTE_CONCURRENT`, `CPU_PARALLEL`).  Models of the simulator also share
state outside the engine: the producer reads all time advances, and the load balancer
that any node's output calls reads the slots of all nodes.

Within a node, a message is *scheduled* on a slot.  A slot executes one message at
a time: if its flag `using_` is set the message is queued on the slot, otherwise
a subtask is prepared in the buffer of the core with the fewest.  The first
subtask of a buffer is *active* (it runs); when the least of the active lapses is
over, the node's output chooses where the messages of the subtasks that end go
next, and its internal transition terminates those subtasks, schedules the messages
that stay on the node and then starts the next queued message of each freed slot.

### What is hard, and what makes it correct

* **Node.** Flags, buffers, queues and the counter of pending executions are kept apart
  and must agree: a slot has at most one subtask, in order, no queued message is left
  behind nothing, the counter counts what the buffers hold.  The hard cases are the
  order of the calls within a transition, cores that end at one instant, and
  messages that arrive between events.
* **Active subtasks.** The vector of the running subtasks is updated by moving its
  last element, and each core keeps its index in it.
* **Execution buffer and slot storage.** A vector consumed by a head index is compacted or
  grows; the pointer to the active subtask must follow.
* **Switch.** Messages that arrive during a transmission wait for the next one;
  every message must leave, in order, and nothing may be taken out of an empty buffer.
* **Cluster.** A message travels through two mutable lists, the switch and queues that
  several transitions of one instant touch; none may be lost, doubled or forgotten, and
  a busy node must be due when its next subtask ends.
* **Producer.** The change from one line of the workload to the next, and passivation:
  the producer decides that the simulation is over from the time advances of the others, of
  which some have yet to take their transition of the same instant.
* **Load balancing and deployment.** The cursor over the nodes runs on across operators; the
  balancer reads slots only: messages on the way are not counted.
* **Engines.** Whatever the tree, and in whatever order the calls come, every model
  must get every message of a round, the transition that is due, and the elapsed time.
* **Cells.** A cell keeps its own clock beside the engine's and transmits changes only, so
  that one that is missed is missed for good.

`PROJECT.json` lists every hazard at its line with the properties that cover it.

## 2. The modules

### The simulator

| module | models | how its state and actions correspond to the code |
|---|---|---|
| `TaskManager` | `taskmanager.cpp`, flags and queues of `taskslot.hpp`, the loops of the nodes over the active subtasks | A task manager is a record (`bufs`, `tuples`, `using`, `active`, `pending`, `used`); each method is an operator from one to the next.  The random execution time is an argument. |
| `TaskExecution` | the calls of one node on its task manager | `Receive`, `ReceiveBoth`, `Tick`: external transitions (a message from the switch or the producer, both, none).  `Terminate`, `SchedulePending`, `CheckQueued`: the output and the calls of the internal transition, one action per call, in the code's order; `due` holds the cores whose freed slot is still to be checked, and the node is `Ready` for the next event when there are none.  Pendings may be scheduled in any order, which covers the order of the active subtasks in the vector. |
| `Buffers` | the execution buffers of a node, composing the two below | Of every core the size of its buffer, of one core the storage too: which core is chosen, and when it may end a subtask, decides what insertions and removals a storage meets. |
| `ActiveSubtasks` | `active_subtasks_` and `idx_priority_` | The vector as a sequence of cores; `terminateActiveExecutions` one iteration per action. |
| `CompactingQueue` | the storage of `ExecutionBuffer_t` and `TaskSlot_t` | Vector with its consumed part, capacity, head index, pointer to the active subtask as an index or `Dangling`.  `emplace` is three actions: room, compaction, growth. |
| `Switch`, `SwitchEvents` | `switch.hpp` | `Switch` has the DEVS functions as operators on the switch's state; `SwitchEvents` the events the engine gives it.  Since `output()` takes messages out of the buffers, it is part of the same step as the transition after it. |
| `FifoQueues` | - | The abstract specification: queues that messages join at the end and leave at the front.  `TaskExecution` (a queue per slot: the message in service, then those waiting), `CompactingQueue` (what is not consumed) and `SwitchEvents` (a queue per destination) are checked to implement it. |
| `JobManager` | `jobmanager.cpp` | The set of locations that load balancing may choose, from the task managers of all nodes. |
| `Node` | `node.hpp`, `nodemaster.hpp` | A node is a record of its task manager, `processing`, `lapse_time`, `internal_pendings` and, for the master, `extern_locations`; every DEVS function is an operator on it.  An output is one of a set: of destinations, of the selectivity, of the balancer's choices. |
| `Producer` | `producer.hpp` | The same for the producer; what it reads of the other models is an argument. |
| `Simulation` | `main.cpp`, composing `Node`, `Producer`, `Switch`, `JobManager` | `CollectOutputs` and `AdvanceSimulation`, the two calls of the runner.  Models take their transitions in the order producer, nodes, switch, and the producer sees the state of the others before theirs.  Time is relative: each model has the time since its last transition. |
| `Deployment` | `deployJob`, `reserveSlot`, `addLocation` | One replica per step. |
| `ClusterConfig` | `clusterconfig.hpp` | One line of a file per step, any line. |
| `Startup` | - | `ClusterConfig`, `Deployment` and `Workloads` (by requests and by time) side by side; one of them runs. |
| `MetricLogger`, `Workloads` | `metriclogger.tpp`; producer and logger together | `MetricLogger` has the operators; in `Workloads` the producer goes through a workload, captures, and at the end the captures are printed. |

### The engine

| module | models | how its state and actions correspond to the code |
|---|---|---|
| `PdevsNetwork` | the tree, its links and the atomic models, of which only ports and time advances matter | A message is told by the model and port that put it out; a bag counts the copies of each. |
| `FlatEngine` | - | The abstract specification: what a PDEVS simulator promises of a network of atomic models, whatever the tree.  In a round models send, and when all that are imminent have, those that are due take their transition, some at a time. |
| `DynamicEngine` | runner, coordinators, simulators, links | `collect_outputs`, `route_messages`, `advance_simulation` of every coordinator and simulator are steps of their own that wait for their submodels; the calls on these come in any order, which covers the sequential and the concurrent builds. |
| `StaticEngine` | the static engine | It runs in one thread: a call of the runner, with all it calls, is one step. |
| `ThreadPool` | `concurrency_helpers.hpp` | Nested `concurrent_for_each` on one pool: a thread that waits for its tasks runs others meanwhile, and may take one more after its own are ready, since it read the futures before. |
| `ParallelLoop` | `parallel_helpers.hpp` | Each thread of a team of any size goes through its piece of the elements. |
| `Engines` | - | The two engines, the pool and the team side by side; one of them runs. |
| `CellDevs`, `CellSpace` | `cell.hpp`, `delay_buffer/*.hpp`; cells coupled under the dynamic engine | `CellDevs` has the DEVS functions of a cell and the three buffers as operators; a step of `CellSpace` is a round.  What a user's cell computes is any state with any delay. |
| `GridUtils`, `GridScenario` | `grid_utils.hpp`; `grid_coupled.hpp`, `cells_coupled.hpp` | Geometry as operators; the loops that configure and link the cells of a lattice, one cell per step, through `next_cell`. |
| `BasicModels`, `InputStream` | `basic_model/pdevs` | A step is one round over the models, or over one that plays a file.  The rounds of `BasicModels` are those of the static engine, which joins what several links bring to one port. |
| `ModelConstruction` | translation, validation and the coordinator's constructor | One stage per step, ending in engines or in the exception thrown. |
| `Models` | - | The cells, the lattice, the basic models, the file and the construction side by side; one of them runs. |

`MCTaskExecution`, `MCSwitch`, `MCSimulation`, `MCStartup`, `MCEngine`, `MCModels`,
`MCCellSpace` are instances for TLC; `Buffers` needs none, its constants are numbers and model values.

The theorems are in `TaskExecutionProofs`, `QueueProofs` (buffers and switch), `StartupProofs`,
`EngineProofs`, `SimulationProofs` and `ModelsProofs`.  `TaskManagerProofs` has the lemmas about the methods of a task manager, which
both the proofs of `TaskExecution` and those of `Simulation` use; `DataLemmas` those about numbers, sequences and recursive functions that several
components need.

A module that joins parts which do not interact (`MCTaskExecution`, `Startup`, `Engines`,
`Models`) is their sum: a variable (`node`, `part`, `engine`) that never
changes says which of them runs, and the others keep one initial state.  Some of its
properties join those of a part, as their comments say; the parts' modules state each one.

Definitions whose comment calls them *faulty variants* are no part of the
specifications: each is the form that a plausible mistake would give to the
definition after it, and the property named for it in `PROJECT.json` rejects it.

Abstractions.  Time is an integer; what must be exact of the code's floating-point times,
that `lapse - least` is zero for equal lapses and not below for others, holds for doubles
too.  `Infinity` is an integer no time of the instance reaches.  Distributions are
sets of values.  In `TaskExecution`, which location an output chooses is
nondeterministic over everything that balancing, selectivity and placement could decide; in
`Simulation` it is what `JobManager` computes.  The accumulated busy times of operators are left out,
since only the logger's figures depend on them.

## 3. The runs

| run | instance | shows |
|---|---|---|
| `task_execution` | 2 cores; *short*: 3 slots (one of a source operator, two of the one it feeds), at most 2 messages per slot, lapses 1 and 3, no two cores ending at one instant; *long*: 2 slots, up to 3 messages, lapses 1 and 2; *together*: as *long*, cores may end at one instant | types, exclusive slots with exact flags, no stranded message, exact counter; in *long* every slot is a FIFO queue; in *together* still no stranded message and an exact counter |
| `task_buffered` | as *together* | **violated**: finding 1 |
| `buffers` | 3 cores, up to 3 subtasks each, any set of active subtasks ending; the storage of the last core, which ties prefer, with capacity 2 at the start, so that it compacts and grows repeatedly | exact indices, vector = busy cores; pointer at the front, bounded capacity, refinement of a FIFO queue |
| `switch_events` | 2 nodes, 4 messages, bags of one or two messages, transmission times 1 and 2 | consistency of flags and buffers, order, and liveness |
| `switch_256` | 256 nodes, a message for each | **violated**: finding 2 |
| `simulation` | 2 nodes of 2 cores, a job of two operators with a location on each node, 3 requests, arrivals 1 and 2 apart, execution times 1 and 3, sends of 1 | a busy node is due at its next end (`LapseIsLeast`); slaves execute each subtask for its time; every request is in exactly one place or was executed (`Conserved`); every request is executed to the end (`AllExecuted`) |
| `simulation_end` | the same, 1 core, 2 requests | **violated**: finding 3 |
| `startup` | *config*: four names, up to 3 lines in any file; *deployment*: 3 operators of 1 to 5 replicas on 3 nodes; *by_req*: lines of 1, 2 and 1 requests; *by_time*: rates from 0, 3, 5 and an end at 7, up to time 9 | what is read is what the lines say; nodes balanced, locations exact, replicas spread; as many requests per line as it says; no rate early; captures filed under their line |
| `engines` | a coupled model of two atomic ones in a ring with a third.  *dynamic*: time advances 0, 1, infinite, until time 2; *static*: two links to one port, advances 1 and 2, until time 3; *pool*: 2 threads and the runner over 7 engines in three levels; *loop*: up to 5 elements, 4 threads, any size of the team | both engines implement `FlatEngine`, throw nothing, leave no message behind; the cached next event is right at every level; each engine is called once; rounds and nested loops end |
| `models` | *cells*: two cells, all three delays, changes of delay 0, 1, 3 and infinite; *grid*: lattices of one to three dimensions with six neighbourhood lists, wrapped or not; *basic*: the static engine, two generators of values into one port, two of resets, of all phases, and two accumulators in a chain; *stream*: all files of up to 3 lines; *construction*: up to 2 submodels, which may share an id, with couplings to anything | a cell transmits its changes when the buffer says, and its neighbours know the last one; cells are linked exactly within range, with the vicinity of the last entry that covers the position; the three distances are metrics; sums are exact and nothing is thrown; every event of a file is played at its time; couplings are those declared, dangling ones are refused |
| `cells_join` | three cells, one listens to the two others | **violated**: finding 4 |

Bounds.  Two cores are enough for a subtask to wait behind another, to end at the
same instant or earlier, and for the least loaded choice to matter; three slots for
two slots of one operator and one of another (a pending for a freed slot's
operator, and for another); two or three messages per slot for a message to wait behind
one that waits.  Two lapses give every order of ends (1 and 3, so that a subtask may also be
prepared behind one with more than its own lapse left).  In the vector of active
subtasks three cores are enough for two removals in one loop, the first of which moves the
entry of the core that ends next.  The real capacity of a queue is 100000; the smallest legal one
reaches the same branches.  Two destinations with up to two messages each make one
buffer active while the other is not, and messages that arrive during, between and at the
end of transmissions.  In the cluster three requests over two locations make one
wait for another and one go to the other node; every event may meet every other at one instant.
In the engine's tree a message passes couplings of all three kinds, into a model that
is due and one that is not; a time advance of zero makes several rounds at one time.
Five replicas on three nodes go around once and end in the middle.  Five elements and four
threads give pieces of different sizes.  The named bounds of the modules (`MaxQueue`, `MaxSize`,
`MaxLive`, `Limit`, `MaxTime`, `MaxLines`, `MaxChanges`, `MaxSpecial`) are guards of their environments'
actions or of the runner's end only.

Deadlock is checked in the runs of `TaskExecution`, `Buffers` and the switch.  The others model systems that stop: a simulation that has no event left, a file at its
end, a job that is deployed.

Fairness.  `SwitchEvents`: `WF_sw(EndTransmission)`.  The engine's
clock advances to the least next event time, and an arrival shortens what is left
of the transmission by exactly the elapsed time, so the end of a transmission
cannot be put off for ever.  (In the model an arrival with nothing elapsed
may repeat, and weak fairness excludes that it does for ever.)
`Simulation`: `WF_phase(Call)`, the runner's loop makes its next call; nothing in it waits.
`Engines`: weak fairness of the next-state relation as a whole, that is, calls that were made
return; no order among them is assumed, so a pool whose threads wait for each other would be
found.  The other properties are about safety and need none.

### Findings

1. `node.hpp:74` (run `task_buffered`).  When two cores end at one instant, the message of one that
   stays on the node may be scheduled on the slot that the other freed, before the queue of that
   slot is served; the queue is then served as well.  The slot has two subtasks, the later message is
   executed first or together with the older one, and the end of one clears `using_` while the other
   waits, against the comment of `taskmanager.cpp:178`.  Constant execution times (`fix` in the operators'
   file) make equal lapses an ordinary case.
2. `switch.hpp:104` (run `switch_256`).  The eight-bit counter of pending
   sends is zero for 256 destinations with messages, which the build allows; the switch then
   passivates with all of them waiting.
3. `nodemaster.hpp:98` (run `simulation_end`).  A message without request leaves the idle master
   active with an old lapse.  The producer, which waits for all models to be passive, sends the next
   such message when that lapse is over: the two keep each other active for ever, where
   `main.cpp:220` runs "until all models are passivated".
4. `pdevs_dynamic_link.hpp:145` (run `cells_join`).  Each link into a port replaces the bag that
   an earlier one filled in the same round.  All neighbours of a cell lead to its only input port, and at
   time zero all of them transmit: it hears of the last one.  (`ImplementsFlat` also fails for any network
   with two links into a port that are used in one round; `engines` therefore gives the dynamic
   engine one link per port, `OneLinkPerPort`, and only the static one two.  With that it is proved, see section 4.
   For the same reason `BasicModels` speaks of the static engine: the dynamic one adds only one of the values that
   several generators output at one instant.  A port's bag replaced by the last link, `AddsOfLastLink`, violates `SumsAreExact`.
   With one generator of values and one of resets, every port has one link and both engines make the same rounds.)

Further differences between the code and what it says of itself, which are stated in the modules
and which TLC refutes, without a run of their own:

* `Simulation!MasterRunsItsTime`: while the master sends on what the producer sent, its active subtasks do not advance
  (`nodemaster.hpp:71`); they run longer than drawn.  On a job that branches and joins (`Br...` in
  `MCSimulation`) `SlavesRunTheirTime` fails too: a message that arrives is told from those of the active subtasks by its identifier
  only (`node.hpp:124`).
* `Simulation!TerminatesLast` (`producer.hpp:183`): the producer stops while a message it sent at that instant is still to be
  executed.  It is executed nevertheless.
* `Simulation!ChoosesLessCongested` (`jobmanager.cpp:8`): slots with a subtask that waits for a core count as free.
* `Workloads!RateInForce` (`producer.hpp:112`): the rate changes with the first message at or after its time, so that a
  lapse drawn before may skip it.  `Workloads!Periodic` (`producer.hpp:259`): captures may be nearer than a period.
* `ClusterConfig!EndsAreSinks` (`clusterconfig.hpp:283`): of several operators without followers, those that are no
  index of the topology are stored, that is, the last one listed.
* `DynamicEngine!ReturnsNextEvent` (`pdevs_dynamic_runner.hpp:117`): the runner returns the time of the last
  event, not of the next one.
* `ThreadPool!EmptyAtEnd` (`concurrency_helpers.hpp:58`): the queue need not be empty when a nested loop ends.
* `ParallelLoop!EachOnceBySmallerTeam`: with fewer threads than asked for, the pieces of the missing ones are
  left out (`parallel_helpers.hpp:47`).
* `InputStream!PlaysTheFile` fails for files that end in a newline and have one or two lines: the empty input read
  after them is an event at an earlier time, and the time advance is negative.  A file that
  cannot be opened makes the loop of `iestream.hpp:142` run for ever.

Seen while modelling, and of no effect on a run: `cpu_parallel_for_each` divides by zero for no
threads; the constructor of a cell from a vector of neighbours iterates over its
still empty `neighborhood` (`cell.hpp:122`); `add_lattice` calls a member `get_states` that no scenario
has, and has no caller (`grid_coupled.hpp:81`); the vicinity that counts when two relative positions wrap to one cell is the
order of a hash map (`GridScenario` allows each).

## 4. The proofs

All proofs hold for every value of the constants that the named
assumptions allow.

* `TaskExecutionProofs!TypeCorrect`: `TypeOK`, in particular that no lapse
  is below zero.  The argument needs that the least lapse of the active subtasks exists
  and is subtracted only from lapses that are not less.
* `TaskExecutionProofs!Exclusive`: `SlotExclusive`, assuming that no two cores end at one
  instant (`~Ties`) or that there is one core.  Without that it is false (finding 1).
  `SlotExclusive` alone is not inductive: serving a freed slot's queue is safe only if nothing was
  scheduled on that slot since it was freed.  The invariant `ExclusiveInv` adds
  `FreedUnused`: at most one slot is being freed, it is unused until its queue is
  checked, and every pending is for a destination operator of the one that ended,
  which is never that operator itself (`ConstantsAssumption`: the job
  graph has no self loop).  One step per action, one lemma per method of the task manager.
* `TaskExecutionProofs!NoStranded`: `NoStrandedTuple`, with ties or without.  The invariant
  `StrandInv` adds that a slot marked as in use has a prepared subtask; it
  is weaker than exact flags and survives ties.
* `TaskExecutionProofs!PendingCounts`: `PendingExact`, with ties or without.  The counter is the
  number of *places* of the buffers (pairs of a core and an index), a finite set that each method of
  the task manager extends by one or moves to one with one element less; types are all it needs.
* `QueueProofs!IndexCorrect`, `ActiveIsBusy`: the invariant `ActiveInv` joins the exactness of the
  indices, which makes the vector injective, with its range, and with the fact that
  the cores still to be ended by the loop are busy.
* `QueueProofs!PointerExact`, `CapacityBounded`: by arithmetic on head, size and
  capacity (`QueueInv`); the capacity at the start must be two at least, or growth by half is none.
* `QueueProofs!StorageCounted`: `SizesAgree`, the storage holds as many subtasks as the choice of a core and the
  loop of `terminateActiveExecutions` count, so that none is taken out of an empty storage.  It joins the two invariants above, each of
  which alone assumes it of the other component.
* `QueueProofs!PassivatesEmpty`, `OutputHasMessages`: with fewer nodes than the counter has
  values.  Counter, flags and buffers are related by `SwitchInv`.
* `QueueProofs!ImplementsQueue`, `QueueProofs!DeliversInOrder`: both implement
  `FifoQueues`, step by step.  Under the invariants above each action maps to a step of the abstract
  queues or to a stutter: compacting and growing change nothing of the live elements, an output takes
  the front of the queues of the nodes it serves (`OutputServes`), an arrival joins one behind
  (`DataLemmas!Concatenated`, `AppendedBehind`).
* `TaskExecutionProofs!ServedInOrder`: `ServesInOrder`, under the assumption of `Exclusive`.  The queue of a
  slot is the message of its subtask and then those queued (`Line`).  `OneAtATime` makes that message
  unique; `FreedUnused` and `NoStrandedTuple` say that a slot not in use has nothing queued
  except while it is due to be checked, so that a message scheduled on it joins behind nothing.  Each method
  of the task manager has one lemma that says what it does to a line.
* `StartupProofs!BalancedAlways`, `LocationsExactAlways`, `SpreadAlways`: for any number of nodes, operators
  and replicas.  The invariant `SpreadInv` relates the cursor to the nodes' slots and to the
  operator's locations so far: they are on consecutive nodes, the last of them the one before the
  cursor.
* `StartupProofs!RequestsOfLineAlways`, `NeverEarlyAlways`: for any workload and any times.  `RequestsInv` says that the requests to complete are those of
  the lines up to the present one, that the messages so far are at most these and more than those of the lines before; what the lines up to one
  demand is a recursive function, unfolded by `RequestsToLine`.  `TimesInv` says that no message was generated at a rate
  before its time and that the present line is never the last one, whose rate of zero stands for the end.  `StartupAssumption` excludes lines without requests: for one of these
  the producer generates a message all the same, and one less for the line after it.
* `StartupProofs!FiledUnderLineAlways`: for any workload by requests with a rate on every line (`StartupAssumption`: at a rate of zero the
  producer would never send again), any by time, and any lapses.  `FiledInv` says that the logger's index is that of the line, that nothing is captured beyond
  it, and that the rows of the lists, one after the other, are the captures so far (`Matches`).  The lists skip lines without
  rate, so that the index fits only because no such line is passed: `RatedIs` says that up to the first of these the
  lists are those of the lines.  That a capture appended to the list of the present line is appended to all the rows is
  `FlatGrows`, by unfolding the library's recursive function that joins them.
* `StartupProofs!ReadsTheJobAlways`: for files of any length.  `ConfigInv` has one part per file (`NamesInv`, `StageInv`,
  `LinksInv`, `FactorsInv`, `LoadsInv`, `EndsInv`), each of which says what is stored as a function of the lines
  read so far: a name has the index of the line that listed it, which needs that names are listed once; a factor is that of the last line
  that names its operator.
* `EngineProofs!NextIsKnownAlways`: for any tree (`TreeAssumption`: every model but the top one is below one other and there are no cycles),
  couplings and time advances.  `EngineInv` for the dynamic engine: between
  rounds each coordinator's next event is the least of those of its submodels; within a round this is so for a coordinator that
  is done, its submodels are then done too, and no model is due before the runner's time.  `StaticInv` for the static one.
* `EngineProofs!BoxesEmptiedAlways`: `BoxInv` says that inboxes are filled only while the simulation advances, that a model
  that has begun to advance has put its outputs away and one that is done its inputs, and that no submodel
  begins before its coordinator, whose routing may still fill its inbox; the order of the calls is free otherwise.
* `EngineProofs!EachCalledOnceAlways`: for any number of threads and elements.  `PoolInv`: the engines below one that have begun
  are exactly those it has submitted, since the engines of the pool are a tree (`PoolAssumption`); none is twice in the queue or on the
  stacks, and one that is ready has all below it ready.  `LoopInv` says where in its piece each thread is and that an element was called exactly if a thread
  has passed it; the pieces cover the elements and do not overlap by the lemmas on their bounds.
* `EngineProofs!StaticImplementsFlatAlways`: the static engine implements `FlatEngine` for any tree of models, any couplings, several links
  into one port included, and any time advances.  Each call of the runner maps to a step of `FlatEngine` or a stutter (`StartIsTick`,
  `CollectIsSend`, `AdvanceIsTransition`, `FinishIsFinish`).  `FlatOut` and `FlatIn`, what comes out of and into a model of the flat
  network, are recursive up and down the tree: the value for a model depends only on models of a lower rank, so that both have
  a value (`RankedRecursion`), which satisfies the recursion (`FlatOutValue`, `FlatInValue`).  `CollectedAreFlat` and `RoutedAreFlat` say that what the coordinators
  collect and route, level by level, are these values.  A coordinator calls only what is imminent or has
  received something: it loses nothing, because nothing comes out of a model that is not imminent (`Silent`) and all models above
  one that is are called (`ImminentCalled`).  `FlatBoxes` is the invariant: what the boxes hold between two calls
  of the runner, and that at the end of a round no due transition is left.  `StaticCouplingAssumption`: links join ports that exist, since
  `get_messages` does not compile for others (`pdevs_engine_helpers.hpp:149`).
* `EngineProofs!DynamicImplementsFlatAlways`: the dynamic engine implements `FlatEngine` for any tree of models, any time advances, any
  order of the calls on submodels and any couplings that satisfy `OneLinkPerPort`, which the theorem has as its hypothesis, since it is false
  without (finding 4); TLC evaluates it for the couplings of `engines` (`LinkAssumption`).  That `IC` and `EOC` join ports that exist is
  again `StaticCouplingAssumption`.  Where ports have one link, the new bag of a link
  takes the place of none (`RoutedValue`), and the sum in `FlatOut` and `FlatIn` has one term (`EocValue`, `RoutedInValue`).  Here a round is many steps, in any
  order, so that the invariant speaks of what has been done so far: `Collecting`, that exactly the imminent models that are done have put out, and a
  coordinator that is done holds what its links took; `Moving`, that the outboxes of models not yet called, which their coordinators may
  still have to route, hold what comes out of them, the inboxes of those routed to what comes into them, and that a model that
  is done without having moved was not due.  Most calls are stutters; `CollectOutputs` is a `Send` of one model, `AdvanceSimulation` a `Transition`
  of one.  The step in between, `StartAdvance`, is where the boxes have to hold all of `FlatOut`: when the topmost coordinator is done
  every imminent model is (`AllSentOut`), and level by level what was collected is what the promise says (`SentIsFlat`); `RoutedDown` is the same for one
  coordinator's way down.
* `SimulationProofs!LapseIsLeastAlways`: for any cluster and job that `SimulationAssumption` and `JobAssumption`
  accept.  `LapseIsLeast` alone is not inductive: what a node asks for is the least lapse of its
  cores only as long as whatever it receives is for slots that are deployed on it.  `SimulationInv` therefore follows the messages: through
  the nodes' lists (`NodesGood`), the switch (`SwitchGood`), the wires (`WireGood`) and the producer (`ProducerGood`); `TimesGood`
  says that no model is past its next event, so that no lapse goes below zero.  Every operator
  of `Node`, `Switch` and `Producer` has a lemma, and the loops over lists, which are recursive
  functions, are unfolded by lemmas of their own.
* `SimulationProofs!ConservedAlways`: for any cluster and job, deployment, outcome of load balancing and times;
  `JobAssumption` says that operators and slots are finitely many, which the sums need.
  `Conserved` holds between rounds only: in the middle of one, what left a node or the switch is on the wires, and an
  imminent node's list for elsewhere is there and on the wire at once. `ConservedInv` therefore balances two books.
  `ConservedCollect` compares what all nodes and the switch hold (`HasAll`), and what was executed, with what is due (`DueBefore`).
  `ConservedAdvance` compares the same with the wires added and the lists already sent left out (`Stock`), where
  the ends of this round count as due before they count as executed (`DueNow`). Three facts make the books close:
  only the master sends on for the producer (`OnlyMasterSendsOn`; a node with such a list ends nothing in that round), a node
  receives one message at most in a round (`WireShort`; `Node` reads the first only), and the producer sends no
  message twice (`SentFresh`). Each operator of `TaskManager`, `Node` and the wires has a lemma that says what it does to the number of
  copies; `AdvanceNode` and `CollectNode` add them up for one node, and the lemmas on sums in `DataLemmas` for all nodes.
  `NodesToSwitchCount` is the exchange of two sums: what the nodes send by sender is what the switch receives by receiver.
* `ModelsProofs!CellsTransmitChangesAlways`: for any cells, states, computations and delays and any of the three buffers; `CellAssumption`
  says what these constants are.  What a cell transmits is chosen when its state changes and happens when the buffer gives it
  up, with changes of other times between. `Tally` keeps the book for every moment (a time and a state): transmissions so far plus entries still in the
  buffer for it are the changes for it that last.  A change that is added replaces entries of the buffer and,
  in the same numbers, changes that lasted (`OKAfter`); one lemma per buffer shows which.  The buffers themselves need
  `BufferOK`: a hybrid one is ascending, so that its front is the least time.
* `ModelsProofs!CellsKnowEachOtherAlways`: for cells that listen to one other at most (`HearsOne`, as in the run `models`).  It is false for more
  (finding 4).  `KnowsInv` joins the above with the fact that the bag a cell receives is what its neighbor, and nobody else, put out.
* `ModelsProofs!CouplesAsDeclaredAlways`: for any lists of submodels, ports and couplings; `ModelsAssumption` says only which fields these
  have.  `ConstructionInv` has one part for each stage that was passed.  A static model's submodels come out in any order, so that
  the engine of an id is known by its id only: that there is exactly one follows from counting (`InjectsLen`), if the declared
  ids are distinct.  That the checks of the dynamic model pass exactly for couplings that lead somewhere (`ValidIs`) makes every lookup of
  an engine succeed.

* `ModelsProofs!PlaysTheFileAlways`: for files of any number of lines that are `Readable`, with any number of them for one
  instant (`ModelsAssumption`: a time is below `Infinity`).  `StreamInv` says that the model holds exactly the lines for its next
  instant, which follow those it has played (`Ahead`), and has read the one after them or met the end (`ReadAfter`), until
  all are played (`Over`).  What is read after the last line and its newline has the time 0 and is
  discarded as over: for that a file with a newline must have gone on after the start.  The loop that joins the lines of one instant is a
  recursive function, unfolded by `JoinOne` and `JoinAll`.
* `ModelsProofs!SumsAreExactAlways`: in the static engine, which joins the messages of several links (`StaticImplementsFlatAlways`),
  for any finite sets of generators of values and of resets, any periods and values
  (`BasicAssumption`).  `BasicInv` says that at the time of the last round each generator has output as often as its
  period fits (`ClockIs`, with `DivNext`), that both accumulators are on reset together (`PhaseIs`), and that the accumulated
  value is that of the values since the last sum (`ValuesAre`).  `WhoIsDue` distinguishes three kinds of rounds; sums over
  two spans of time are joined by `SumPlus`.
* `ModelsProofs!LinkedWithinRangeAlways`, `VicinityOfLastAlways`, `DistancesAreMetricsAlways`: for lattices of any number of dimensions and
  any sizes, wrapped or not, any lists of entries and any other configurations (`GridAssumption`: sizes are at least one, ranges are not
  negative).  In one dimension, `Along` is the way from one index to another and `Arrive` the way back; around the edge both are
  remainders (`ArriveIs`, `AlongArrives`, `ArriveAlong`, `AlongTriangle`).  Distances are sums and maxima of these
  (`ManhattanIs`, `ChebyshevIs`, `EuclideanIs`, `Norms`).  `Before` orders the cells by the last index that differs; `next_cell` gives the
  successor in that order (`NextIs`), so that the loop of `biassed_moore_neighborhood` ends after as many steps as there are cells
  (`GoesOver`) and has then seen each (`AllGoneThrough`).  Hence what a Moore and a von Neumann neighbourhood contain
  (`MooreIs`, `VonNeumannIs`) and what a list of entries means (`ParseIs`).  `GridInv` says of each stage which cells are
  configured (in the first, those before the present one), which of them have the default configuration, and that a cell that was added
  has a map that its configuration allows.

Only model-checked:

* liveness (`AllExecuted`, `EveryMessageLeaves`, `RoundsAndLoopsEnd`), since `ENABLED` and fairness are out of the prover's reach;
* `SlavesRunTheirTime`, which holds for the job of the run but, as said above, not for every job.

`TiedNoneStranded` and `LongServesInOrder` state properties of other instances of `TaskExecution`; `NoStranded`, `PendingCounts` and
`ServedInOrder` prove these for all instances.

## 5. Not modelled

* Sampling of distributions, the state logs of the models, Cadmium's loggers: formatting, or any value of a set.
* In the metrics logger the computing of throughput and utilization and the layout of the files.
* The two configuration files that hold single values (hardware, degradation): constants of the other modules.
* JSON: scenarios are records.  `add_cells_json`, for cells without a lattice, lists its
  neighbourhoods instead of computing them.
* Messages of cells and their hash; types of message bags and boxes; compile-time checks, which have no
  state (those of coupled models are called by nothing).
* Models of classic DEVS: the repository has no engine that runs them.
* Translation of nested coupled models is modelled for one level of the recursion.
* Scripts and plots.

Crash, restart and lost messages are absent because the program knows none of them: everything is in the
memory of one process, and a simulated channel loses nothing.
