----------------------------- MODULE Simulation -----------------------------
(***************************************************************************)
(* The whole simulated cluster: the producer, the nodes (node 0 is the     *)
(* master) and the switch, coupled as in test/system/main.cpp and driven   *)
(* by the rounds of the engine's runner.  A round first collects the       *)
(* outputs of the models whose time advance is over, then makes every      *)
(* model that is imminent or has received something take its transition,   *)
(* in the order producer, nodes, switch.  A transition may read the state  *)
(* of models that take theirs later.                                       *)
(*                                                                         *)
(* Time is relative: each model has the time since its last transition.    *)
(* The producer's clock is left out: without dynamic metrics nothing reads *)
(* it.  The hierarchy of coordinators is DynamicEngine.                     *)
(***************************************************************************)
EXTENDS Node

CONSTANTS
  Workload,     \* lines of the workload, by number of requests
  CountMod,     \* values of the switch's counter
  Arrival,      \* lapses the producer may draw
  Lapse,        \* execution times a subtask may draw
  SwitchLapse   \* transmission times of the switch

VARIABLES
  phase,     \* "collect" or "advance": the call the runner makes next
  prod,      \* the producer
  nodes,     \* the nodes
  sw,        \* the switch
  elapsed,   \* time since each model's last transition; zero if passive
  wire,      \* what the outputs of this round put on the models' inputs
  draw,      \* the execution time of each message at each operator
  executed,  \* history: how often each operator has executed each message
  ran,       \* history: how long each core has run its active subtask
  sent       \* history: the requests the producer has sent

vars == <<phase, prod, nodes, sw, elapsed, wire, draw, executed, ran, sent>>

P  == INSTANCE Producer WITH ByTime <- FALSE, Dynamic <- FALSE, StepTime <- 1
Sw == INSTANCE Switch WITH Node <- NodeId

Master    == 0
ProducerM == -1
SwitchM   == NNodes
Model     == NodeId \cup {ProducerM, SwitchM}

(* The messages that the producer sends for the first l lines of the          *)
(* workload: of each line its requests, and at least one.                     *)
Sends[l \in 0 .. Len(Workload)] ==
  IF l = 0 THEN 0 ELSE Sends[l - 1] + IF Workload[l].first = 0 THEN 1 ELSE Workload[l].first

ASSUME SimulationAssumption ==
  /\ P!ProducerAssumption
  /\ Infinity \in Nat
  /\ Arrival \subseteq Nat /\ Lapse \subseteq Nat /\ SwitchLapse \subseteq Nat
  /\ \A l \in 1 .. Len(Workload) : 1 .. Sends[l] \subseteq Mssg

TimeAdvanceOf(m) ==
  CASE m = ProducerM -> P!Period(prod)
    [] m = SwitchM   -> IF sw.transmitting THEN sw.send_time ELSE Infinity
    [] OTHER         -> TimeAdvance(nodes[m])

Left(m) == IF TimeAdvanceOf(m) = Infinity THEN Infinity ELSE TimeAdvanceOf(m) - elapsed[m]

(* The time to the next event of the simulation, and who has it. *)
ToNext == CHOOSE t \in {Left(m) : m \in Model} : \A m \in Model : t <= Left(m)
Imminent == {m \in Model : Left(m) = ToNext /\ ToNext # Infinity}

TaskManagers(nds) == [n \in NodeId |-> nds[n].tm]

NoWire == [prod |-> <<>>, node |-> [n \in NodeId |-> <<>>], sw |-> [n \in NodeId |-> <<>>]]

WithoutClock(p) == [p EXCEPT !.now = 0]
-----------------------------------------------------------------------------
Init ==
  /\ phase = "collect"
  /\ prod = P!NewProducer
  /\ nodes = [n \in NodeId |-> NewNode]
  /\ sw = Sw!NewSwitch
  /\ elapsed = [m \in Model |-> 0]
  /\ wire = NoWire
  /\ draw \in [Mssg -> [Oper -> Lapse]]
  /\ executed = [m \in Mssg |-> [o \in Oper |-> 0]]
  /\ ran = [n \in NodeId |-> [c \in Core |-> 0]]
  /\ sent = {}

(* The outputs a node may have, as located messages. *)
Output(n) ==
  IF nodes[n].extern_locations # <<>>
  THEN {nodes[n].extern_locations}
  ELSE NextOperatorDestinations(TaskManagers(nodes), n)

(* The couplings: the producer's port leads through that of the cluster to    *)
(* the master, every node has a port of the switch for what it sends and one  *)
(* for what it receives.  The switch sorts the nodes' bags by destination.    *)
ProducerToMaster == IF ProducerM \in Imminent THEN <<prod.mssg>> ELSE <<>>

SwitchToNodes ==
  [n \in NodeId |-> IF SwitchM \in Imminent /\ n \in sw.active THEN <<Sw!Emitted(sw)[n]>> ELSE <<>>]

NodesToSwitch(bags) ==
  LET all == Together([i \in 1 .. NNodes |-> bags[i - 1]])
  IN  [d \in NodeId |-> ForNodes(all, {d})]

(* The clock moves to the next event, and imminent models give their output. *)
Collect(out) ==
  LET now   == ToNext
      nodesNow == Imminent \cap NodeId
      bags  == [n \in NodeId |-> IF n \in nodesNow THEN ToSwitch(n, out[n]) ELSE <<>>]
      emits == SwitchM \in Imminent
  IN
  /\ phase = "collect"
  /\ ToNext # Infinity
  /\ phase' = "advance"
  /\ wire' = [ prod |-> ProducerToMaster, node |-> SwitchToNodes, sw |-> NodesToSwitch(bags) ]
  /\ nodes' = [n \in NodeId |-> IF n \in nodesNow THEN LeftPending(nodes[n], n, out[n])
                                ELSE nodes[n]]
  /\ sw' = IF emits THEN Sw!AfterOutput(sw) ELSE sw
  /\ elapsed' = [m \in Model |-> IF TimeAdvanceOf(m) = Infinity THEN 0 ELSE elapsed[m] + now]
  /\ ran' = [n \in NodeId |-> [c \in Core |->
               IF c \in Busy(nodes[n].tm) THEN ran[n][c] + now ELSE 0]]
  /\ sent' = sent \cup (IF ProducerM \in Imminent THEN {prod.mssg} \ {0} ELSE {})
  /\ UNCHANGED <<prod, draw, executed>>

-----------------------------------------------------------------------------
(* What a node is called with in the second half of a round. *)
Inbox(n) == wire.node[n]
Receives(m) ==
  CASE m = ProducerM -> FALSE
    [] m = SwitchM   -> \E n \in NodeId : wire.sw[n] # <<>>
    [] OTHER         -> Inbox(m) # <<>> \/ (m = Master /\ wire.prod # <<>>)

(* The producer is given the cluster's models, and asks them for their time   *)
(* advance before they take their transition.                                 *)
ReceivedModels == Model \ {ProducerM}
MinAdvanceTime ==
  CHOOSE t \in {TimeAdvanceOf(m) : m \in ReceivedModels} :
    \A m \in ReceivedModels : t <= TimeAdvanceOf(m)

(* A node after its internal transition, if it is imminent. *)
AfterInternal(n, imminent) ==
  CASE n \notin imminent              -> nodes[n]
    [] n \in imminent /\ n = Master   -> MasterInternal(nodes[n], n, draw)
    [] n \in imminent /\ n # Master   -> NodeInternal(nodes[n], n, draw)

(* The slots that load balancing reads for the producer's message: the        *)
(* master's after its internal transition, the others' before theirs.         *)
Balancing(imminent) ==
  TaskManagers([nodes EXCEPT ![Master] = AfterInternal(Master, imminent)])

AfterTransition(n, imminent, loc) ==
  LET nd == AfterInternal(n, imminent)
      e  == IF n \in imminent THEN 0 ELSE elapsed[n]
  IN  CASE ~Receives(n)                -> nd
        [] Receives(n) /\ n = Master   -> MasterExternal(nd, n, e, wire.prod, loc, Inbox(n), draw)
        [] Receives(n) /\ n # Master   -> NodeExternal(nd, e, Inbox(n), draw)

SwitchAfter(imminent, lapse, lapse2) ==
  CASE SwitchM \in imminent /\ Receives(SwitchM)    -> Sw!ConfluenceTransition(sw, wire.sw, lapse, lapse2)
    [] SwitchM \in imminent /\ ~Receives(SwitchM)   -> Sw!InternalTransition(sw, lapse)
    [] SwitchM \notin imminent /\ Receives(SwitchM) -> Sw!ExternalTransition(sw, wire.sw, elapsed[SwitchM], lapse)
    [] OTHER -> sw

(* The cores whose active subtask ends on a node in this round. *)
Ending(n, imminent) ==
  IF n \in imminent /\ nodes[n].extern_locations = <<>> THEN Finishing(nodes[n].tm) ELSE {}

Ends(n, imminent, m, o) ==
  Cardinality({c \in Ending(n, imminent) :
    LET a == ActiveOn(nodes[n].tm, c) IN a.mssg = m /\ OperatorAt(n, a.slot) = o})

(* The models that take a transition, which starts a new period of time for   *)
(* them.                                                                      *)
Transitions(imminent) == imminent \cup {m \in Model : Receives(m)}

(* Every model that is imminent or has received something, in order. *)
Advance(arrival, loc, lapse, lapse2) ==
  LET imminent == {m \in Model : Left(m) = 0}
      moved    == Transitions(imminent)
  IN
  /\ phase = "advance"
  /\ loc \in OperLocationLessload(Balancing(imminent), First)
  /\ phase' = "collect"
  /\ prod' = IF ProducerM \in imminent
             THEN WithoutClock(P!ProducerInternal(prod, MinAdvanceTime, arrival)) ELSE prod
  /\ nodes' = [n \in NodeId |-> AfterTransition(n, imminent, loc)]
  /\ sw' = SwitchAfter(imminent, lapse, lapse2)
  /\ elapsed' = [m \in Model |-> IF m \in moved THEN 0 ELSE elapsed[m]]
  /\ wire' = NoWire
  /\ executed' = [m \in Mssg |-> [o \in Oper |->
        executed[m][o] + SumFunction([n \in NodeId |-> Ends(n, imminent, m, o)])]]
  /\ ran' = [n \in NodeId |-> [c \in Core |-> IF c \in Ending(n, imminent) THEN 0 ELSE ran[n][c]]]
  /\ UNCHANGED <<draw, sent>>

CollectOutputs ==
  \E out \in {f \in [Imminent \cap NodeId -> UNION {Output(n) : n \in Imminent \cap NodeId}] :
                \A n \in DOMAIN f : f[n] \in Output(n)} : Collect(out)

AdvanceSimulation ==
  \E arrival \in Arrival, loc \in Locations[First], lapse, lapse2 \in SwitchLapse :
     Advance(arrival, loc, lapse, lapse2)

Next == CollectOutputs \/ AdvanceSimulation

(***************************************************************************)
(* The runner makes the next call as long as there is an event: the loop   *)
(* is sequential and nothing in it waits.  Every step of Next is a Call,   *)
(* and Next allows a step whenever Call is enabled, so this is the weak    *)
(* fairness of Next with a guard that is cheap to evaluate.                *)
(***************************************************************************)
Call ==
  /\ phase = "advance" \/ ToNext # Infinity
  /\ phase' \in {"collect", "advance"} \ {phase}

Fairness == WF_phase(Call)

Spec == Init /\ [][Next]_vars

FairSpec == Spec /\ Fairness
-----------------------------------------------------------------------------
(* A busy node's time advance is the least lapse of its active subtasks       *)
(* (unless the master has to send at once): it is never late for an end, and  *)
(* its output finds the subtasks that end.  No model's event is left behind   *)
(* the clock.                                                                 *)
LapseIsLeast ==
  phase = "collect" =>
    /\ \A m \in Model : Left(m) >= 0
    /\ \A n \in NodeId :
         /\ Busy(nodes[n].tm) # {} => nodes[n].processing
         /\ Busy(nodes[n].tm) # {} /\ nodes[n].extern_locations = <<>> =>
              nodes[n].lapse_time = LessExecTime(nodes[n].tm)

(* A core runs each subtask for the time that was drawn for it.               *)
RunsItsTime(n) ==
  \A c \in Busy(nodes[n].tm) :
    LET a == ActiveOn(nodes[n].tm, c)
    IN  ran[n][c] + a.lapse - elapsed[n] = draw[a.mssg][OperatorAt(n, a.slot)]

SlavesRunTheirTime == \A n \in NodeId \ {Master} : RunsItsTime(n)

(* So does the master, also while it sends on what the producer sent.         *)
MasterRunsItsTime == RunsItsTime(Master)

(* How many elements of a sequence are in a set.                              *)
Count(q, S) == Cardinality({i \in DOMAIN q : q[i] \in S})

(* The copies of a message that wait or run on some slots of a node.          *)
CopiesAt(tm, m, slots) ==
  LET prepared == {x \in SubtaskType : x.mssg = m /\ x.slot \in slots}
  IN  SumFunction([c \in Core |-> Count(tm.bufs[c], prepared)])
      + SumFunction([s \in slots |-> Count(tm.tuples[s], {m})])

SlotsOf(n, o) == {s \in Slot : Location(n, s) \in Locations[o]}

(* The located messages that bring a message to an operator.                  *)
Bringing(m, o) ==
  {x \in [node : NodeId, slot : Slot, mssg : {m}] : Location(x.node, x.slot) \in Locations[o]}

(* The copies of a message for an operator, on a node or on its way there.   *)
CopiesOn(n, m, o) ==
  CopiesAt(nodes[n].tm, m, SlotsOf(n, o))
  + Count(nodes[n].internal_pendings, Bringing(m, o))
  + Count(nodes[n].extern_locations, Bringing(m, o))
  + Count(sw.buffers[n], Bringing(m, o))

Copies(m, o) == SumFunction([n \in NodeId |-> CopiesOn(n, m, o)])

(* The times that a message was sent to an operator: once by the producer,    *)
(* and with each end of an operator before it.                                *)
Arrivals(m, o) ==
  (IF o = First /\ m \in sent THEN 1 ELSE 0)
  + SumFunction([p \in Oper \ EndOps |-> executed[m][p] * Count(Dest[p], {o})])

MayLose(o) == \E p \in Selective : Count(Dest[p], {o}) > 0

(* Every message sent to an operator is in one place until the operator has  *)
(* executed it, and then there is one of it for each destination: no          *)
(* transition of the nodes and the switch, and no coupling between them,      *)
(* loses one or takes one twice, wherever load balancing sends it.            *)
Conserved ==
  phase = "collect" =>
    \A m \in Mssg, o \in Oper :
      IF MayLose(o)
      THEN Copies(m, o) + executed[m][o] <= Arrivals(m, o)
      ELSE Copies(m, o) + executed[m][o] = Arrivals(m, o)

ExecutedLast(m) == \E o \in EndOps : executed[m][o] > 0

(* "Run the simulation until all models are passivated" (main.cpp, line 220): *)
(* every request is executed to the end.                                      *)
AllExecuted == \A m \in Mssg : m \in sent ~> ExecutedLast(m)

(* "All models has finished? Terminate too." (producer.hpp, line 183).        *)
TerminatesLast == ~prod.generating => \A m \in sent : ExecutedLast(m)

(* The simulation ends.                                                       *)
Passivates == <>(ToNext = Infinity)

(* "Load balancing: find less congested location" (jobmanager.cpp, line 8).   *)
ChoosesLessCongested ==
  \A o \in Oper : OperLocationLessload(TaskManagers(nodes), o)
                     \subseteq ShorterQueue(TaskManagers(nodes), Locations[o])
=============================================================================
