-------------------------- MODULE SimulationProofs --------------------------
(***************************************************************************)
(* Theorems about Simulation, for any number of nodes, cores and slots,    *)
(* any job and deployment, any workload and any times.                     *)
(* LapseIsLeast follows from SimulationInv: the types of the nodes, of the *)
(* wires and of the times, with each task manager's invariant.  Conserved  *)
(* follows from ConservedInv, which accounts for every copy of a message   *)
(* between two rounds and in the middle of one.                            *)
(***************************************************************************)
EXTENDS Simulation, TaskManagerProofs

(* The slots of node n that an operator was deployed to, and the located      *)
(* messages that are for that node, and for any.                              *)
Deployed(n) == {s \in Slot : \E o \in Oper : Location(n, s) \in Locations[o]}

MssgFor(n) == [node : {n}, slot : Deployed(n), mssg : Mssg]

Located == UNION {MssgFor(n) : n \in NodeId}

DrawOK(d) == d \in [Mssg -> [Oper -> Lapse]]

LEMMA DeployedOperator ==
  ASSUME NEW n, NEW s \in Deployed(n)
  PROVE  OperatorAt(n, s) \in Oper
BY DEF Deployed, OperatorAt

LEMMA MessageForLocation ==
  ASSUME NEW o \in Oper, NEW loc \in Locations[o], NEW m \in Mssg
  PROVE  /\ loc.node \in NodeId
         /\ LocatedMssg(loc, m) \in MssgFor(loc.node)
         /\ LocatedMssg(loc, m) \in Located
         /\ LocatedMssg(loc, m).node = loc.node
<1>1. loc \in [node : NodeId, slot : Slot]
  BY JobAssumption
<1>2. loc = Location(loc.node, loc.slot)
  BY <1>1 DEF Location
<1>3. loc.slot \in Deployed(loc.node)
  BY <1>1, <1>2 DEF Deployed
<1>4. QED
  BY <1>1, <1>3 DEF LocatedMssg, MssgFor, Located

-----------------------------------------------------------------------------
(* A node schedules the messages that are for it, one after the other, and   *)
(* serves the queues of its slots.                                            *)
LEMMA ScheduleManager ==
  ASSUME NEW n, NEW t \in Manager(Deployed(n)), NEW x \in MssgFor(n), NEW d, DrawOK(d)
  PROVE  Schedule(t, x, d) \in Manager(Deployed(n))
<1>1. x.node = n /\ x.slot \in Deployed(n) /\ x.mssg \in Mssg
  BY DEF MssgFor
<1>2. OperatorAt(n, x.slot) \in Oper
  BY <1>1, DeployedOperator
<1>3. d[x.mssg][OperatorAt(n, x.slot)] \in Nat
  BY <1>1, <1>2, SimulationAssumption DEF DrawOK
<1>4. Deployed(n) \in SUBSET Slot
  BY DEF Deployed
<1>5. QED
  BY <1>1, <1>3, <1>4, ScheduleExecManager DEF Schedule

Scheduling(after, n, t, locs, d) ==
  /\ after[0] = t
  /\ \A k \in 1 .. Len(locs) : after[k] = Schedule(after[k - 1], locs[k], d)
  /\ \A k \in 0 .. Len(locs) : after[k] \in Manager(Deployed(n))
  /\ SchedulePendings(t, locs, d) = after[Len(locs)]

LEMMA SchedulePendingsSteps ==
  ASSUME NEW n, NEW t \in Manager(Deployed(n)), NEW locs \in Seq(MssgFor(n)), NEW d, DrawOK(d)
  PROVE  \E after : Scheduling(after, n, t, locs, d)
<1> DEFINE S == Manager(Deployed(n))
           N == Len(locs)
           F == [k \in 1 .. N |-> [u \in S |-> Schedule(u, locs[k], d)]]
           Step(f) == [k \in 0 .. N |-> IF k = 0 THEN t ELSE Schedule(f[k - 1], locs[k], d)]
           after == CHOOSE f : f = Step(f)
<1>1. N \in Nat /\ \A k \in 1 .. N : locs[k] \in MssgFor(n)
  OBVIOUS
<1>2. \A k \in 1 .. N : \A u \in S : Schedule(u, locs[k], d) \in S
  BY <1>1, ScheduleManager
<1>3. F \in [1 .. N -> [S -> S]]
  BY <1>2
<1>4. SchedulePendings(t, locs, d) = after[N]
  BY DEF SchedulePendings
<1> HIDE DEF N, S
<1>5. \E f : f = Step(f)
  <2>1. F \in [1 .. N -> [S -> S]] /\ t \in S
    BY <1>3 DEF S
  <2>2. PICK r \in [0 .. N -> S] : Steps(r, t, F, N)
    <3> HIDE DEF F
    <3>1. QED
      BY <1>1, <2>1, RecursionExists
  <2>3. ASSUME NEW k \in 0 .. N
        PROVE  r[k] = Step(r)[k]
    <3>1. CASE k = 0
      BY <2>2, <3>1 DEF Steps
    <3>2. CASE k # 0
      <4>1. k \in 1 .. N /\ k - 1 \in 0 .. N
        BY <1>1, <3>2
      <4>2. r[k] = F[k][r[k - 1]] /\ r[k - 1] \in S
        BY <2>2, <4>1 DEF Steps
      <4>3. QED
        BY <3>2, <4>1, <4>2
    <3>3. QED
      BY <3>1, <3>2
  <2>4. r = Step(r)
    BY <2>2, <2>3
  <2>5. QED
    BY <2>4
<1>6. after = Step(after)
  BY <1>5
<1> HIDE DEF after
<1>7. \A k \in 0 .. N : after[k] \in S
  <2>1. after[0] \in S
    BY <1>1, <1>6 DEF S
  <2>2. \A k \in 1 .. N : after[k - 1] \in S => after[k] \in S
    <3>1. \A k \in 1 .. N : k \in 0 .. N /\ k # 0
      BY <1>1
    <3>2. QED
      BY <1>2, <1>6, <3>1
  <2>3. QED
    BY <1>1, <2>1, <2>2, StaysIn
<1>8. after[0] = t /\ \A k \in 1 .. N : after[k] = Schedule(after[k - 1], locs[k], d)
  <2>1. 0 \in 0 .. N /\ \A k \in 1 .. N : k \in 0 .. N /\ k # 0
    BY <1>1
  <2>2. QED
    BY <1>6, <2>1
<1>9. QED
  BY <1>4, <1>7, <1>8 DEF S, N, Scheduling

LEMMA SchedulePendingsManager ==
  ASSUME NEW n, NEW t \in Manager(Deployed(n)), NEW locs \in Seq(MssgFor(n)), NEW d, DrawOK(d)
  PROVE  SchedulePendings(t, locs, d) \in Manager(Deployed(n))
<1>1. Len(locs) \in 0 .. Len(locs)
  OBVIOUS
<1>2. QED
  BY <1>1, SchedulePendingsSteps DEF Scheduling

(* The message at the head of a queue is for an operator on this node, so a  *)
(* time was drawn for it.                                                     *)
LEMMA CheckSlotManager ==
  ASSUME NEW n, NEW t \in Manager(Deployed(n)), NEW s \in Slot \cup {NoSlot}, NEW d, DrawOK(d)
  PROVE  CheckSlot(t, s, n, d) \in Manager(Deployed(n))
<1>1. CASE s = NoSlot
  BY <1>1 DEF CheckSlot
<1>2. CASE s # NoSlot
  <2> DEFINE l == d[Head(t.tuples[s])][OperatorAt(n, s)]
  <2>1. s \in Slot /\ t \in TaskManagerType /\ OnSlots(t, Deployed(n))
    BY <1>2 DEF Manager
  <2>2. ASSUME t.tuples[s] # <<>>
        PROVE  l \in Nat
    <3>1. Head(t.tuples[s]) \in Mssg
      BY <2>1, <2>2 DEF TaskManagerType
    <3>2. OperatorAt(n, s) \in Oper
      BY <2>1, <2>2, DeployedOperator DEF OnSlots
    <3>3. QED
      BY <3>1, <3>2, SimulationAssumption DEF DrawOK
  <2>3. CheckSlot(t, s, n, d) = CheckQueuedExecution(t, s, l)
    BY <1>2 DEF CheckSlot
  <2>4. Deployed(n) \in SUBSET Slot
    BY DEF Deployed
  <2> HIDE DEF l
  <2>5. QED
    BY <2>1, <2>2, <2>3, <2>4, CheckQueuedExecutionManager
<1>3. QED
  BY <1>1, <1>2

Checking(after, n, t, used, d) ==
  /\ after[0] = t
  /\ \A k \in 1 .. NCores : after[k] = CheckSlot(after[k - 1], used[k - 1], n, d)
  /\ \A k \in 0 .. NCores : after[k] \in Manager(Deployed(n))
  /\ CheckQueued(t, used, n, d) = after[NCores]

LEMMA CheckQueuedSteps ==
  ASSUME NEW n, NEW t \in Manager(Deployed(n)), NEW used \in [Core -> Slot \cup {NoSlot}],
         NEW d, DrawOK(d)
  PROVE  \E after : Checking(after, n, t, used, d)
<1> DEFINE S == Manager(Deployed(n))
           F == [k \in 1 .. NCores |-> [u \in S |-> CheckSlot(u, used[k - 1], n, d)]]
           Step(f) == [k \in 0 .. NCores |->
                         IF k = 0 THEN t ELSE CheckSlot(f[k - 1], used[k - 1], n, d)]
           after == CHOOSE f : f = Step(f)
<1>1. NCores \in Nat /\ \A k \in 1 .. NCores : used[k - 1] \in Slot \cup {NoSlot}
  BY NCoresAssumption DEF Core
<1>2. \A k \in 1 .. NCores : \A u \in S : CheckSlot(u, used[k - 1], n, d) \in S
  BY <1>1, CheckSlotManager
<1>3. F \in [1 .. NCores -> [S -> S]]
  BY <1>2
<1>4. CheckQueued(t, used, n, d) = after[NCores]
  BY DEF CheckQueued
<1> HIDE DEF S
<1>5. \E f : f = Step(f)
  <2>1. F \in [1 .. NCores -> [S -> S]] /\ t \in S
    BY <1>3 DEF S
  <2>2. PICK r \in [0 .. NCores -> S] : Steps(r, t, F, NCores)
    <3> HIDE DEF F
    <3>1. QED
      BY <1>1, <2>1, RecursionExists
  <2>3. ASSUME NEW k \in 0 .. NCores
        PROVE  r[k] = Step(r)[k]
    <3>1. CASE k = 0
      BY <2>2, <3>1 DEF Steps
    <3>2. CASE k # 0
      <4>1. k \in 1 .. NCores /\ k - 1 \in 0 .. NCores
        BY <1>1, <3>2
      <4>2. r[k] = F[k][r[k - 1]] /\ r[k - 1] \in S
        BY <2>2, <4>1 DEF Steps
      <4>3. QED
        BY <3>2, <4>1, <4>2
    <3>3. QED
      BY <3>1, <3>2
  <2>4. r = Step(r)
    BY <2>2, <2>3
  <2>5. QED
    BY <2>4
<1>6. after = Step(after)
  BY <1>5
<1> HIDE DEF after
<1>7. \A k \in 0 .. NCores : after[k] \in S
  <2>1. after[0] \in S
    BY <1>1, <1>6 DEF S
  <2>2. \A k \in 1 .. NCores : after[k - 1] \in S => after[k] \in S
    <3>1. \A k \in 1 .. NCores : k \in 0 .. NCores /\ k # 0
      BY <1>1
    <3>2. QED
      BY <1>2, <1>6, <3>1
  <2>3. QED
    BY <1>1, <2>1, <2>2, StaysIn
<1>8. after[0] = t /\ \A k \in 1 .. NCores : after[k] = CheckSlot(after[k - 1], used[k - 1], n, d)
  <2>1. 0 \in 0 .. NCores /\ \A k \in 1 .. NCores : k \in 0 .. NCores /\ k # 0
    BY <1>1
  <2>2. QED
    BY <1>6, <2>1
<1>9. QED
  BY <1>4, <1>7, <1>8 DEF S, Checking

LEMMA CheckQueuedManager ==
  ASSUME NEW n, NEW t \in Manager(Deployed(n)), NEW used \in [Core -> Slot \cup {NoSlot}],
         NEW d, DrawOK(d)
  PROVE  CheckQueued(t, used, n, d) \in Manager(Deployed(n))
<1>1. NCores \in 0 .. NCores
  BY NCoresAssumption
<1>2. QED
  BY <1>1, CheckQueuedSteps DEF Checking
-----------------------------------------------------------------------------
(* What the couplings make of sequences of located messages. *)
Keeping(kept, locs, ns, T) ==
  /\ kept[0] = <<>>
  /\ \A k \in 1 .. Len(locs) :
       kept[k] = kept[k - 1] \o (IF locs[k].node \in ns THEN <<locs[k]>> ELSE <<>>)
  /\ \A k \in 0 .. Len(locs) : kept[k] \in Seq(T)
  /\ ForNodes(locs, ns) = kept[Len(locs)]

LEMMA ForNodesSteps ==
  ASSUME NEW S, NEW T, NEW ns, NEW locs \in Seq(S), \A x \in S : x.node \in ns => x \in T
  PROVE  \E kept : Keeping(kept, locs, ns, T)
<1> DEFINE N == Len(locs)
           Q == Seq(T)
           Add(q, k) == q \o (IF locs[k].node \in ns THEN <<locs[k]>> ELSE <<>>)
           F == [k \in 1 .. N |-> [q \in Q |-> Add(q, k)]]
           Step(f) == [k \in 0 .. N |-> IF k = 0 THEN <<>> ELSE Add(f[k - 1], k)]
           kept == CHOOSE f : f = Step(f)
<1>1. N \in Nat /\ <<>> \in Q
  OBVIOUS
<1>2. \A k \in 1 .. N : \A q \in Q : Add(q, k) \in Q
  <2>1. ASSUME NEW k \in 1 .. N, NEW q \in Q
        PROVE  Add(q, k) \in Q
    <3>1. locs[k] \in S
      OBVIOUS
    <3>2. CASE locs[k].node \in ns
      <4>1. locs[k] \in T
        BY <3>1, <3>2
      <4>2. QED
        BY <3>2, <4>1
    <3>3. CASE locs[k].node \notin ns
      BY <3>3
    <3>4. QED
      BY <3>2, <3>3
  <2>2. QED
    BY <2>1
<1>3. F \in [1 .. N -> [Q -> Q]]
  <2> HIDE DEF Add, Q, N
  <2>1. QED
    BY <1>2
<1>4. ForNodes(locs, ns) = kept[N]
  BY DEF ForNodes
<1> HIDE DEF N, Q, Add
<1>5. \E f : f = Step(f)
  <2>1. PICK r \in [0 .. N -> Q] : Steps(r, <<>>, F, N)
    <3> HIDE DEF F
    <3>1. QED
      BY <1>1, <1>3, RecursionExists
  <2>2. ASSUME NEW k \in 0 .. N
        PROVE  r[k] = Step(r)[k]
    <3>1. CASE k = 0
      BY <2>1, <3>1 DEF Steps
    <3>2. CASE k # 0
      <4>1. k \in 1 .. N /\ k - 1 \in 0 .. N
        BY <1>1, <3>2
      <4>2. r[k] = F[k][r[k - 1]] /\ r[k - 1] \in Q
        BY <2>1, <4>1 DEF Steps
      <4>3. QED
        BY <3>2, <4>1, <4>2
    <3>3. QED
      BY <3>1, <3>2
  <2>3. r = Step(r)
    BY <2>1, <2>2
  <2>4. QED
    BY <2>3
<1>6. kept = Step(kept)
  BY <1>5
<1> HIDE DEF kept
<1>7. \A k \in 0 .. N : kept[k] \in Q
  <2>1. kept[0] \in Q
    BY <1>1, <1>6
  <2>2. \A k \in 1 .. N : kept[k - 1] \in Q => kept[k] \in Q
    <3>1. \A k \in 1 .. N : k \in 0 .. N /\ k # 0
      BY <1>1
    <3>2. QED
      BY <1>2, <1>6, <3>1
  <2>3. QED
    BY <1>1, <2>1, <2>2, StaysIn
<1>8. kept[0] = <<>> /\ \A k \in 1 .. N : kept[k] = Add(kept[k - 1], k)
  <2>1. 0 \in 0 .. N /\ \A k \in 1 .. N : k \in 0 .. N /\ k # 0
    BY <1>1
  <2>2. QED
    BY <1>6, <2>1
<1>9. QED
  BY <1>4, <1>7, <1>8 DEF Q, N, Add, Keeping

LEMMA ForNodesType ==
  ASSUME NEW S, NEW T, NEW ns, NEW locs \in Seq(S), \A x \in S : x.node \in ns => x \in T
  PROVE  ForNodes(locs, ns) \in Seq(T)
<1>1. Len(locs) \in 0 .. Len(locs)
  OBVIOUS
<1>2. PICK kept : Keeping(kept, locs, ns, T)
  BY ForNodesSteps
<1>3. QED
  BY <1>1, <1>2 DEF Keeping

Joining(all, seqs, N, T) ==
  /\ all[0] = <<>>
  /\ \A k \in 1 .. N : all[k] = all[k - 1] \o seqs[k]
  /\ \A k \in 0 .. N : all[k] \in Seq(T)
  /\ Together(seqs) = all[N]

LEMMA TogetherSteps ==
  ASSUME NEW T, NEW N \in Nat, NEW seqs \in [1 .. N -> Seq(T)]
  PROVE  \E all : Joining(all, seqs, N, T)
<1> DEFINE Q == Seq(T)
           F == [k \in 1 .. N |-> [q \in Q |-> q \o seqs[k]]]
           Step(f) == [k \in 0 .. N |-> IF k = 0 THEN <<>> ELSE f[k - 1] \o seqs[k]]
           all == CHOOSE f : f = Step(f)
<1>1. N \in Nat /\ <<>> \in Q /\ Len(seqs) = N
  OBVIOUS
<1>2. \A k \in 1 .. N : \A q \in Q : q \o seqs[k] \in Q
  <2>1. ASSUME NEW k \in 1 .. N, NEW q \in Q
        PROVE  q \o seqs[k] \in Q
    <3>1. seqs[k] \in Seq(T)
      OBVIOUS
    <3>2. QED
      BY <3>1, ConcatProperties
  <2>2. QED
    BY <2>1
<1>3. F \in [1 .. N -> [Q -> Q]]
  <2> HIDE DEF Q
  <2>1. QED
    BY <1>2
<1>4. Together(seqs) = all[N]
  BY <1>1 DEF Together
<1> HIDE DEF Q
<1>5. \E f : f = Step(f)
  <2>1. PICK r \in [0 .. N -> Q] : Steps(r, <<>>, F, N)
    <3> HIDE DEF F
    <3>1. QED
      BY <1>1, <1>3, RecursionExists
  <2>2. ASSUME NEW k \in 0 .. N
        PROVE  r[k] = Step(r)[k]
    <3>1. CASE k = 0
      BY <2>1, <3>1 DEF Steps
    <3>2. CASE k # 0
      <4>1. k \in 1 .. N /\ k - 1 \in 0 .. N
        BY <1>1, <3>2
      <4>2. r[k] = F[k][r[k - 1]] /\ r[k - 1] \in Q
        BY <2>1, <4>1 DEF Steps
      <4>3. QED
        BY <3>2, <4>1, <4>2
    <3>3. QED
      BY <3>1, <3>2
  <2>3. r = Step(r)
    BY SMTT(40), <2>1, <2>2
  <2>4. QED
    BY <2>3
<1>6. all = Step(all)
  BY <1>5
<1> HIDE DEF all
<1>7. \A k \in 0 .. N : all[k] \in Q
  <2>1. all[0] \in Q
    BY <1>1, <1>6
  <2>2. \A k \in 1 .. N : all[k - 1] \in Q => all[k] \in Q
    <3>1. \A k \in 1 .. N : k \in 0 .. N /\ k # 0
      BY <1>1
    <3>2. QED
      BY <1>2, <1>6, <3>1
  <2>3. QED
    BY <1>1, <2>1, <2>2, StaysIn
<1>8. all[0] = <<>> /\ \A k \in 1 .. N : all[k] = all[k - 1] \o seqs[k]
  <2>1. 0 \in 0 .. N /\ \A k \in 1 .. N : k \in 0 .. N /\ k # 0
    BY <1>1
  <2>2. QED
    BY <1>6, <2>1
<1>9. QED
  BY <1>4, <1>7, <1>8 DEF Q, Joining

LEMMA TogetherType ==
  ASSUME NEW T, NEW N \in Nat, NEW seqs \in [1 .. N -> Seq(T)]
  PROVE  Together(seqs) \in Seq(T)
<1>1. N \in 0 .. N
  OBVIOUS
<1>2. PICK all : Joining(all, seqs, N, T)
  BY TogetherSteps
<1>3. QED
  BY <1>1, <1>2 DEF Joining
-----------------------------------------------------------------------------
(* A node's state: what waits on it is for it, and what the master has to     *)
(* send is for some node.                                                     *)
NodeType(n) ==
  [ tm : Manager(Deployed(n)), processing : BOOLEAN, lapse_time : Nat,
    internal_pendings : Seq(MssgFor(n)), extern_locations : Seq(Located) ]

(* A busy node is processing, and its lapse is that of its next end. *)
LapseKnown(nd) ==
  /\ Busy(nd.tm) # {} => nd.processing
  /\ Busy(nd.tm) # {} /\ nd.extern_locations = <<>> => nd.lapse_time = LessExecTime(nd.tm)

NodeGood(n, nd) == nd \in NodeType(n) /\ LapseKnown(nd)

LEMMA LapsePriorityNat ==
  ASSUME NEW D, NEW t \in Manager(D)
  PROVE  LapsePriority(t) \in Nat
<1>1. t \in TaskManagerType
  BY DEF Manager
<1>2. QED
  BY <1>1, FinishingProperties, SimulationAssumption DEF LapsePriority

LEMMA NewNodeGood ==
  ASSUME NEW n
  PROVE  NodeGood(n, NewNode)
<1>1. NewTaskManager \in Manager(Deployed(n)) /\ Busy(NewTaskManager) = {}
  BY NewManager DEF Deployed
<1> HIDE DEF NewTaskManager
<1>2. QED
  BY <1>1 DEF NodeGood, NodeType, LapseKnown, NewNode

LEMMA UpdateLapseGood ==
  ASSUME NEW n, NEW nd \in NodeType(n)
  PROVE  NodeGood(n, UpdateLapse(nd))
<1>1. nd.tm \in TaskManagerType /\ Counted(nd.tm) /\ LapsePriority(nd.tm) \in Nat
  BY LapsePriorityNat DEF NodeType, Manager
<1>2. CASE nd.tm.pending = 0
  <2>1. Busy(nd.tm) = {}
    BY <1>1, <1>2, NothingPending
  <2>2. UpdateLapse(nd) = [nd EXCEPT !.processing = FALSE]
    BY <1>2 DEF UpdateLapse
  <2>3. QED
    BY <2>1, <2>2 DEF NodeGood, NodeType, LapseKnown
<1>3. CASE nd.tm.pending # 0
  <2>1. UpdateLapse(nd) = [nd EXCEPT !.processing = TRUE, !.lapse_time = LapsePriority(nd.tm)]
    BY <1>3 DEF UpdateLapse
  <2>2. QED
    BY <1>1, <2>1 DEF NodeGood, NodeType, LapseKnown, LapsePriority
<1>4. QED
  BY <1>2, <1>3

LEMMA NodeInternalGood ==
  ASSUME NEW n, NEW nd \in NodeType(n), NEW d, DrawOK(d)
  PROVE  NodeGood(n, NodeInternal(nd, n, d))
<1> DEFINE S     == Manager(Deployed(n))
           ended == TerminateActiveExecutions(nd.tm)
           scheduled == SchedulePendings(ended, nd.internal_pendings, d)
           served == CheckQueued(scheduled, ended.used, n, d)
           next == [nd EXCEPT !.tm = served, !.internal_pendings = <<>>]
<1>1. nd.tm \in S /\ nd.internal_pendings \in Seq(MssgFor(n))
  BY DEF NodeType
<1>2. Deployed(n) \in SUBSET Slot
  BY DEF Deployed
<1>3. ended \in S
  BY <1>1, <1>2, TerminateManager
<1>4. ended.used \in [Core -> Slot \cup {NoSlot}]
  BY <1>3 DEF Manager, TaskManagerType
<1> HIDE DEF ended
<1>5. scheduled \in S
  BY <1>1, <1>3, SchedulePendingsManager
<1> HIDE DEF scheduled
<1>6. served \in S
  BY <1>4, <1>5, CheckQueuedManager
<1>7. NodeInternal(nd, n, d) = UpdateLapse(next)
  BY DEF NodeInternal, ended, scheduled
<1> HIDE DEF served
<1>8. next \in NodeType(n)
  <2>1. <<>> \in Seq(MssgFor(n))
    OBVIOUS
  <2>2. QED
    BY <1>6, <2>1 DEF NodeType
<1> HIDE DEF next
<1>9. QED
  BY <1>7, <1>8, UpdateLapseGood

LEMMA MasterInternalGood ==
  ASSUME NEW n, NEW nd \in NodeType(n), NEW d, DrawOK(d)
  PROVE  NodeGood(n, MasterInternal(nd, n, d))
<1>1. CASE nd.extern_locations # <<>>
  <2>1. [nd EXCEPT !.extern_locations = <<>>] \in NodeType(n)
    <3>1. <<>> \in Seq(Located)
      OBVIOUS
    <3>2. QED
      BY <3>1 DEF NodeType
  <2>2. QED
    BY <1>1, <2>1, UpdateLapseGood DEF MasterInternal
<1>2. CASE nd.extern_locations = <<>>
  BY <1>2, NodeInternalGood DEF MasterInternal
<1>3. QED
  BY <1>1, <1>2

LEMMA FromSwitchManager ==
  ASSUME NEW n, NEW t \in Manager(Deployed(n)), NEW bag \in Seq(MssgFor(n)), NEW d, DrawOK(d)
  PROVE  FromSwitch(t, bag, d) \in Manager(Deployed(n))
<1>1. CASE bag = <<>>
  BY <1>1 DEF FromSwitch
<1>2. CASE bag # <<>>
  <2>1. bag[1] \in MssgFor(n)
    BY <1>2
  <2>2. QED
    BY <1>2, <2>1, ScheduleManager DEF FromSwitch
<1>3. QED
  BY <1>1, <1>2

(* A node that runs e further, if it is processing. *)
LEMMA RunManager ==
  ASSUME NEW n, NEW t \in Manager(Deployed(n)), NEW e \in Nat, NEW recent, NEW p
  PROVE  (IF p THEN Elapse(t, e, recent) ELSE t) \in Manager(Deployed(n))
<1>1. Deployed(n) \in SUBSET Slot
  BY DEF Deployed
<1>2. QED
  BY <1>1, ElapseManager

LEMMA NodeExternalGood ==
  ASSUME NEW n, NEW nd \in NodeType(n), NEW e \in Nat, NEW bag \in Seq(MssgFor(n)),
         NEW d, DrawOK(d)
  PROVE  NodeGood(n, NodeExternal(nd, e, bag, d))
<1> DEFINE S   == Manager(Deployed(n))
           tm  == FromSwitch(nd.tm, bag, d)
           run == IF nd.processing THEN Elapse(tm, e, Mssgs(bag)) ELSE tm
<1>1. nd.tm \in S
  BY DEF NodeType
<1>2. tm \in S
  BY <1>1, FromSwitchManager
<1> HIDE DEF tm
<1>3. run \in S
  BY <1>2, RunManager
<1>4. NodeExternal(nd, e, bag, d)
        = [nd EXCEPT !.tm = run, !.processing = TRUE, !.lapse_time = LapsePriority(run)]
  BY DEF NodeExternal, tm
<1> HIDE DEF run
<1>5. LapsePriority(run) \in Nat
  BY <1>3, LapsePriorityNat
<1>6. QED
  BY <1>3, <1>4, <1>5 DEF NodeGood, NodeType, LapseKnown, LapsePriority

LEMMA MasterExternalGood ==
  ASSUME NEW n, NEW nd \in NodeType(n), NEW e \in Nat, NEW bag \in Seq(MssgFor(n)),
         NEW request \in Seq(Mssg \cup {0}), NEW loc \in Locations[First],
         NEW d, DrawOK(d)
  PROVE  NodeGood(n, MasterExternal(nd, n, e, request, loc, bag, d))
<1> DEFINE S    == Manager(Deployed(n))
           given == request # <<>> /\ request[1] # 0
           here == given /\ loc.node = n
           elsewhere == IF given /\ ~here
                        THEN Append(nd.extern_locations, LocatedMssg(loc, request[1]))
                        ELSE nd.extern_locations
           accepted == IF here THEN Schedule(nd.tm, LocatedMssg(loc, request[1]), d) ELSE nd.tm
           tm   == FromSwitch(accepted, bag, d)
           recent == {request[i] : i \in DOMAIN request} \cup Mssgs(bag)
           run  == IF nd.processing THEN Elapse(tm, e, recent) ELSE tm
           next == MasterExternal(nd, n, e, request, loc, bag, d)
<1>1. nd.tm \in S /\ nd.extern_locations \in Seq(Located)
  BY DEF NodeType
<1>2. given => request[1] \in Mssg
  OBVIOUS
<1>3. given => /\ LocatedMssg(loc, request[1]) \in MssgFor(loc.node)
              /\ LocatedMssg(loc, request[1]) \in Located
  BY <1>2, MessageForLocation, JobAssumption
<1>4. elsewhere \in Seq(Located)
  BY <1>1, <1>3, AppendProperties
<1>5. accepted \in S
  BY <1>1, <1>3, ScheduleManager
<1>6. /\ elsewhere # <<>> =>
           next = [nd EXCEPT !.tm = tm, !.processing = TRUE, !.lapse_time = 0,
                             !.extern_locations = elsewhere]
      /\ elsewhere = <<>> /\ tm.pending # 0 =>
           next = [nd EXCEPT !.tm = run, !.processing = TRUE, !.lapse_time = LapsePriority(run)]
      /\ elsewhere = <<>> /\ tm.pending = 0 =>
           next = [nd EXCEPT !.tm = tm, !.processing = TRUE]
  BY DEF MasterExternal
<1>7. elsewhere = <<>> => nd.extern_locations = <<>>
  BY SMTT(40), <1>1, AppendProperties
<1> HIDE DEF accepted
<1>8. tm \in S
  BY <1>5, FromSwitchManager
<1> HIDE DEF tm, elsewhere, given, here, recent, next
<1>9. run \in S
  BY <1>8, RunManager
<1> HIDE DEF run
<1>10. LapsePriority(run) \in Nat
  BY <1>9, LapsePriorityNat
<1>11. tm.pending = 0 => Busy(tm) = {}
  BY <1>8, NothingPending DEF Manager
<1>12. ASSUME elsewhere # <<>>
       PROVE  NodeGood(n, next)
  <2>1. next = [ tm |-> tm, processing |-> TRUE, lapse_time |-> 0,
                 internal_pendings |-> nd.internal_pendings, extern_locations |-> elsewhere ]
    BY <1>6, <1>12 DEF NodeType
  <2>2. nd.internal_pendings \in Seq(MssgFor(n))
    BY DEF NodeType
  <2>3. next \in NodeType(n)
    BY <1>4, <1>8, <2>1, <2>2 DEF NodeType
  <2>4. QED
    BY <1>12, <2>1, <2>3 DEF NodeGood, LapseKnown
<1>13. ASSUME elsewhere = <<>>, tm.pending # 0
       PROVE  NodeGood(n, next)
  <2>1. /\ next \in NodeType(n) /\ next.tm = run
        /\ next.processing = TRUE /\ next.lapse_time = LapsePriority(run)
    BY <1>6, <1>9, <1>10, <1>13 DEF NodeType
  <2>2. QED
    BY <2>1 DEF NodeGood, LapseKnown, LapsePriority
<1>14. ASSUME elsewhere = <<>>, tm.pending = 0
       PROVE  NodeGood(n, next)
  <2>1. next \in NodeType(n) /\ next.tm = tm
    BY <1>6, <1>8, <1>14 DEF NodeType
  <2>2. QED
    BY <1>11, <2>1, <1>14 DEF NodeGood, LapseKnown
<1>15. QED
  BY <1>12, <1>13, <1>14 DEF next
-----------------------------------------------------------------------------
(* What a node sends is located: every destination of what ends is an         *)
(* operator, and load balancing only chooses among its locations.             *)
Sending == [mssg : Mssg, oper : Oper]

LEMMA OutgoingType ==
  ASSUME NEW n, NEW a \in SubtaskOn(Deployed(n))
  PROVE  Outgoing(n, a) \in Seq(Sending)
<1> DEFINE o == OperatorAt(n, a.slot)
<1>1. a.slot \in Deployed(n) /\ a.mssg \in Mssg
  BY DEF SubtaskOn
<1>2. o \in Oper /\ Dest[o] \in Seq(Oper)
  BY <1>1, DeployedOperator, JobAssumption
<1> HIDE DEF o
<1>3. Outgoing(n, a) = IF LastOperator(o) THEN <<>>
                       ELSE [d \in DOMAIN Dest[o] |-> [mssg |-> a.mssg, oper |-> Dest[o][d]]]
  BY DEF Outgoing, o
<1>4. [d \in DOMAIN Dest[o] |-> [mssg |-> a.mssg, oper |-> Dest[o][d]]] \in Seq(Sending)
  <2>1. DOMAIN Dest[o] = 1 .. Len(Dest[o]) /\ Len(Dest[o]) \in Nat
        /\ \A d \in 1 .. Len(Dest[o]) : Dest[o][d] \in Oper
    BY <1>2
  <2>2. \A d \in 1 .. Len(Dest[o]) : [mssg |-> a.mssg, oper |-> Dest[o][d]] \in Sending
    BY <1>1, <2>1 DEF Sending
  <2>3. [d \in 1 .. Len(Dest[o]) |-> [mssg |-> a.mssg, oper |-> Dest[o][d]]]
           \in [1 .. Len(Dest[o]) -> Sending]
    BY <2>2
  <2>4. QED
    BY <2>1, <2>3, SeqDef
<1>5. QED
  BY <1>3, <1>4

LEMMA DestinationsType ==
  ASSUME NEW tms, NEW n, tms[n] \in Manager(Deployed(n)),
         NEW out \in NextOperatorDestinations(tms, n)
  PROVE  out \in Seq(Located)
<1> DEFINE t == tms[n]
           Messages(order) == [i \in DOMAIN order |-> Outgoing(n, ActiveOn(t, order[i]))]
<1>1. PICK order \in SendOrders(t, n) : out \in Balanced(tms, Together(Messages(order)))
  BY DEF NextOperatorDestinations
<1>2. \E k \in Nat : order \in [1 .. k -> Finishing(t)]
  <2>1. PICK A \in SUBSET Finishing(t) : order \in SetToSeqs(A)
    BY <1>1 DEF SendOrders
  <2>2. order \in [1 .. Cardinality(A) -> A]
    BY <2>1 DEF SetToSeqs
  <2>3. Cardinality(A) \in Nat
    <3>1. A \subseteq Core
      BY DEF Finishing, Busy
    <3>2. QED
      BY <3>1, CoreFinite, FS_Subset, FS_CardinalityType
  <2>4. QED
    BY <2>2, <2>3
<1>3. PICK k \in Nat : order \in [1 .. k -> Finishing(t)]
  BY <1>2
<1>4. \A c \in Finishing(t) : ActiveOn(t, c) \in SubtaskOn(Deployed(n))
  <2>1. ASSUME NEW c \in Finishing(t)
        PROVE  ActiveOn(t, c) \in SubtaskOn(Deployed(n))
    <3>1. c \in Core /\ t.bufs[c] # <<>>
      BY DEF Finishing, Busy
    <3>2. t.bufs[c] \in Seq(SubtaskOn(Deployed(n)))
      BY <3>1 DEF Manager, OnSlots
    <3>3. QED
      BY <3>1, <3>2 DEF ActiveOn
  <2>2. QED
    BY <2>1
<1> HIDE DEF t
<1>5. Messages(order) \in [1 .. k -> Seq(Sending)]
  BY <1>3, <1>4, OutgoingType
<1> HIDE DEF Messages
<1> DEFINE all == Together(Messages(order))
<1>6. all \in Seq(Sending)
  BY <1>5, TogetherType
<1> HIDE DEF all
<1>7. /\ DOMAIN out = DOMAIN all
      /\ out = [i \in DOMAIN out |-> out[i]]
      /\ \A i \in DOMAIN all : \E loc \in OperLocationLessload(tms, all[i].oper) :
            out[i] = LocatedMssg(loc, all[i].mssg)
  BY <1>1 DEF Balanced, all
<1>8. DOMAIN all = 1 .. Len(all) /\ Len(all) \in Nat /\ \A i \in 1 .. Len(all) : all[i] \in Sending
  BY <1>6
<1>9. \A i \in 1 .. Len(all) : out[i] \in Located
  <2>1. ASSUME NEW i \in 1 .. Len(all)
        PROVE  out[i] \in Located
    <3>1. all[i].oper \in Oper /\ all[i].mssg \in Mssg
      BY <1>8 DEF Sending
    <3>2. PICK loc \in OperLocationLessload(tms, all[i].oper) :
                 out[i] = LocatedMssg(loc, all[i].mssg)
      BY <1>7, <1>8
    <3>3. loc \in Locations[all[i].oper]
      BY DEF OperLocationLessload, ShorterQueue
    <3>4. QED
      BY <3>1, <3>2, <3>3, MessageForLocation
  <2>2. QED
    BY <2>1
<1>10. out \in [1 .. Len(all) -> Located]
  BY <1>7, <1>8, <1>9
<1>11. QED
  BY <1>8, <1>10, SeqDef

LEMMA LeftPendingGood ==
  ASSUME NEW n \in NodeId, NEW nd, NodeGood(n, nd), NEW out \in Seq(Located)
  PROVE  /\ NodeGood(n, LeftPending(nd, n, out))
         /\ TimeAdvance(LeftPending(nd, n, out)) = TimeAdvance(nd)
<1> DEFINE mine == ForNodes(out, {n})
<1>1. mine \in Seq(MssgFor(n))
  <2>1. \A x \in Located : x.node \in {n} => x \in MssgFor(n)
    BY DEF Located, MssgFor
  <2>2. QED
    BY <2>1, ForNodesType
<1> HIDE DEF mine
<1>2. nd \in NodeType(n) /\ nd.internal_pendings \in Seq(MssgFor(n))
  BY DEF NodeGood, NodeType
<1>3. nd.internal_pendings \o mine \in Seq(MssgFor(n))
  BY <1>1, <1>2, ConcatProperties
<1>4. LeftPending(nd, n, out) = [nd EXCEPT !.internal_pendings = nd.internal_pendings \o mine]
  BY DEF LeftPending, mine
<1>5. QED
  BY <1>2, <1>3, <1>4 DEF NodeGood, NodeType, LapseKnown, TimeAdvance

LEMMA ToSwitchType ==
  ASSUME NEW n, NEW out \in Seq(Located)
  PROVE  ToSwitch(n, out) \in Seq(Located)
<1>1. \A x \in Located : x.node \in NodeId \ {n} => x \in Located
  OBVIOUS
<1>2. QED
  BY <1>1, ForNodesType DEF ToSwitch
-----------------------------------------------------------------------------
(* What waits for each node is for that node. *)
ByNode(f) ==
  /\ f = [n \in NodeId |-> f[n]]
  /\ \A n \in NodeId : f[n] \in Seq(MssgFor(n))

LEMMA NodesToSwitchByNode ==
  ASSUME NEW bags, \A n \in NodeId : bags[n] \in Seq(Located)
  PROVE  ByNode(NodesToSwitch(bags))
<1> DEFINE all == Together([i \in 1 .. NNodes |-> bags[i - 1]])
<1>1. NNodes \in Nat /\ \A i \in 1 .. NNodes : i - 1 \in NodeId
  BY JobAssumption DEF NodeId
<1>2. [i \in 1 .. NNodes |-> bags[i - 1]] \in [1 .. NNodes -> Seq(Located)]
  BY <1>1
<1>3. all \in Seq(Located)
  BY <1>1, <1>2, TogetherType
<1>4. NodesToSwitch(bags) = [d \in NodeId |-> ForNodes(all, {d})]
  BY DEF NodesToSwitch
<1> HIDE DEF all
<1>5. ASSUME NEW d \in NodeId
      PROVE  ForNodes(all, {d}) \in Seq(MssgFor(d))
  <2>1. \A x \in Located : x.node \in {d} => x \in MssgFor(d)
    BY DEF Located, MssgFor
  <2>2. QED
    BY <1>3, <2>1, ForNodesType
<1>6. QED
  BY <1>4, <1>5 DEF ByNode

(* A buffer of the switch that is active has a message. *)
SwitchGood(s) ==
  /\ ByNode(s.buffers) /\ s.active \subseteq NodeId
  /\ s.transmitting \in BOOLEAN /\ s.send_time \in Nat
  /\ \A n \in s.active : s.buffers[n] # <<>>

LEMMA NewSwitchGood == SwitchGood(Sw!NewSwitch)
<1>1. \A n : <<>> \in Seq(MssgFor(n))
  OBVIOUS
<1>2. QED
  BY <1>1 DEF SwitchGood, ByNode, Sw!NewSwitch

LEMMA EmittedType ==
  ASSUME NEW s, SwitchGood(s), NEW n \in s.active
  PROVE  Sw!Emitted(s)[n] \in MssgFor(n)
<1>1. n \in NodeId /\ s.buffers[n] \in Seq(MssgFor(n)) /\ s.buffers[n] # <<>>
  BY DEF SwitchGood, ByNode
<1>2. Head(s.buffers[n]) \in MssgFor(n)
  BY <1>1
<1>3. QED
  BY <1>2 DEF Sw!Emitted

LEMMA AfterOutputGood ==
  ASSUME NEW s, SwitchGood(s)
  PROVE  /\ SwitchGood(Sw!AfterOutput(s))
         /\ Sw!AfterOutput(s).transmitting = s.transmitting
         /\ Sw!AfterOutput(s).send_time = s.send_time
<1> DEFINE t == Sw!AfterOutput(s)
<1>1. \A n \in NodeId : t.buffers[n] \in Seq(MssgFor(n))
  <2>1. ASSUME NEW n \in NodeId
        PROVE  t.buffers[n] \in Seq(MssgFor(n))
    <3>1. s.buffers[n] \in Seq(MssgFor(n)) /\ (n \in s.active => s.buffers[n] # <<>>)
      BY DEF SwitchGood, ByNode
    <3>2. t.buffers[n] = IF n \in s.active THEN Tail(s.buffers[n]) ELSE s.buffers[n]
      BY DEF Sw!AfterOutput
    <3>3. QED
      BY <3>1, <3>2
  <2>2. QED
    BY <2>1
<1>2. /\ t.buffers = [n \in NodeId |-> t.buffers[n]] /\ t.active = {}
      /\ t.transmitting = s.transmitting /\ t.send_time = s.send_time
  BY DEF Sw!AfterOutput
<1> HIDE DEF t
<1>3. QED
  BY <1>1, <1>2 DEF SwitchGood, ByNode, t

LEMMA SwitchInternalGood ==
  ASSUME NEW s, SwitchGood(s), NEW lapse \in Nat
  PROVE  SwitchGood(Sw!InternalTransition(s, lapse))
<1> DEFINE t == Sw!InternalTransition(s, lapse)
<1>1. /\ t.buffers = s.buffers /\ t.active = s.active \cup Sw!Waiting(s)
      /\ t.transmitting \in BOOLEAN /\ t.send_time \in {lapse, s.send_time}
  BY DEF Sw!InternalTransition
<1>2. Sw!Waiting(s) \subseteq NodeId /\ \A n \in Sw!Waiting(s) : s.buffers[n] # <<>>
  BY DEF Sw!Waiting
<1> HIDE DEF t
<1>3. QED
  BY <1>1, <1>2 DEF SwitchGood, t

LEMMA SwitchExternalGood ==
  ASSUME NEW s, SwitchGood(s), NEW bag, ByNode(bag), NEW e \in Nat, NEW lapse \in Nat,
         s.transmitting => e <= s.send_time
  PROVE  SwitchGood(Sw!ExternalTransition(s, bag, e, lapse))
<1> DEFINE t == Sw!ExternalTransition(s, bag, e, lapse)
<1>1. /\ t.buffers = [n \in NodeId |-> s.buffers[n] \o bag[n]]
      /\ t.active \subseteq s.active \cup {n \in NodeId : bag[n] # <<>>}
      /\ t.transmitting = TRUE
      /\ t.send_time = IF s.transmitting THEN s.send_time - e ELSE lapse
  BY DEF Sw!ExternalTransition, Sw!Queued, Sw!Activated
<1>2. t.send_time \in Nat
  BY <1>1 DEF SwitchGood
<1>3. \A n \in NodeId : /\ s.buffers[n] \o bag[n] \in Seq(MssgFor(n))
                        /\ s.buffers[n] # <<>> \/ bag[n] # <<>> => s.buffers[n] \o bag[n] # <<>>
  <2>1. ASSUME NEW n \in NodeId
        PROVE  /\ s.buffers[n] \o bag[n] \in Seq(MssgFor(n))
               /\ s.buffers[n] # <<>> \/ bag[n] # <<>> => s.buffers[n] \o bag[n] # <<>>
    <3>1. s.buffers[n] \in Seq(MssgFor(n)) /\ bag[n] \in Seq(MssgFor(n))
      BY DEF SwitchGood, ByNode
    <3>2. QED
      BY <3>1, ConcatProperties, EmptySeq
  <2>2. QED
    BY <2>1
<1>4. s.active \subseteq NodeId /\ \A n \in s.active : s.buffers[n] # <<>>
  BY DEF SwitchGood
<1> HIDE DEF t
<1>5. ByNode(t.buffers)
  BY <1>1, <1>3 DEF ByNode
<1>6. \A n \in t.active : n \in NodeId /\ t.buffers[n] # <<>>
  BY <1>1, <1>3, <1>4
<1>7. QED
  BY <1>1, <1>2, <1>5, <1>6 DEF SwitchGood, t

LEMMA SwitchConfluenceGood ==
  ASSUME NEW s, SwitchGood(s), NEW bag, ByNode(bag), NEW lapse \in Nat, NEW lapse2 \in Nat
  PROVE  SwitchGood(Sw!ConfluenceTransition(s, bag, lapse, lapse2))
<1> DEFINE t == Sw!InternalTransition(s, lapse)
<1>1. SwitchGood(t)
  BY SwitchInternalGood
<1>2. 0 \in Nat /\ 0 <= t.send_time
  BY <1>1 DEF SwitchGood
<1> HIDE DEF t
<1>3. SwitchGood(Sw!ExternalTransition(t, bag, 0, lapse2))
  BY <1>1, <1>2, SwitchExternalGood
<1>4. QED
  BY <1>3 DEF Sw!ConfluenceTransition, t
-----------------------------------------------------------------------------
(* The messages of the lines. *)
LEMMA SendsOfLines ==
  /\ Sends[0] = 0
  /\ \A l \in 1 .. Len(Workload) :
       /\ l - 1 \in 0 .. Len(Workload) /\ Workload[l].first \in Nat
       /\ Sends[l] \in Nat
       /\ Sends[l] = Sends[l - 1] + IF Workload[l].first = 0 THEN 1 ELSE Workload[l].first
<1> DEFINE N == Len(Workload)
           More(l) == IF Workload[l].first = 0 THEN 1 ELSE Workload[l].first
           F == [l \in 1 .. N |-> [q \in Nat |-> q + More(l)]]
           Step(f) == [l \in 0 .. N |-> IF l = 0 THEN 0 ELSE f[l - 1] + More(l)]
<1>1. N \in Nat /\ \A l \in 1 .. N : Workload[l].first \in Nat /\ More(l) \in Nat
  <2>1. Workload \in Seq([first : Nat, rate : Nat])
    BY SimulationAssumption DEF P!ProducerAssumption
  <2> DEFINE R == [first : Nat, rate : Nat]
  <2>2. N \in Nat /\ \A l \in 1 .. N : Workload[l] \in R
    <3> HIDE DEF R
    <3>1. Workload \in Seq(R)
      BY <2>1 DEF R
    <3>2. QED
      BY <3>1
  <2>3. \A l \in 1 .. N : Workload[l].first \in Nat
    BY <2>2
  <2>4. QED
    BY <2>2, <2>3
<1>2. Sends = CHOOSE f : f = Step(f)
  BY DEF Sends
<1> HIDE DEF N, More
<1>3. F \in [1 .. N -> [Nat -> Nat]]
  BY <1>1
<1>4. \E f : f = Step(f)
  <2>1. PICK r \in [0 .. N -> Nat] : Steps(r, 0, F, N)
    <3> HIDE DEF F
    <3>1. QED
      BY <1>1, <1>3, RecursionExists
  <2>2. ASSUME NEW k \in 0 .. N
        PROVE  r[k] = Step(r)[k]
    <3>1. CASE k = 0
      BY <2>1, <3>1 DEF Steps
    <3>2. CASE k # 0
      <4>1. k \in 1 .. N /\ k - 1 \in 0 .. N
        BY <1>1, <3>2
      <4>2. r[k] = F[k][r[k - 1]] /\ r[k - 1] \in Nat
        BY <2>1, <4>1 DEF Steps
      <4>3. QED
        BY <3>2, <4>1, <4>2
    <3>3. QED
      BY <3>1, <3>2
  <2>3. r = Step(r)
    BY <2>1, <2>2
  <2>4. QED
    BY <2>3
<1>5. Sends = Step(Sends)
  BY <1>2, <1>4
<1>6. Sends[0] = 0 /\ \A l \in 1 .. N : Sends[l] = Sends[l - 1] + More(l)
  <2>1. 0 \in 0 .. N /\ \A l \in 1 .. N : l \in 0 .. N /\ l # 0
    BY <1>1
  <2>2. QED
    BY <1>5, <2>1
<1>7. \A l \in 0 .. N : Sends[l] \in Nat
  <2>1. \A l \in 1 .. N : Sends[l - 1] \in Nat => Sends[l] \in Nat
    BY <1>1, <1>6
  <2>2. Sends[0] \in Nat
    BY <1>6
  <2>3. QED
    BY <1>1, <2>1, <2>2, StaysIn
<1>8. \A l \in 1 .. N : l \in 0 .. N /\ l - 1 \in 0 .. N
  BY <1>1
<1>9. QED
  BY <1>1, <1>6, <1>7, <1>8 DEF N, More

ProducerType ==
  [ state : Nat, mssg : Mssg \cup {0}, arrival : Nat, now : Nat, line : 1 .. Len(Workload),
    reqs : Nat, generating : BOOLEAN, last_reqs : Nat, capture_time : Nat ]

(* No message is generated beyond those of the lines so far. *)
ProducerGood(p) ==
  /\ p \in ProducerType
  /\ p.state <= Sends[p.line] /\ p.reqs <= Sends[p.line]

LEMMA NewProducerGood == ProducerGood(P!NewProducer)
<1>1. 1 \in 1 .. Len(Workload)
  BY SimulationAssumption DEF P!ProducerAssumption
<1>2. /\ Workload[1].first \in Nat /\ Sends[1] \in Nat
      /\ Sends[1] = IF Workload[1].first = 0 THEN 1 ELSE Workload[1].first
  <2>1. Sends[1] = Sends[1 - 1] + IF Workload[1].first = 0 THEN 1 ELSE Workload[1].first
    BY <1>1, SendsOfLines
  <2>2. QED
    BY <1>1, <2>1, SendsOfLines
<1>3. 1 \in Mssg
  BY <1>1, <1>2, SimulationAssumption
<1>4. QED
  BY <1>1, <1>2, <1>3 DEF ProducerGood, ProducerType, P!NewProducer

(* What the producer is after a message number k on line l, with q messages  *)
(* to generate by the end of that line.                                      *)
LEMMA GenerateGood ==
  ASSUME NEW p \in ProducerType, NEW lapse \in Nat,
         p.state + 1 <= Sends[p.line], p.reqs <= Sends[p.line]
  PROVE  ProducerGood(P!Generate(p, lapse))
<1>1. p.line \in 1 .. Len(Workload) /\ p.state \in Nat /\ p.now \in Nat
  BY DEF ProducerType
<1>2. Sends[p.line] \in Nat
  BY <1>1, SendsOfLines
<1>3. p.state + 1 \in Mssg
  <2>1. p.state + 1 \in 1 .. Sends[p.line]
    BY <1>1, <1>2
  <2>2. QED
    BY <1>1, <2>1, SimulationAssumption
<1>4. P!Generate(p, lapse)
        = [p EXCEPT !.arrival = lapse, !.now = p.now + lapse, !.state = p.state + 1,
                    !.mssg = p.state + 1]
  BY DEF P!Generate
<1>5. p.now + lapse \in Nat /\ p.state + 1 \in Nat
  BY <1>1
<1>6. QED
  BY <1>3, <1>4, <1>5 DEF ProducerGood, ProducerType

LEMMA ProducerInternalGood ==
  ASSUME NEW p, ProducerGood(p), NEW min \in Nat, NEW lapse \in Nat
  PROVE  ProducerGood(WithoutClock(P!ProducerInternal(p, min, lapse)))
<1> DEFINE made == P!Produced(p, min, lapse)
<1>1. /\ p \in ProducerType /\ p.line \in 1 .. Len(Workload) /\ p.state \in Nat /\ p.now \in Nat
      /\ p.reqs \in Nat /\ Sends[p.line] \in Nat
      /\ p.state <= Sends[p.line] /\ p.reqs <= Sends[p.line]
  BY SendsOfLines DEF ProducerGood, ProducerType
<1>2. P!ProducerInternal(p, min, lapse) = made
  BY DEF P!ProducerInternal, P!Captured, P!Captures
<1>3. P!LineOver(p) <=> p.state >= p.reqs
  BY DEF P!LineOver
<1>4. P!FinalLine(p) <=> p.line = Len(Workload)
  BY DEF P!FinalLine
<1>5. ASSUME ProducerGood(made)
      PROVE  ProducerGood(WithoutClock(made))
  <2> HIDE DEF made
  <2>1. QED
    BY <1>5 DEF ProducerGood, ProducerType, WithoutClock
<1>6. CASE P!LineOver(p) /\ P!FinalLine(p) /\ min = Infinity
  <2>1. made = [p EXCEPT !.last_reqs = p.state, !.generating = FALSE]
    BY <1>6 DEF P!Produced, P!Passivate
  <2> HIDE DEF made
  <2>2. ProducerGood(made)
    BY <1>1, <2>1 DEF ProducerGood, ProducerType
  <2>3. QED
    BY <1>2, <1>5, <2>2
<1>7. CASE P!LineOver(p) /\ P!FinalLine(p) /\ min # Infinity
  <2>1. made = [p EXCEPT !.now = p.now + min, !.arrival = min, !.mssg = 0]
    BY <1>7 DEF P!Produced, P!KeepCapturing
  <2> HIDE DEF made
  <2>2. p.now + min \in Nat
    BY <1>1
  <2>3. ProducerGood(made)
    BY <1>1, <2>1, <2>2 DEF ProducerGood, ProducerType
  <2>4. QED
    BY <1>2, <1>5, <2>3
<1>8. CASE ~P!LineOver(p)
  <2>1. p.state + 1 <= Sends[p.line]
    BY <1>1, <1>3, <1>8
  <2>2. made = P!Generate(p, lapse)
    BY <1>8 DEF P!Produced
  <2>3. QED
    BY <1>1, <1>2, <1>5, <2>1, <2>2, GenerateGood
<1>9. CASE P!LineOver(p) /\ ~P!FinalLine(p)
  <2> DEFINE q == P!NextLine(p)
  <2>1. p.line + 1 \in 1 .. Len(Workload) /\ p.line + 1 - 1 = p.line
    <3>1. Len(Workload) \in Nat
      BY SimulationAssumption DEF P!ProducerAssumption
    <3>2. QED
      BY <1>1, <1>4, <1>9, <3>1
  <2> DEFINE l == p.line + 1
  <2>2. l \in 1 .. Len(Workload) /\ l - 1 = p.line
    BY <1>1, <2>1
  <2>3. q = [p EXCEPT !.line = l, !.reqs = p.reqs + Workload[l].first]
    BY DEF P!NextLine
  <2> HIDE DEF l, q
  <2>4. /\ Workload[l].first \in Nat /\ Sends[l] \in Nat
        /\ Sends[l] = Sends[p.line] + IF Workload[l].first = 0 THEN 1 ELSE Workload[l].first
    <3>1. Sends[l] = Sends[l - 1] + IF Workload[l].first = 0 THEN 1 ELSE Workload[l].first
      BY <2>2, SendsOfLines
    <3>2. QED
      BY <2>2, <3>1, SendsOfLines
  <2>5. /\ q \in ProducerType /\ q.line = l /\ q.state = p.state
        /\ q.reqs = p.reqs + Workload[l].first
    <3>1. p.reqs + Workload[l].first \in Nat
      BY <1>1, <2>4
    <3>2. QED
      BY <1>1, <2>2, <2>3, <3>1 DEF ProducerType
  <2>6. q.state + 1 <= Sends[q.line] /\ q.reqs <= Sends[q.line]
    BY SMTT(40), <1>1, <2>4, <2>5
  <2>7. made = P!Generate(q, lapse)
    BY <1>9 DEF P!Produced, q
  <2>8. QED
    BY <1>2, <1>5, <2>5, <2>6, <2>7, GenerateGood
<1>10. QED
  BY <1>6, <1>7, <1>8, <1>9
-----------------------------------------------------------------------------
(* The strengthening. *)
NodesGood ==
  /\ nodes = [n \in NodeId |-> nodes[n]]
  /\ \A n \in NodeId : NodeGood(n, nodes[n])

WireGood ==
  wire.prod \in Seq(Mssg \cup {0}) /\ ByNode(wire.node) /\ ByNode(wire.sw)

(* No model's event is behind the clock. *)
TimesGood ==
  /\ elapsed \in [Model -> Nat]
  /\ \A m \in Model : elapsed[m] <= TimeAdvanceOf(m)

SimulationInv ==
  /\ DrawOK(draw) /\ NodesGood /\ SwitchGood(sw) /\ WireGood /\ ProducerGood(prod) /\ TimesGood

LEMMA Models ==
  /\ ProducerM \in Model /\ SwitchM \in Model /\ NodeId \subseteq Model
  /\ ProducerM \notin NodeId /\ SwitchM \notin NodeId /\ ProducerM # SwitchM
  /\ Master \in NodeId
  /\ \A m \in Model : m \in NodeId \/ m = ProducerM \/ m = SwitchM
BY JobAssumption DEF Model, NodeId, ProducerM, SwitchM, Master

(* What the time advances are, now and after a step. *)
LEMMA TimeAdvances ==
  /\ TimeAdvanceOf(ProducerM) = P!Period(prod)
  /\ TimeAdvanceOf(ProducerM)' = P!Period(prod')
  /\ TimeAdvanceOf(SwitchM) = IF sw.transmitting THEN sw.send_time ELSE Infinity
  /\ TimeAdvanceOf(SwitchM)' = IF sw'.transmitting THEN sw'.send_time ELSE Infinity
  /\ \A n \in NodeId : TimeAdvanceOf(n) = TimeAdvance(nodes[n])
  /\ \A n \in NodeId : TimeAdvanceOf(n)' = TimeAdvance(nodes'[n])
<1>1. \A n \in NodeId : n # ProducerM /\ n # SwitchM
  BY Models
<1>2. SwitchM # ProducerM
  BY Models
<1>3. QED
  BY <1>1, <1>2 DEF TimeAdvanceOf, P!Period, TimeAdvance

LEMMA PeriodsNat ==
  /\ \A p : ProducerGood(p) => P!Period(p) \in Nat
  /\ \A s : SwitchGood(s) => (IF s.transmitting THEN s.send_time ELSE Infinity) \in Nat
  /\ \A n, nd : NodeGood(n, nd) => TimeAdvance(nd) \in Nat
<1>1. Infinity \in Nat
  BY SimulationAssumption
<1>2. \A p : ProducerGood(p) => P!Period(p) \in Nat
  BY <1>1 DEF ProducerGood, ProducerType, P!Period
<1>3. \A s : SwitchGood(s) => (IF s.transmitting THEN s.send_time ELSE Infinity) \in Nat
  BY <1>1 DEF SwitchGood
<1>4. \A n, nd : NodeGood(n, nd) => TimeAdvance(nd) \in Nat
  BY <1>1 DEF NodeGood, NodeType, TimeAdvance
<1>5. QED
  BY <1>2, <1>3, <1>4

LEMMA TimeAdvanceNat ==
  ASSUME SimulationInv
  PROVE  \A m \in Model : TimeAdvanceOf(m) \in Nat
BY TimeAdvances, PeriodsNat, Models DEF SimulationInv, NodesGood

LEMMA LeftNat ==
  ASSUME SimulationInv
  PROVE  \A m \in Model : Left(m) \in Nat
<1>1. ASSUME NEW m \in Model
      PROVE  Left(m) \in Nat
  <2>1. /\ TimeAdvanceOf(m) \in Nat /\ Infinity \in Nat /\ elapsed[m] \in Nat
        /\ elapsed[m] <= TimeAdvanceOf(m)
    BY TimeAdvanceNat, SimulationAssumption DEF SimulationInv, TimesGood
  <2>2. QED
    BY <2>1 DEF Left
<1>2. QED
  BY <1>1

(* The next event is that of some model. *)
LEMMA ToNextLeast ==
  ASSUME SimulationInv
  PROVE  ToNext \in Nat /\ \A m \in Model : ToNext <= Left(m)
<1> DEFINE S == {Left(m) : m \in Model}
<1>1. S \in SUBSET Nat /\ S # {}
  BY LeftNat, Models
<1>2. \E t \in S : \A k \in S : t <= k
  BY <1>1, LeastNat
<1>3. \E t \in S : \A m \in Model : t <= Left(m)
  BY <1>2
<1>4. ToNext \in S /\ \A m \in Model : ToNext <= Left(m)
  BY <1>3 DEF ToNext
<1>5. QED
  BY <1>1, <1>4

LEMMA MinAdvanceTimeNat ==
  ASSUME SimulationInv
  PROVE  MinAdvanceTime \in Nat
<1> DEFINE S == {TimeAdvanceOf(m) : m \in ReceivedModels}
<1>1. S \in SUBSET Nat /\ S # {}
  BY TimeAdvanceNat, Models DEF ReceivedModels
<1>2. \E t \in S : \A k \in S : t <= k
  BY <1>1, LeastNat
<1>3. \E t \in S : \A m \in ReceivedModels : t <= TimeAdvanceOf(m)
  BY <1>2
<1>4. MinAdvanceTime \in S
  BY <1>3 DEF MinAdvanceTime
<1>5. QED
  BY <1>1, <1>4

LEMMA NoWireGood == ByNode(NoWire.node) /\ ByNode(NoWire.sw) /\ NoWire.prod \in Seq(Mssg \cup {0})
<1>1. \A n : <<>> \in Seq(MssgFor(n))
  OBVIOUS
<1>2. <<>> \in Seq(Mssg \cup {0})
  OBVIOUS
<1>3. QED
  BY <1>1, <1>2 DEF NoWire, ByNode

LEMMA SimulationInit ==
  ASSUME Init
  PROVE  SimulationInv
<1>1. DrawOK(draw) /\ SwitchGood(sw) /\ ProducerGood(prod)
  BY NewSwitchGood, NewProducerGood DEF Init, DrawOK
<1>2. NodesGood
  BY NewNodeGood DEF Init, NodesGood
<1>3. WireGood
  BY NoWireGood DEF Init, WireGood
<1>4. TimesGood
  <2>1. elapsed = [m \in Model |-> 0]
    BY DEF Init
  <2>2. \A m \in Model : TimeAdvanceOf(m) \in Nat
    BY <1>1, <1>2, TimeAdvances, PeriodsNat, Models DEF NodesGood
  <2>3. QED
    BY <2>1, <2>2 DEF TimesGood
<1>5. QED
  BY <1>1, <1>2, <1>3, <1>4 DEF SimulationInv
-----------------------------------------------------------------------------
(* The first half of a round. *)
LEMMA CollectGood ==
  ASSUME SimulationInv, CollectOutputs
  PROVE  SimulationInv'
<1> DEFINE now == ToNext
           nodesNow == Imminent \cap NodeId
<1>1. PICK out : /\ \A n \in nodesNow : out[n] \in Output(n)
                 /\ Collect(out)
  BY DEF CollectOutputs
<1>2. /\ nodes = [n \in NodeId |-> nodes[n]]
      /\ \A n \in NodeId : NodeGood(n, nodes[n])
      /\ SwitchGood(sw) /\ ProducerGood(prod) /\ DrawOK(draw)
      /\ elapsed \in [Model -> Nat]
      /\ \A m \in Model : elapsed[m] <= TimeAdvanceOf(m)
  BY DEF SimulationInv, NodesGood, TimesGood
<1>3. \A n \in nodesNow : out[n] \in Seq(Located)
  <2>1. ASSUME NEW n \in nodesNow
        PROVE  out[n] \in Seq(Located)
    <3>1. nodes[n] \in NodeType(n)
      BY <1>2 DEF NodeGood
    <3>2. CASE nodes[n].extern_locations # <<>>
      <4>1. out[n] = nodes[n].extern_locations
        BY <1>1, <3>2 DEF Output
      <4>2. QED
        BY <3>1, <4>1 DEF NodeType
    <3>3. CASE nodes[n].extern_locations = <<>>
      <4>1. out[n] \in NextOperatorDestinations(TaskManagers(nodes), n)
        BY <1>1, <3>3 DEF Output
      <4>2. TaskManagers(nodes)[n] \in Manager(Deployed(n))
        BY <3>1 DEF TaskManagers, NodeType
      <4>3. QED
        BY <4>1, <4>2, DestinationsType
    <3>4. QED
      BY <3>2, <3>3
  <2>2. QED
    BY <2>1
<1>4. /\ nodes' = [n \in NodeId |-> IF n \in nodesNow THEN LeftPending(nodes[n], n, out[n])
                                    ELSE nodes[n]]
      /\ sw' = (IF SwitchM \in Imminent THEN Sw!AfterOutput(sw) ELSE sw)
      /\ elapsed' = [m \in Model |-> IF TimeAdvanceOf(m) = Infinity THEN 0 ELSE elapsed[m] + now]
      /\ prod' = prod /\ draw' = draw
  BY <1>1 DEF Collect
<1>5. \A n \in NodeId : /\ NodeGood(n, nodes'[n])
                        /\ TimeAdvance(nodes'[n]) = TimeAdvance(nodes[n])
  <2>1. ASSUME NEW n \in NodeId
        PROVE  NodeGood(n, nodes'[n]) /\ TimeAdvance(nodes'[n]) = TimeAdvance(nodes[n])
    <3> HIDE DEF nodesNow
    <3>1. CASE n \in nodesNow
      <4>1. nodes'[n] = LeftPending(nodes[n], n, out[n])
        BY <1>4, <3>1
      <4>2. QED
        BY <1>2, <1>3, <3>1, <4>1, LeftPendingGood
    <3>2. CASE n \notin nodesNow
      BY <1>2, <1>4, <3>2
    <3>3. QED
      BY <3>1, <3>2
  <2>2. QED
    BY <2>1
<1>6. NodesGood'
  BY <1>4, <1>5 DEF NodesGood
<1>7. SwitchGood(sw') /\ sw'.transmitting = sw.transmitting /\ sw'.send_time = sw.send_time
  BY <1>2, <1>4, AfterOutputGood
<1>8. WireGood'
  <2> DEFINE bags == [n \in NodeId |-> IF n \in nodesNow THEN ToSwitch(n, out[n]) ELSE <<>>]
  <2>1. wire' = [ prod |-> ProducerToMaster, node |-> SwitchToNodes, sw |-> NodesToSwitch(bags) ]
    BY <1>1 DEF Collect
  <2>2. ProducerToMaster \in Seq(Mssg \cup {0})
    <3> DEFINE R == Mssg \cup {0}
    <3>1. prod.mssg \in R
      BY <1>2 DEF ProducerGood, ProducerType
    <3> HIDE DEF R
    <3>2. <<prod.mssg>> \in Seq(R) /\ <<>> \in Seq(R)
      BY <3>1
    <3>3. ProducerToMaster \in Seq(R)
      BY <3>2 DEF ProducerToMaster
    <3>4. QED
      BY <3>3 DEF R
  <2>3. ByNode(SwitchToNodes)
    <3>1. ASSUME NEW n \in NodeId
          PROVE  (IF SwitchM \in Imminent /\ n \in sw.active THEN <<Sw!Emitted(sw)[n]>> ELSE <<>>)
                   \in Seq(MssgFor(n))
      <4>1. n \in sw.active => Sw!Emitted(sw)[n] \in MssgFor(n)
        BY <1>2, EmittedType
      <4>2. QED
        BY <4>1
    <3>2. QED
      BY <3>1 DEF ByNode, SwitchToNodes
  <2>4. ByNode(NodesToSwitch(bags))
    <3>1. \A n \in NodeId : bags[n] \in Seq(Located)
      BY <1>3, ToSwitchType
    <3> HIDE DEF bags
    <3>2. QED
      BY <3>1, NodesToSwitchByNode
  <2> HIDE DEF bags
  <2>5. QED
    BY <2>1, <2>2, <2>3, <2>4 DEF WireGood
<1>9. TimesGood'
  <2>1. \A m \in Model : TimeAdvanceOf(m)' = TimeAdvanceOf(m)
    BY <1>4, <1>5, <1>7, TimeAdvances, Models
  <2>2. ASSUME NEW m \in Model
        PROVE  elapsed'[m] \in Nat /\ elapsed'[m] <= TimeAdvanceOf(m)
    <3>1. TimeAdvanceOf(m) \in Nat /\ now \in Nat /\ now <= Left(m) /\ elapsed[m] \in Nat
      BY <1>2, TimeAdvanceNat, ToNextLeast
    <3> HIDE DEF now
    <3>2. CASE TimeAdvanceOf(m) = Infinity
      <4>1. elapsed'[m] = 0
        BY <1>4, <3>2
      <4>2. QED
        BY <3>1, <4>1
    <3>3. CASE TimeAdvanceOf(m) # Infinity
      <4>1. elapsed'[m] = elapsed[m] + now /\ Left(m) = TimeAdvanceOf(m) - elapsed[m]
        BY <1>4, <3>3 DEF Left
      <4>2. QED
        BY <3>1, <4>1
    <3>4. QED
      BY <3>2, <3>3
  <2>3. elapsed' \in [Model -> Nat]
    BY <1>4, <2>2
  <2>4. \A m \in Model : elapsed'[m] <= TimeAdvanceOf(m)'
    BY <2>1, <2>2
  <2>5. QED
    BY <2>3, <2>4 DEF TimesGood
<1>10. QED
  BY <1>2, <1>4, <1>6, <1>7, <1>8, <1>9 DEF SimulationInv

(* The second half. *)
LEMMA AfterInternalGood ==
  ASSUME SimulationInv, NEW n \in NodeId, NEW imminent
  PROVE  NodeGood(n, AfterInternal(n, imminent))
<1>1. NodeGood(n, nodes[n]) /\ nodes[n] \in NodeType(n) /\ DrawOK(draw)
  BY DEF SimulationInv, NodesGood, NodeGood
<1>2. CASE n \notin imminent
  BY <1>1, <1>2 DEF AfterInternal
<1>3. CASE n \in imminent /\ n = Master
  BY <1>1, <1>3, MasterInternalGood DEF AfterInternal
<1>4. CASE n \in imminent /\ n # Master
  BY <1>1, <1>4, NodeInternalGood DEF AfterInternal
<1>5. QED
  BY <1>2, <1>3, <1>4

LEMMA AfterTransitionGood ==
  ASSUME SimulationInv, NEW n \in NodeId, NEW imminent, NEW loc \in Locations[First]
  PROVE  NodeGood(n, AfterTransition(n, imminent, loc))
<1> DEFINE nd == AfterInternal(n, imminent)
           e  == IF n \in imminent THEN 0 ELSE elapsed[n]
<1>1. NodeGood(n, nd) /\ nd \in NodeType(n) /\ DrawOK(draw)
  BY AfterInternalGood DEF SimulationInv, NodeGood
<1>2. e \in Nat
  BY Models DEF SimulationInv, TimesGood
<1>3. wire.prod \in Seq(Mssg \cup {0}) /\ Inbox(n) \in Seq(MssgFor(n))
  BY DEF SimulationInv, WireGood, ByNode, Inbox
<1> HIDE DEF nd, e
<1>4. CASE ~Receives(n)
  BY <1>1, <1>4 DEF AfterTransition, nd
<1>5. CASE Receives(n) /\ n = Master
  <2>1. AfterTransition(n, imminent, loc)
          = MasterExternal(nd, n, e, wire.prod, loc, Inbox(n), draw)
    BY <1>5 DEF AfterTransition, nd, e
  <2>2. QED
    BY <1>1, <1>2, <1>3, <2>1, MasterExternalGood
<1>6. CASE Receives(n) /\ n # Master
  <2>1. AfterTransition(n, imminent, loc) = NodeExternal(nd, e, Inbox(n), draw)
    BY <1>6 DEF AfterTransition, nd, e
  <2>2. QED
    BY <1>1, <1>2, <1>3, <2>1, NodeExternalGood
<1>7. QED
  BY <1>4, <1>5, <1>6

LEMMA SwitchAfterGood ==
  ASSUME SimulationInv, NEW imminent, NEW lapse \in Nat, NEW lapse2 \in Nat
  PROVE  SwitchGood(SwitchAfter(imminent, lapse, lapse2))
<1>1. SwitchGood(sw) /\ ByNode(wire.sw)
  BY DEF SimulationInv, WireGood
<1>2. elapsed[SwitchM] \in Nat /\ (sw.transmitting => elapsed[SwitchM] <= sw.send_time)
  BY TimeAdvances, Models DEF SimulationInv, TimesGood
<1>3. CASE SwitchM \in imminent /\ Receives(SwitchM)
  BY <1>1, <1>3, SwitchConfluenceGood DEF SwitchAfter
<1>4. CASE SwitchM \in imminent /\ ~Receives(SwitchM)
  BY <1>1, <1>4, SwitchInternalGood DEF SwitchAfter
<1>5. CASE SwitchM \notin imminent /\ Receives(SwitchM)
  BY <1>1, <1>2, <1>5, SwitchExternalGood DEF SwitchAfter
<1>6. CASE SwitchM \notin imminent /\ ~Receives(SwitchM)
  BY <1>1, <1>6 DEF SwitchAfter
<1>7. QED
  BY <1>3, <1>4, <1>5, <1>6

LEMMA AdvanceGood ==
  ASSUME SimulationInv, AdvanceSimulation
  PROVE  SimulationInv'
<1>1. PICK arrival \in Arrival, loc \in Locations[First], lapse \in SwitchLapse,
           lapse2 \in SwitchLapse : Advance(arrival, loc, lapse, lapse2)
  BY DEF AdvanceSimulation
<1> DEFINE imminent == {m \in Model : Left(m) = 0}
           moved == Transitions(imminent)
<1>2. /\ prod' = (IF ProducerM \in imminent
                  THEN WithoutClock(P!ProducerInternal(prod, MinAdvanceTime, arrival)) ELSE prod)
      /\ nodes' = [n \in NodeId |-> AfterTransition(n, imminent, loc)]
      /\ sw' = SwitchAfter(imminent, lapse, lapse2)
      /\ elapsed' = [m \in Model |-> IF m \in moved THEN 0 ELSE elapsed[m]]
      /\ wire' = NoWire
      /\ draw' = draw
  BY <1>1 DEF Advance
<1> HIDE DEF imminent
<1>3. ProducerGood(prod')
  <2>1. arrival \in Nat
    BY SimulationAssumption
  <2>2. ProducerGood(prod)
    BY DEF SimulationInv
  <2>3. QED
    BY <1>2, <2>1, <2>2, MinAdvanceTimeNat, ProducerInternalGood
<1>4. \A n \in NodeId : NodeGood(n, nodes'[n])
  BY <1>2, AfterTransitionGood
<1>5. NodesGood'
  BY <1>2, <1>4 DEF NodesGood
<1>6. SwitchGood(sw')
  <2>1. lapse \in Nat /\ lapse2 \in Nat
    BY SimulationAssumption
  <2>2. QED
    BY <1>2, <2>1, SwitchAfterGood
<1>7. WireGood'
  BY <1>2, NoWireGood DEF WireGood
<1>8. TimesGood'
  <2>1. \A m \in Model : TimeAdvanceOf(m)' \in Nat
    BY <1>3, <1>4, <1>6, TimeAdvances, PeriodsNat, Models
  <2>2. elapsed \in [Model -> Nat] /\ \A m \in Model : elapsed[m] <= TimeAdvanceOf(m)
    BY DEF SimulationInv, TimesGood
  <2>3. ASSUME NEW m \in Model, m \notin moved
        PROVE  TimeAdvanceOf(m)' = TimeAdvanceOf(m)
    <3>1. m \notin imminent /\ ~Receives(m)
      BY <2>3 DEF Transitions
    <3>2. CASE m \in NodeId
      <4>1. nodes'[m] = nodes[m]
        BY <1>2, <3>1, <3>2 DEF AfterTransition, AfterInternal
      <4>2. QED
        BY <3>2, <4>1, TimeAdvances
    <3>3. CASE m = ProducerM
      <4>1. prod' = prod
        BY <1>2, <3>1, <3>3
      <4>2. QED
        BY <3>3, <4>1, TimeAdvances
    <3>4. CASE m = SwitchM
      <4>1. sw' = sw
        BY <1>2, <3>1, <3>4 DEF SwitchAfter
      <4>2. QED
        BY <3>4, <4>1, TimeAdvances
    <3>5. QED
      BY <3>2, <3>3, <3>4, Models
  <2> HIDE DEF moved
  <2>4. ASSUME NEW m \in Model
        PROVE  elapsed'[m] \in Nat /\ elapsed'[m] <= TimeAdvanceOf(m)'
    <3>1. CASE m \in moved
      <4>1. elapsed'[m] = 0
        BY <1>2, <3>1
      <4>2. TimeAdvanceOf(m)' \in Nat
        BY <2>1
      <4>3. QED
        BY <4>1, <4>2
    <3>2. CASE m \notin moved
      BY <1>2, <2>2, <2>3, <3>2
    <3>3. QED
      BY <3>1, <3>2
  <2>5. elapsed' \in [Model -> Nat]
    BY <1>2, <2>4
  <2>6. QED
    BY <2>4, <2>5 DEF TimesGood
<1>9. QED
  BY <1>2, <1>3, <1>5, <1>6, <1>7, <1>8 DEF SimulationInv

LEMMA SimulationInvariant == Spec => []SimulationInv
<1>1. SimulationInv /\ [Next]_vars => SimulationInv'
  <2>1. SimulationInv /\ CollectOutputs => SimulationInv'
    BY CollectGood
  <2>2. SimulationInv /\ AdvanceSimulation => SimulationInv'
    BY AdvanceGood
  <2>3. ASSUME SimulationInv, UNCHANGED vars
        PROVE  SimulationInv'
    <3>1. /\ nodes' = nodes /\ prod' = prod /\ sw' = sw /\ elapsed' = elapsed
          /\ wire' = wire /\ draw' = draw
      BY <2>3 DEF vars
    <3>2. \A m \in Model : TimeAdvanceOf(m)' = TimeAdvanceOf(m)
      BY <3>1, TimeAdvances, Models
    <3>3. TimesGood'
      BY <2>3, <3>1, <3>2 DEF SimulationInv, TimesGood
    <3>4. NodesGood' /\ WireGood'
      BY <2>3, <3>1 DEF SimulationInv, NodesGood, WireGood
    <3>5. QED
      BY <2>3, <3>1, <3>3, <3>4 DEF SimulationInv
  <2>4. QED
    BY <2>1, <2>2, <2>3 DEF Next
<1>2. QED
  BY <1>1, SimulationInit, PTL DEF Spec

(* However requests arrive, messages meet in the switch and executions end,   *)
(* a busy node's time advance is the least lapse of its active subtasks       *)
(* unless the master has to send at once, and no model's event is left behind *)
(* the clock: no end of a subtask is missed or comes late, whatever the job,  *)
(* its deployment and the times drawn.                                        *)
THEOREM LapseIsLeastAlways == Spec => []LapseIsLeast
<1>1. SimulationInv => LapseIsLeast
  <2>1. ASSUME SimulationInv
        PROVE  LapseIsLeast
    <3>1. \A m \in Model : Left(m) >= 0
      BY <2>1, LeftNat
    <3>2. \A n \in NodeId : LapseKnown(nodes[n])
      BY <2>1 DEF SimulationInv, NodesGood, NodeGood
    <3>3. QED
      BY <3>1, <3>2 DEF LapseIsLeast, LapseKnown
  <2>2. QED
    BY <2>1
<1>2. QED
  BY <1>1, SimulationInvariant, PTL

-----------------------------------------------------------------------------
(* How many elements of a sequence are in a set, from one element to the     *)
(* next.                                                                      *)
CountTo(q, S, k) == Cardinality({i \in 1 .. k : q[i] \in S})

(* The number is 0 at first, grows by one with each element in the set, and   *)
(* depends on nothing but which elements are in it.                           *)
LEMMA CountToNat ==
  ASSUME NEW q, NEW S, NEW k \in Nat
  PROVE  CountTo(q, S, k) \in Nat /\ CountTo(q, S, 0) = 0
<1>1. IsFiniteSet(1 .. k)
  BY FS_Interval
<1>2. {i \in 1 .. k : q[i] \in S} \in SUBSET (1 .. k)
  OBVIOUS
<1>3. {i \in 1 .. 0 : q[i] \in S} = {}
  OBVIOUS
<1>4. QED
  BY <1>1, <1>2, <1>3, FS_Subset, FS_CardinalityType, FS_EmptySet DEF CountTo

LEMMA CountToNext ==
  ASSUME NEW q, NEW S, NEW k \in Nat \ {0}
  PROVE  CountTo(q, S, k) = CountTo(q, S, k - 1) + IF q[k] \in S THEN 1 ELSE 0
<1> DEFINE l == k - 1
           In(j) == {i \in 1 .. j : q[i] \in S}
<1>1. l \in Nat /\ k = l + 1 /\ 1 .. k = (1 .. l) \cup {k} /\ k \notin 1 .. l
  OBVIOUS
<1>2. IsFiniteSet(In(l)) /\ k \notin In(l) /\ Cardinality(In(l)) \in Nat
  <2>1. IsFiniteSet(1 .. l) /\ In(l) \in SUBSET (1 .. l)
    BY <1>1, FS_Interval
  <2> HIDE DEF l
  <2>2. QED
    BY <1>1, <2>1, FS_Subset, FS_CardinalityType
<1>3. In(k) = IF q[k] \in S THEN In(l) \cup {k} ELSE In(l)
  <2> HIDE DEF l
  <2>1. QED
    BY <1>1
<1> HIDE DEF l, In
<1>4. Cardinality(In(k)) = Cardinality(In(l)) + IF q[k] \in S THEN 1 ELSE 0
  BY <1>2, <1>3, FS_AddElement
<1>5. QED
  BY <1>4 DEF l, In, CountTo

LEMMA CountToSame ==
  ASSUME NEW k \in Nat, NEW q, NEW r, NEW S, NEW T,
         \A i \in 1 .. k : q[i] \in S <=> r[i] \in T
  PROVE  CountTo(q, S, k) = CountTo(r, T, k)
<1>1. {i \in 1 .. k : q[i] \in S} = {i \in 1 .. k : r[i] \in T}
  OBVIOUS
<1>2. QED
  BY <1>1 DEF CountTo

(* So is the number for the whole sequence, which adds up as the sequence     *)
(* does.                                                                      *)
LEMMA CountIs ==
  ASSUME NEW T, NEW q \in Seq(T), NEW S
  PROVE  Count(q, S) = CountTo(q, S, Len(q)) /\ Count(q, S) \in Nat
<1>1. DOMAIN q = 1 .. Len(q) /\ Len(q) \in Nat
  OBVIOUS
<1>2. QED
  BY ZenonT(40), <1>1, CountToNat DEF Count, CountTo

LEMMA CountEmpty ==
  ASSUME NEW S
  PROVE  Count(<<>>, S) = 0
<1>1. {i \in DOMAIN <<>> : <<>>[i] \in S} = {}
  OBVIOUS
<1>2. QED
  BY <1>1, FS_EmptySet DEF Count

LEMMA CountSame ==
  ASSUME NEW T, NEW q \in Seq(T), NEW U, NEW r \in Seq(U), NEW S, NEW R, Len(q) = Len(r),
         \A i \in 1 .. Len(q) : q[i] \in S <=> r[i] \in R
  PROVE  Count(q, S) = Count(r, R)
<1>1. Len(q) \in Nat
  OBVIOUS
<1>2. QED
  BY <1>1, CountToSame, CountIs

LEMMA CountConcat ==
  ASSUME NEW T, NEW q \in Seq(T), NEW r \in Seq(T), NEW S
  PROVE  Count(q \o r, S) = Count(q, S) + Count(r, S)
<1> DEFINE a == Len(q)
           b == Len(r)
           c == q \o r
           B == {k \in 0 .. b : CountTo(c, S, a + k) = CountTo(q, S, a) + CountTo(r, S, k)}
<1>1. /\ a \in Nat /\ b \in Nat /\ c \in Seq(T) /\ Len(c) = a + b
      /\ \A i \in 1 .. a + b : c[i] = IF i <= a THEN q[i] ELSE r[i - a]
  BY ConcatProperties
<1> HIDE DEF a, b, c
<1>2. 0 \in B
  <2>1. \A i \in 1 .. a : c[i] \in S <=> q[i] \in S
    BY <1>1
  <2>2. CountTo(c, S, a) = CountTo(q, S, a)
    BY SMTT(40), <1>1, <2>1, CountToSame
  <2>3. CountTo(r, S, 0) = 0 /\ CountTo(q, S, a) \in Nat
    BY <1>1, CountToNat
  <2>4. QED
    BY <1>1, <2>2, <2>3
<1>3. ASSUME NEW k \in 1 .. b, k - 1 \in B
      PROVE  k \in B
  <2> DEFINE l == k - 1
             n == a + k
  <2>1. n \in Nat \ {0} /\ n - 1 = a + l /\ k \in Nat \ {0} /\ n \in 1 .. a + b /\ ~(n <= a) /\ n - a = k
    BY <1>1
  <2>2. c[n] = r[k]
    <3> HIDE DEF n
    <3>1. QED
      BY <1>1, <2>1
  <2>3. CountTo(c, S, a + l) = CountTo(q, S, a) + CountTo(r, S, l)
    BY <1>3
  <2>4. CountTo(r, S, k) = CountTo(r, S, l) + IF r[k] \in S THEN 1 ELSE 0
    BY <2>1, CountToNext
  <2>5. CountTo(c, S, n) = CountTo(c, S, a + l) + IF c[n] \in S THEN 1 ELSE 0
    <3> HIDE DEF n, l
    <3>1. CountTo(c, S, n) = CountTo(c, S, n - 1) + IF c[n] \in S THEN 1 ELSE 0
      BY <2>1, CountToNext
    <3>2. QED
      BY <2>1, <3>1
  <2>6. CountTo(q, S, a) \in Nat /\ CountTo(r, S, l) \in Nat
    BY <1>1, CountToNat
  <2>7. CountTo(c, S, n) = CountTo(q, S, a) + CountTo(r, S, k)
    <3> HIDE DEF n, l
    <3>1. QED
      BY <2>2, <2>3, <2>4, <2>5, <2>6
  <2>8. QED
    BY <2>7
<1>4. \A k \in 0 .. b : k \in B
  <2> HIDE DEF B
  <2>1. QED
    BY <1>1, <1>2, <1>3, UpTo
<1>5. CountTo(c, S, a + b) = CountTo(q, S, a) + CountTo(r, S, b)
  BY <1>1, <1>4
<1>6. /\ Count(q, S) = CountTo(q, S, a) /\ Count(r, S) = CountTo(r, S, b)
      /\ Count(c, S) = CountTo(c, S, a + b)
  BY <1>1, CountIs DEF a, b
<1>7. QED
  BY <1>5, <1>6 DEF c

LEMMA CountSingle ==
  ASSUME NEW x, NEW S
  PROVE  Count(<<x>>, S) = IF x \in S THEN 1 ELSE 0
<1>1. {i \in DOMAIN <<x>> : <<x>>[i] \in S} = IF x \in S THEN {1} ELSE {}
  <2>1. DOMAIN <<x>> = {1} /\ <<x>>[1] = x
    OBVIOUS
  <2>2. QED
    BY <2>1
<1>2. QED
  BY <1>1, FS_EmptySet, FS_Singleton DEF Count

LEMMA CountAppend ==
  ASSUME NEW T, NEW q \in Seq(T), NEW x \in T, NEW S
  PROVE  Count(Append(q, x), S) = Count(q, S) + IF x \in S THEN 1 ELSE 0
<1>1. <<x>> \in Seq(T) /\ Append(q, x) = q \o <<x>>
  BY AppendIsConcat
<1>2. Count(q \o <<x>>, S) = Count(q, S) + Count(<<x>>, S)
  BY <1>1, CountConcat
<1>3. Count(<<x>>, S) = IF x \in S THEN 1 ELSE 0
  BY CountSingle
<1>4. QED
  BY <1>1, <1>2, <1>3

LEMMA CountTail ==
  ASSUME NEW T, NEW q \in Seq(T), q # <<>>, NEW S
  PROVE  Count(q, S) = (IF Head(q) \in S THEN 1 ELSE 0) + Count(Tail(q), S)
<1>1. Head(q) \in T /\ Tail(q) \in Seq(T)
  BY HeadTailProperties
<1>2. <<Head(q)>> \in Seq(T) /\ q = <<Head(q)>> \o Tail(q)
  <2> DEFINE n == Len(q)
  <2>1. n \in Nat /\ 1 \in 1 .. n /\ n \in 1 .. n
    BY EmptySeq
  <2>2. SubSeq(q, 1, n) = <<q[1]>> \o SubSeq(q, 2, n)
    BY <2>1, SubSeqRecursiveFirst
  <2>3. SubSeq(q, 1, n) = q /\ Tail(q) = SubSeq(q, 2, n) /\ Head(q) = q[1]
    BY SubSeqFull, TailIsSubSeq
  <2>4. QED
    BY <1>1, <2>2, <2>3
<1>3. Count(<<Head(q)>> \o Tail(q), S) = Count(<<Head(q)>>, S) + Count(Tail(q), S)
  BY <1>1, <1>2, CountConcat
<1>4. QED
  BY <1>2, <1>3, CountSingle

(* The elements in a set that is partitioned are those in its parts. *)
LEMMA CountParts ==
  ASSUME NEW T, NEW q \in Seq(T), NEW D, IsFiniteSet(D), NEW S, NEW part,
         \A i \in 1 .. Len(q) : \A d \in D : q[i] \in part[d] => q[i] \in S,
         \A i \in 1 .. Len(q) : q[i] \in S => \E d \in D : q[i] \in part[d],
         \A i \in 1 .. Len(q) : \A d, e \in D : q[i] \in part[d] /\ q[i] \in part[e] => d = e
  PROVE  Count(q, S) = SumFunctionOnSet([d \in D |-> Count(q, part[d])], D)
<1> DEFINE N == Len(q)
           to(k) == [d \in D |-> CountTo(q, part[d], k)]
           B == {k \in 0 .. N : CountTo(q, S, k) = SumFunctionOnSet(to(k), D)}
<1>1. N \in Nat
  OBVIOUS
<1>2. \A k \in 0 .. N : \A d \in D : to(k)[d] = CountTo(q, part[d], k) /\ to(k)[d] \in Nat
  BY <1>1, CountToNat
<1>3. 0 \in B
  <2>1. \A d \in D : to(0)[d] = 0
    BY <1>1, CountToNat
  <2> HIDE DEF to
  <2>2. SumFunctionOnSet(to(0), D) = 0
    BY <2>1, SumZero
  <2>3. CountTo(q, S, 0) = 0
    BY <1>1, CountToNat
  <2>4. QED
    BY <1>1, <2>2, <2>3
<1> HIDE DEF N, to
<1>4. ASSUME NEW k \in 1 .. N, k - 1 \in B
      PROVE  k \in B
  <2> DEFINE l == k - 1
  <2>1. k \in Nat \ {0} /\ l \in 0 .. N /\ k \in 0 .. N /\ k \in 1 .. Len(q)
    BY <1>1 DEF N
  <2>2. CountTo(q, S, k) = CountTo(q, S, l) + IF q[k] \in S THEN 1 ELSE 0
    BY <2>1, CountToNext
  <2>3. \A d \in D : to(k)[d] = to(l)[d] + IF q[k] \in part[d] THEN 1 ELSE 0
    BY <1>2, <2>1, CountToNext
  <2>4. CountTo(q, S, l) = SumFunctionOnSet(to(l), D)
    BY <1>4
  <2> HIDE DEF l
  <2>5. \A d \in D : to(k)[d] \in Nat /\ to(l)[d] \in Nat
    BY <1>2, <2>1
  <2>6. SumFunctionOnSet(to(l), D) \in Nat
    BY <2>5, SumNat
  <2>7. CASE q[k] \in S
    <3>1. PICK y \in D : q[k] \in part[y]
      BY <2>1, <2>7
    <3>2. \A d \in D : d # y => to(k)[d] = to(l)[d]
      BY <2>1, <2>3, <2>5, <3>1
    <3>3. to(k)[y] = to(l)[y] + 1
      BY <2>3, <3>1
    <3> DEFINE f == to(l)
               g == to(k)
    <3>4. /\ SumFunctionOnSet(g, D) + f[y] = SumFunctionOnSet(f, D) + g[y]
          /\ SumFunctionOnSet(g, D) \in Nat
      <4>1. \A x \in D : f[x] \in Nat /\ g[x] \in Nat
        BY <2>5
      <4>2. \A x \in D : x # y => g[x] = f[x]
        BY <3>2
      <4> HIDE DEF f, g
      <4>3. QED
        BY <4>1, <4>2, SumUpdate
    <3>5. SumFunctionOnSet(to(k), D) = SumFunctionOnSet(to(l), D) + 1
      <4>1. to(l)[y] \in Nat
        BY <2>5
      <4>2. QED
        BY <2>6, <3>3, <3>4, <4>1
    <3>6. QED
      BY <2>1, <2>2, <2>4, <2>7, <3>5
  <2>8. CASE q[k] \notin S
    <3>1. \A d \in D : to(k)[d] = to(l)[d]
      BY <2>1, <2>3, <2>5, <2>8
    <3>2. SumFunctionOnSet(to(k), D) = SumFunctionOnSet(to(l), D)
      BY <2>5, <3>1, SumSame
    <3>3. QED
      BY <2>1, <2>2, <2>4, <2>6, <2>8, <3>2
  <2>9. QED
    BY <2>7, <2>8
<1>5. N \in B
  <2> HIDE DEF B
  <2>1. \A k \in 0 .. N : k \in B
    BY <1>1, <1>3, <1>4, UpTo
  <2>2. QED
    BY <1>1, <2>1
<1>6. CountTo(q, S, N) = Count(q, S) /\ \A d \in D : CountTo(q, part[d], N) = Count(q, part[d])
  BY CountIs DEF N
<1>7. to(N) = [d \in D |-> Count(q, part[d])]
  BY <1>6 DEF to
<1>8. QED
  BY <1>5, <1>6, <1>7

LEMMA CountTwoParts ==
  ASSUME NEW T, NEW q \in Seq(T), NEW S, NEW A, NEW R,
         \A i \in 1 .. Len(q) : q[i] \in S <=> q[i] \in A \/ q[i] \in R,
         \A i \in 1 .. Len(q) : ~(q[i] \in A /\ q[i] \in R)
  PROVE  Count(q, S) = Count(q, A) + Count(q, R)
<1> DEFINE In(X) == {i \in DOMAIN q : q[i] \in X}
<1>1. DOMAIN q = 1 .. Len(q) /\ Len(q) \in Nat
  OBVIOUS
<1>2. \A X : IsFiniteSet(In(X)) /\ Cardinality(In(X)) \in Nat
  <2>1. IsFiniteSet(1 .. Len(q))
    BY <1>1, FS_Interval
  <2>2. \A X : In(X) \in SUBSET (1 .. Len(q))
    BY <1>1
  <2>3. QED
    BY <2>1, <2>2, FS_Subset, FS_CardinalityType
<1>3. In(S) = In(A) \cup In(R) /\ In(A) \cap In(R) = {}
  BY <1>1
<1> HIDE DEF In
<1>4. Cardinality(In(A) \cup In(R))
        = Cardinality(In(A)) + Cardinality(In(R)) - Cardinality(In(A) \cap In(R))
  BY <1>2, FS_Union
<1>5. Cardinality(In(A) \cap In(R)) = 0
  BY <1>3, FS_EmptySet
<1>6. Cardinality(In(S)) = Cardinality(In(A)) + Cardinality(In(R))
  BY <1>2, <1>3, <1>4, <1>5
<1>7. QED
  BY <1>6 DEF Count, In

-----------------------------------------------------------------------------
(* The copies on the slots Q of a node: those prepared in the cores' buffers, *)
(* and those queued.                                                          *)
Prepared(m, Q) == {x \in SubtaskType : x.mssg = m /\ x.slot \in Q}

InBufs(t, m, Q) == SumFunctionOnSet([c \in Core |-> Count(t.bufs[c], Prepared(m, Q))], Core)

InTuples(t, m, Q) == SumFunctionOnSet([s \in Q |-> Count(t.tuples[s], {m})], Q)

(* The copies are those, and a number.                                        *)
LEMMA CopiesAre ==
  ASSUME NEW t, NEW m, NEW Q
  PROVE  CopiesAt(t, m, Q) = InBufs(t, m, Q) + InTuples(t, m, Q)
BY DEF CopiesAt, InBufs, InTuples, Prepared, SumFunction

LEMMA SlotsFinite ==
  ASSUME NEW Q \in SUBSET Slot
  PROVE  IsFiniteSet(Q)
BY JobAssumption, FS_Subset

LEMMA CopiesNat ==
  ASSUME NEW t \in TaskManagerType, NEW m, NEW Q \in SUBSET Slot
  PROVE  /\ \A c \in Core : Count(t.bufs[c], Prepared(m, Q)) \in Nat
         /\ \A s \in Q : Count(t.tuples[s], {m}) \in Nat
         /\ InBufs(t, m, Q) \in Nat /\ InTuples(t, m, Q) \in Nat
         /\ CopiesAt(t, m, Q) \in Nat
<1> DEFINE A == Prepared(m, Q)
           f == [c \in Core |-> Count(t.bufs[c], A)]
           g == [s \in Q |-> Count(t.tuples[s], {m})]
<1>1. \A c \in Core : t.bufs[c] \in Seq(SubtaskType)
  BY DEF TaskManagerType
<1>2. \A s \in Q : t.tuples[s] \in Seq(Mssg)
  BY DEF TaskManagerType
<1> HIDE DEF A
<1>3. \A c \in Core : Count(t.bufs[c], A) \in Nat
  BY <1>1, CountIs
<1>4. \A s \in Q : Count(t.tuples[s], {m}) \in Nat
  BY <1>2, CountIs
<1>5. SumFunctionOnSet(f, Core) \in Nat
  <2>1. \A c \in Core : f[c] \in Nat
    BY <1>3
  <2> HIDE DEF f
  <2>2. QED
    BY <2>1, CoreFinite, SumNat
<1>6. SumFunctionOnSet(g, Q) \in Nat
  <2>1. \A s \in Q : g[s] \in Nat
    BY <1>4
  <2> HIDE DEF g
  <2>2. QED
    BY <2>1, SlotsFinite, SumNat
<1>7. InBufs(t, m, Q) \in Nat /\ InTuples(t, m, Q) \in Nat
  BY <1>5, <1>6 DEF InBufs, InTuples, A
<1>8. CopiesAt(t, m, Q) \in Nat
  BY <1>7, CopiesAre
<1>9. QED
  BY <1>3, <1>4, <1>7, <1>8 DEF A

(* What a change of one buffer, or of one queue, makes of the copies. *)
LEMMA BufsChange ==
  ASSUME NEW t \in TaskManagerType, NEW u \in TaskManagerType, NEW m, NEW Q \in SUBSET Slot,
         NEW core \in Core, \A c \in Core : c # core => u.bufs[c] = t.bufs[c]
  PROVE  InBufs(u, m, Q) + Count(t.bufs[core], Prepared(m, Q))
           = InBufs(t, m, Q) + Count(u.bufs[core], Prepared(m, Q))
<1> DEFINE f == [c \in Core |-> Count(t.bufs[c], Prepared(m, Q))]
           g == [c \in Core |-> Count(u.bufs[c], Prepared(m, Q))]
<1>1. \A c \in Core : f[c] \in Nat /\ g[c] \in Nat
  BY CopiesNat
<1>2. \A c \in Core : c # core => g[c] = f[c]
  OBVIOUS
<1>3. f[core] = Count(t.bufs[core], Prepared(m, Q)) /\ g[core] = Count(u.bufs[core], Prepared(m, Q))
  OBVIOUS
<1>4. InBufs(t, m, Q) = SumFunctionOnSet(f, Core) /\ InBufs(u, m, Q) = SumFunctionOnSet(g, Core)
  BY DEF InBufs
<1> HIDE DEF f, g
<1>5. SumFunctionOnSet(g, Core) + f[core] = SumFunctionOnSet(f, Core) + g[core]
  BY <1>1, <1>2, CoreFinite, SumUpdate
<1>6. QED
  BY <1>3, <1>4, <1>5

LEMMA TuplesChange ==
  ASSUME NEW t \in TaskManagerType, NEW u \in TaskManagerType, NEW m, NEW Q \in SUBSET Slot,
         NEW s \in Slot, \A r \in Slot : r # s => u.tuples[r] = t.tuples[r]
  PROVE  /\ s \in Q => InTuples(u, m, Q) + Count(t.tuples[s], {m})
                         = InTuples(t, m, Q) + Count(u.tuples[s], {m})
         /\ s \notin Q => InTuples(u, m, Q) = InTuples(t, m, Q)
<1> DEFINE f == [r \in Q |-> Count(t.tuples[r], {m})]
           g == [r \in Q |-> Count(u.tuples[r], {m})]
<1>1. \A r \in Q : f[r] \in Nat /\ g[r] \in Nat
  BY CopiesNat
<1>2. \A r \in Q : r # s => g[r] = f[r]
  OBVIOUS
<1>3. s \in Q => f[s] = Count(t.tuples[s], {m}) /\ g[s] = Count(u.tuples[s], {m})
  OBVIOUS
<1>4. InTuples(t, m, Q) = SumFunctionOnSet(f, Q) /\ InTuples(u, m, Q) = SumFunctionOnSet(g, Q)
  BY DEF InTuples
<1>5. IsFiniteSet(Q)
  BY SlotsFinite
<1> HIDE DEF f, g
<1>6. ASSUME s \in Q
      PROVE  SumFunctionOnSet(g, Q) + f[s] = SumFunctionOnSet(f, Q) + g[s]
  BY <1>1, <1>2, <1>5, <1>6, SumUpdate
<1>7. ASSUME s \notin Q
      PROVE  SumFunctionOnSet(g, Q) = SumFunctionOnSet(f, Q)
  <2>1. \A r \in Q : f[r] \in Nat /\ g[r] = f[r]
    BY <1>1, <1>2, <1>7
  <2>2. QED
    BY <1>5, <2>1, SumSame
<1>8. QED
  BY <1>3, <1>4, <1>6, <1>7

LEMMA SameTuples ==
  ASSUME NEW t, NEW u, NEW m, NEW Q, u.tuples = t.tuples
  PROVE  InTuples(u, m, Q) = InTuples(t, m, Q)
BY DEF InTuples

LEMMA SameBufs ==
  ASSUME NEW t, NEW u, NEW m, NEW Q, u.bufs = t.bufs
  PROVE  InBufs(u, m, Q) = InBufs(t, m, Q)
BY DEF InBufs

-----------------------------------------------------------------------------
(* Every method of a task manager accounts for its copies. *)
LEMMA CreateSubTaskCopies ==
  ASSUME NEW t \in TaskManagerType, NEW x \in Mssg, NEW s \in Slot, NEW l \in Nat,
         NEW m, NEW Q \in SUBSET Slot
  PROVE  CopiesAt(CreateSubTask(t, x, s, l), m, Q)
           = CopiesAt(t, m, Q) + IF x = m /\ s \in Q THEN 1 ELSE 0
<1> DEFINE u    == CreateSubTask(t, x, s, l)
           core == LessLoaded(t)
           a    == Subtask(x, s, l)
           A    == Prepared(m, Q)
           one  == IF x = m /\ s \in Q THEN 1 ELSE 0
<1>1. core \in Core
  BY LessLoadedExists
<1>2. a \in SubtaskType /\ (a \in A <=> x = m /\ s \in Q)
  BY DEF Subtask, SubtaskType, Prepared
<1>3. u \in TaskManagerType
  BY CreateSubTaskType
<1>4. u.bufs = [t.bufs EXCEPT ![core] = Append(t.bufs[core], a)] /\ u.tuples = t.tuples
  BY DEF CreateSubTask
<1> HIDE DEF u, core, a, A
<1>5. t.bufs \in [Core -> Seq(SubtaskType)] /\ t.bufs[core] \in Seq(SubtaskType)
  BY <1>1 DEF TaskManagerType
<1>6. /\ \A c \in Core : c # core => u.bufs[c] = t.bufs[c]
      /\ u.bufs[core] = Append(t.bufs[core], a)
  BY <1>1, <1>4, <1>5
<1>7. Count(u.bufs[core], A) = Count(t.bufs[core], A) + one
  BY <1>2, <1>5, <1>6, CountAppend
<1>8. InBufs(u, m, Q) + Count(t.bufs[core], A) = InBufs(t, m, Q) + Count(u.bufs[core], A)
  BY <1>1, <1>3, <1>6, BufsChange DEF A
<1>9. InTuples(u, m, Q) = InTuples(t, m, Q)
  BY <1>4, SameTuples
<1>10. /\ InBufs(u, m, Q) \in Nat /\ InTuples(u, m, Q) \in Nat /\ InBufs(t, m, Q) \in Nat
       /\ Count(t.bufs[core], A) \in Nat /\ one \in Nat
  BY <1>1, <1>3, CopiesNat DEF A
<1> HIDE DEF one
<1>11. CopiesAt(u, m, Q) = CopiesAt(t, m, Q) + one
  <2>1. InBufs(u, m, Q) = InBufs(t, m, Q) + one
    BY <1>7, <1>8, <1>10
  <2>2. QED
    BY <1>9, <1>10, <2>1, CopiesAre
<1>12. QED
  BY <1>11 DEF u, one

LEMMA ScheduleExecCopies ==
  ASSUME NEW t \in TaskManagerType, NEW x \in Mssg, NEW s \in Slot, NEW l \in Nat,
         NEW m, NEW Q \in SUBSET Slot
  PROVE  CopiesAt(ScheduleExec(t, x, s, l), m, Q)
           = CopiesAt(t, m, Q) + IF x = m /\ s \in Q THEN 1 ELSE 0
<1>1. CASE s \notin t.using
  BY <1>1, CreateSubTaskCopies DEF ScheduleExec
<1>2. CASE s \in t.using
  <2> DEFINE u == ScheduleExec(t, x, s, l)
             one == IF x = m THEN 1 ELSE 0
  <2>1. u \in TaskManagerType
    BY ScheduleExecType
  <2>2. u.bufs = t.bufs /\ u.tuples = [t.tuples EXCEPT ![s] = Append(t.tuples[s], x)]
    BY <1>2 DEF ScheduleExec, TaskManagerType
  <2> HIDE DEF u
  <2>3. t.tuples \in [Slot -> Seq(Mssg)] /\ t.tuples[s] \in Seq(Mssg)
    BY DEF TaskManagerType
  <2>4. /\ \A r \in Slot : r # s => u.tuples[r] = t.tuples[r]
        /\ u.tuples[s] = Append(t.tuples[s], x)
    BY <2>2, <2>3
  <2>5. Count(u.tuples[s], {m}) = Count(t.tuples[s], {m}) + one
    BY <2>3, <2>4, CountAppend
  <2>6. InBufs(u, m, Q) = InBufs(t, m, Q)
    BY <2>2, SameBufs
  <2>7. /\ s \in Q => InTuples(u, m, Q) + Count(t.tuples[s], {m})
                        = InTuples(t, m, Q) + Count(u.tuples[s], {m})
        /\ s \notin Q => InTuples(u, m, Q) = InTuples(t, m, Q)
    <3>1. \A r \in Slot : r # s => u.tuples[r] = t.tuples[r]
      BY <2>4
    <3>2. QED
      BY ONLY <2>1, <3>1, TuplesChange, t \in TaskManagerType, s \in Slot, Q \in SUBSET Slot
  <2>8. /\ InTuples(u, m, Q) \in Nat /\ InTuples(t, m, Q) \in Nat /\ InBufs(t, m, Q) \in Nat
        /\ Count(t.tuples[s], {m}) \in Nat
    <3>1. Count(t.tuples[s], {m}) \in Nat
      BY <2>3, CountIs
    <3>2. QED
      BY <2>1, <3>1, CopiesNat
  <2>9. /\ CopiesAt(u, m, Q) = InBufs(u, m, Q) + InTuples(u, m, Q)
        /\ CopiesAt(t, m, Q) = InBufs(t, m, Q) + InTuples(t, m, Q)
    BY CopiesAre
  <2>10. CopiesAt(u, m, Q) = CopiesAt(t, m, Q) + IF x = m /\ s \in Q THEN 1 ELSE 0
    <3>1. CASE s \in Q
      BY <2>5, <2>6, <2>7, <2>8, <2>9, <3>1
    <3>2. CASE s \notin Q
      BY <2>6, <2>7, <2>8, <2>9, <3>2
    <3>3. QED
      BY <3>1, <3>2
  <2>11. QED
    BY <2>10 DEF u
<1>3. QED
  BY <1>1, <1>2

LEMMA CheckQueuedExecutionCopies ==
  ASSUME NEW t \in TaskManagerType, NEW s \in Slot, NEW l,
         t.tuples[s] # <<>> => l \in Nat, NEW m, NEW Q \in SUBSET Slot
  PROVE  CopiesAt(CheckQueuedExecution(t, s, l), m, Q) = CopiesAt(t, m, Q)
<1>1. CASE t.tuples[s] = <<>>
  BY <1>1 DEF CheckQueuedExecution
<1>2. CASE t.tuples[s] # <<>>
  <2> DEFINE u == [t EXCEPT !.tuples = [t.tuples EXCEPT ![s] = Tail(@)]]
             x == Head(t.tuples[s])
             one == IF x = m THEN 1 ELSE 0
             oneQ == IF x = m /\ s \in Q THEN 1 ELSE 0
  <2>1. /\ t.tuples \in [Slot -> Seq(Mssg)] /\ t.tuples[s] \in Seq(Mssg) /\ x \in Mssg
        /\ l \in Nat /\ Tail(t.tuples[s]) \in Seq(Mssg)
    BY <1>2 DEF TaskManagerType
  <2>2. u \in TaskManagerType /\ u.bufs = t.bufs
        /\ u.tuples = [t.tuples EXCEPT ![s] = Tail(t.tuples[s])]
    BY <2>1 DEF TaskManagerType
  <2>3. CheckQueuedExecution(t, s, l) = CreateSubTask(u, x, s, l)
    BY <1>2 DEF CheckQueuedExecution
  <2> HIDE DEF u
  <2>4. /\ \A r \in Slot : r # s => u.tuples[r] = t.tuples[r]
        /\ u.tuples[s] = Tail(t.tuples[s])
    BY <2>1, <2>2
  <2>5. Count(t.tuples[s], {m}) = one + Count(u.tuples[s], {m})
    BY <1>2, <2>1, <2>4, CountTail
  <2> HIDE DEF x
  <2>6. InBufs(u, m, Q) = InBufs(t, m, Q)
    BY <2>2, SameBufs
  <2>7. /\ s \in Q => InTuples(u, m, Q) + Count(t.tuples[s], {m})
                        = InTuples(t, m, Q) + Count(u.tuples[s], {m})
        /\ s \notin Q => InTuples(u, m, Q) = InTuples(t, m, Q)
    <3>1. u \in TaskManagerType /\ \A r \in Slot : r # s => u.tuples[r] = t.tuples[r]
      BY <2>2, <2>4
    <3>2. QED
      BY <3>1, TuplesChange
  <2>8. /\ InTuples(u, m, Q) \in Nat /\ InTuples(t, m, Q) \in Nat /\ InBufs(t, m, Q) \in Nat
        /\ Count(u.tuples[s], {m}) \in Nat
    <3>1. Count(u.tuples[s], {m}) \in Nat
      BY <2>1, <2>4, CountIs
    <3>2. QED
      BY <2>2, <3>1, CopiesNat
  <2>9. /\ CopiesAt(u, m, Q) = InBufs(u, m, Q) + InTuples(u, m, Q)
        /\ CopiesAt(t, m, Q) = InBufs(t, m, Q) + InTuples(t, m, Q)
    BY CopiesAre
  <2>10. CopiesAt(u, m, Q) + oneQ = CopiesAt(t, m, Q)
    <3>1. CASE s \in Q
      <4>1. oneQ = one /\ one \in Nat
        BY <3>1
      <4> HIDE DEF oneQ, one
      <4>2. QED
        BY SMTT(40), <2>5, <2>6, <2>7, <2>8, <2>9, <3>1, <4>1
    <3>2. CASE s \notin Q
      <4>1. oneQ = 0
        BY <3>2
      <4> HIDE DEF oneQ, one
      <4>2. QED
        BY <2>6, <2>7, <2>8, <2>9, <3>2, <4>1
    <3>3. QED
      BY <3>1, <3>2
  <2>11. CopiesAt(CreateSubTask(u, x, s, l), m, Q) = CopiesAt(u, m, Q) + oneQ
    BY <2>1, <2>2, CreateSubTaskCopies
  <2>12. QED
    BY <2>3, <2>10, <2>11
<1>3. QED
  BY <1>1, <1>2

(* Running the active subtasks moves none. *)
LEMMA ElapseCopies ==
  ASSUME NEW t \in TaskManagerType, NEW e \in Nat, NEW recent, NEW m, NEW Q \in SUBSET Slot
  PROVE  CopiesAt(Elapse(t, e, recent), m, Q) = CopiesAt(t, m, Q)
<1> DEFINE u == Elapse(t, e, recent)
           f == [c \in Core |-> Count(t.bufs[c], Prepared(m, Q))]
           g == [c \in Core |-> Count(u.bufs[c], Prepared(m, Q))]
<1>1. u \in TaskManagerType /\ u.tuples = t.tuples
  <2>1. u.tuples = t.tuples
    BY DEF Elapse, TaskManagerType
  <2>2. QED
    BY <2>1, ElapseType
<1>2. \A c \in Core : /\ Len(u.bufs[c]) = Len(t.bufs[c])
                      /\ \A i \in 1 .. Len(t.bufs[c]) : /\ u.bufs[c][i].slot = t.bufs[c][i].slot
                                                        /\ u.bufs[c][i].mssg = t.bufs[c][i].mssg
  BY ElapseSlots
<1> HIDE DEF u
<1>3. \A c \in Core : g[c] = f[c]
  <2>1. ASSUME NEW c \in Core
        PROVE  Count(u.bufs[c], Prepared(m, Q)) = Count(t.bufs[c], Prepared(m, Q))
    <3>1. t.bufs[c] \in Seq(SubtaskType) /\ u.bufs[c] \in Seq(SubtaskType)
      BY <1>1 DEF TaskManagerType
    <3>2. \A i \in 1 .. Len(t.bufs[c]) : t.bufs[c][i] \in Prepared(m, Q) <=> u.bufs[c][i] \in Prepared(m, Q)
      <4>1. \A i \in 1 .. Len(t.bufs[c]) : t.bufs[c][i] \in SubtaskType /\ u.bufs[c][i] \in SubtaskType
        BY <1>2, <3>1
      <4>2. QED
        BY <1>2, <4>1 DEF Prepared
    <3>3. QED
      BY <1>2, <3>1, <3>2, CountSame
  <2>2. QED
    BY <2>1
<1>4. \A c \in Core : f[c] \in Nat
  BY CopiesNat
<1>5. InBufs(t, m, Q) = SumFunctionOnSet(f, Core) /\ InBufs(u, m, Q) = SumFunctionOnSet(g, Core)
  BY DEF InBufs
<1> HIDE DEF f, g
<1>6. SumFunctionOnSet(g, Core) = SumFunctionOnSet(f, Core)
  BY <1>3, <1>4, CoreFinite, SumSame
<1>7. CopiesAt(u, m, Q) = CopiesAt(t, m, Q)
  BY <1>1, <1>5, <1>6, SameTuples, CopiesAre
<1>8. QED
  BY <1>7 DEF u

(* The active subtasks that end are no copies any more. *)
LEMMA TerminateCopies ==
  ASSUME NEW t \in TaskManagerType, NEW m, NEW Q \in SUBSET Slot
  PROVE  CopiesAt(t, m, Q)
           = CopiesAt(TerminateActiveExecutions(t), m, Q)
             + Cardinality({c \in Finishing(t) : ActiveOn(t, c).mssg = m /\ ActiveOn(t, c).slot \in Q})
<1> DEFINE u == TerminateActiveExecutions(t)
           A == Prepared(m, Q)
           E == {c \in Finishing(t) : ActiveOn(t, c).mssg = m /\ ActiveOn(t, c).slot \in Q}
           f == [c \in Core |-> Count(t.bufs[c], A)]
           g == [c \in Core |-> Count(u.bufs[c], A)]
           h == [c \in Core |-> IF c \in E THEN 1 ELSE 0]
<1>1. u \in TaskManagerType /\ u.tuples = t.tuples
  <2>1. u.tuples = t.tuples
    BY DEF TerminateActiveExecutions
  <2>2. QED
    BY <2>1, TerminateType
<1>2. E \subseteq Core
  BY DEF Finishing, Busy
<1>3. ASSUME NEW c \in Core
      PROVE  Count(t.bufs[c], A) = Count(u.bufs[c], A) + IF c \in E THEN 1 ELSE 0
  <2>1. t.bufs[c] \in Seq(SubtaskType) /\ u.bufs[c] \in Seq(SubtaskType)
    BY <1>1 DEF TaskManagerType
  <2>2. CASE c \in Finishing(t)
    <3>1. u.bufs[c] = Tail(t.bufs[c]) /\ t.bufs[c] # <<>>
      BY <2>2 DEF TerminateActiveExecutions, Remaining, Finishing, Busy
    <3>2. ActiveOn(t, c) = Head(t.bufs[c]) /\ Head(t.bufs[c]) \in SubtaskType
      BY <2>1, <3>1 DEF ActiveOn
    <3>3. Head(t.bufs[c]) \in A <=> c \in E
      BY <2>2, <3>2 DEF Prepared
    <3>4. Count(t.bufs[c], A) = (IF Head(t.bufs[c]) \in A THEN 1 ELSE 0) + Count(Tail(t.bufs[c]), A)
      BY <2>1, <3>1, CountTail
    <3>5. Count(u.bufs[c], A) \in Nat
      BY <2>1, CountIs
    <3> HIDE DEF u, E, A
    <3>6. QED
      BY <3>1, <3>3, <3>4, <3>5
  <2>3. CASE c \notin Finishing(t) /\ c \in Busy(t)
    <3>1. u.bufs[c] = RunActive(t, c, LessExecTime(t))
      BY <2>3 DEF TerminateActiveExecutions
    <3>2. LessExecTime(t) \in Nat /\ LessExecTime(t) <= ActiveOn(t, c).lapse
      BY <2>3, FinishingProperties
    <3> HIDE DEF u
    <3>3. /\ Len(u.bufs[c]) = Len(t.bufs[c])
          /\ \A i \in 1 .. Len(t.bufs[c]) : /\ u.bufs[c][i].slot = t.bufs[c][i].slot
                                            /\ u.bufs[c][i].mssg = t.bufs[c][i].mssg
      BY <2>3, <3>1, <3>2, RunActiveType
    <3>4. \A i \in 1 .. Len(t.bufs[c]) : t.bufs[c][i] \in A <=> u.bufs[c][i] \in A
      <4>1. \A i \in 1 .. Len(t.bufs[c]) : t.bufs[c][i] \in SubtaskType /\ u.bufs[c][i] \in SubtaskType
        BY <2>1, <3>3
      <4>2. QED
        BY <3>3, <4>1 DEF Prepared
    <3>5. c \notin E
      BY <2>3
    <3>6. Count(t.bufs[c], A) = Count(u.bufs[c], A)
      BY <2>1, <3>3, <3>4, CountSame
    <3>7. Count(u.bufs[c], A) \in Nat
      BY <2>1, CountIs
    <3> HIDE DEF A, E
    <3>8. QED
      BY <3>5, <3>6, <3>7
  <2>4. CASE c \notin Finishing(t) /\ c \notin Busy(t)
    <3>1. u.bufs[c] = t.bufs[c]
      BY <2>4 DEF TerminateActiveExecutions
    <3>2. c \notin E
      BY <2>4
    <3>3. Count(u.bufs[c], A) \in Nat
      BY <2>1, CountIs
    <3> HIDE DEF A, E, u
    <3>4. QED
      BY <3>1, <3>2, <3>3
  <2>5. QED
    BY <2>2, <2>3, <2>4
<1> HIDE DEF u, E
<1>4. \A c \in Core : f[c] \in Nat /\ g[c] \in Nat
  BY <1>1, CopiesNat
<1>5. \A c \in Core : g[c] \in Nat /\ h[c] \in Nat /\ f[c] = g[c] + h[c]
  <2> HIDE DEF A
  <2>1. QED
    BY <1>3, <1>4
<1>6. \A c \in Core : h[c] = IF c \in E THEN 1 ELSE 0
  OBVIOUS
<1>7. InBufs(t, m, Q) = SumFunctionOnSet(f, Core) /\ InBufs(u, m, Q) = SumFunctionOnSet(g, Core)
  BY DEF InBufs
<1> HIDE DEF f, g, h
<1>8. SumFunctionOnSet(f, Core) = SumFunctionOnSet(g, Core) + SumFunctionOnSet(h, Core)
  BY <1>5, CoreFinite, SumPlus
<1>9. SumFunctionOnSet(h, Core) = Cardinality({c \in Core : c \in E})
  BY <1>6, CoreFinite, SumIndicator
<1>10. {c \in Core : c \in E} = E
  BY <1>2
<1>11. InTuples(u, m, Q) = InTuples(t, m, Q)
  BY <1>1, SameTuples
<1>12. /\ InBufs(u, m, Q) \in Nat /\ InTuples(u, m, Q) \in Nat /\ Cardinality(E) \in Nat
  <2>1. IsFiniteSet(E)
    BY <1>2, CoreFinite, FS_Subset
  <2>2. QED
    BY <1>1, <2>1, CopiesNat, FS_CardinalityType
<1>13. CopiesAt(t, m, Q) = CopiesAt(u, m, Q) + Cardinality(E)
  <2>1. InBufs(t, m, Q) = InBufs(u, m, Q) + Cardinality(E)
    BY <1>7, <1>8, <1>9, <1>10
  <2>2. /\ CopiesAt(u, m, Q) = InBufs(u, m, Q) + InTuples(u, m, Q)
        /\ CopiesAt(t, m, Q) = InBufs(t, m, Q) + InTuples(t, m, Q)
    BY CopiesAre
  <2>3. QED
    BY <1>11, <1>12, <2>1, <2>2
<1>14. QED
  BY <1>13 DEF u, E

-----------------------------------------------------------------------------
(* A located message brings a message to an operator if its slot is one of    *)
(* the operator's, and every slot is of one operator.                         *)
LEMMA BringingTo ==
  ASSUME NEW n \in NodeId, NEW x \in MssgFor(n), NEW m, NEW o
  PROVE  x \in Bringing(m, o) <=> x.mssg = m /\ x.slot \in SlotsOf(n, o)
<1>1. /\ x.node = n /\ x.slot \in Slot
      /\ x = [node |-> x.node, slot |-> x.slot, mssg |-> x.mssg]
  BY DEF MssgFor, Deployed
<1>2. x.mssg = m => x \in [node : NodeId, slot : Slot, mssg : {m}]
  BY <1>1
<1>3. QED
  BY <1>1, <1>2 DEF Bringing, SlotsOf

LEMMA SlotsOfType ==
  ASSUME NEW n, NEW o
  PROVE  SlotsOf(n, o) \in SUBSET Slot
BY DEF SlotsOf

LEMMA OperatorOfSlot ==
  ASSUME NEW n, NEW s \in Deployed(n), NEW o \in Oper
  PROVE  OperatorAt(n, s) = o <=> s \in SlotsOf(n, o)
<1>1. OperatorAt(n, s) \in Oper /\ Location(n, s) \in Locations[OperatorAt(n, s)] /\ s \in Slot
  BY DEF Deployed, OperatorAt
<1>2. \A p, q \in Oper : Location(n, s) \in Locations[p] /\ Location(n, s) \in Locations[q] => p = q
  BY JobAssumption
<1>3. s \in SlotsOf(n, o) <=> Location(n, s) \in Locations[o]
  BY <1>1 DEF SlotsOf
<1>4. QED
  BY <1>1, <1>2, <1>3

(* What a node holds of a message for an operator, when it schedules.         *)
LEMMA ScheduleCopies ==
  ASSUME NEW n \in NodeId, NEW t \in Manager(Deployed(n)), NEW x \in MssgFor(n), NEW d, DrawOK(d),
         NEW m, NEW o
  PROVE  CopiesAt(Schedule(t, x, d), m, SlotsOf(n, o))
           = CopiesAt(t, m, SlotsOf(n, o)) + IF x \in Bringing(m, o) THEN 1 ELSE 0
<1> DEFINE l == d[x.mssg][OperatorAt(n, x.slot)]
<1>1. x.node = n /\ x.slot \in Deployed(n) /\ x.slot \in Slot /\ x.mssg \in Mssg
  BY DEF MssgFor, Deployed
<1>2. OperatorAt(n, x.slot) \in Oper
  BY <1>1, DeployedOperator
<1>3. l \in Nat
  BY <1>1, <1>2, SimulationAssumption DEF DrawOK
<1>4. Schedule(t, x, d) = ScheduleExec(t, x.mssg, x.slot, l)
  BY <1>1 DEF Schedule
<1>5. t \in TaskManagerType /\ SlotsOf(n, o) \in SUBSET Slot
  BY SlotsOfType DEF Manager
<1> HIDE DEF l
<1>6. CopiesAt(ScheduleExec(t, x.mssg, x.slot, l), m, SlotsOf(n, o))
        = CopiesAt(t, m, SlotsOf(n, o)) + IF x.mssg = m /\ x.slot \in SlotsOf(n, o) THEN 1 ELSE 0
  BY <1>1, <1>3, <1>5, ScheduleExecCopies
<1>7. QED
  BY <1>4, <1>6, BringingTo

LEMMA SchedulePendingsCopies ==
  ASSUME NEW n \in NodeId, NEW t \in Manager(Deployed(n)), NEW locs \in Seq(MssgFor(n)),
         NEW d, DrawOK(d), NEW m, NEW o
  PROVE  CopiesAt(SchedulePendings(t, locs, d), m, SlotsOf(n, o))
           = CopiesAt(t, m, SlotsOf(n, o)) + Count(locs, Bringing(m, o))
<1> DEFINE N == Len(locs)
           A == Bringing(m, o)
           C(u) == CopiesAt(u, m, SlotsOf(n, o))
<1>1. PICK after : Scheduling(after, n, t, locs, d)
  BY SchedulePendingsSteps
<1> DEFINE B == {k \in 0 .. N : C(after[k]) = C(t) + CountTo(locs, A, k)}
<1>2. N \in Nat /\ \A k \in 1 .. N : locs[k] \in MssgFor(n)
  OBVIOUS
<1>3. /\ after[0] = t
      /\ \A k \in 1 .. N : after[k] = Schedule(after[k - 1], locs[k], d)
      /\ \A k \in 0 .. N : after[k] \in Manager(Deployed(n))
      /\ SchedulePendings(t, locs, d) = after[N]
  BY <1>1 DEF Scheduling
<1>4. C(t) \in Nat
  BY CopiesNat, SlotsOfType DEF Manager
<1>5. ASSUME NEW k \in 1 .. N
      PROVE  C(after[k]) = C(after[k - 1]) + IF locs[k] \in A THEN 1 ELSE 0
  <2> DEFINE l == k - 1
  <2>1. l \in 0 .. N /\ locs[k] \in MssgFor(n) /\ after[k] = Schedule(after[l], locs[k], d)
    BY <1>2, <1>3
  <2> HIDE DEF l
  <2>2. after[l] \in Manager(Deployed(n))
    BY <1>3, <2>1
  <2>3. C(Schedule(after[l], locs[k], d)) = C(after[l]) + IF locs[k] \in A THEN 1 ELSE 0
    BY <2>1, <2>2, ScheduleCopies
  <2>4. QED
    BY <2>1, <2>3 DEF l
<1> HIDE DEF C, N, A
<1>6. 0 \in B
  BY <1>2, <1>3, <1>4, CountToNat
<1>7. ASSUME NEW k \in 1 .. N, k - 1 \in B
      PROVE  k \in B
  <2> DEFINE l == k - 1
  <2>1. k \in Nat \ {0} /\ l \in Nat /\ k \in 0 .. N
    BY <1>2
  <2>2. CountTo(locs, A, k) = CountTo(locs, A, l) + IF locs[k] \in A THEN 1 ELSE 0
    BY <2>1, CountToNext
  <2>3. C(after[l]) = C(t) + CountTo(locs, A, l)
    BY <1>7
  <2>4. C(after[k]) = C(after[l]) + IF locs[k] \in A THEN 1 ELSE 0
    BY <1>5
  <2> HIDE DEF l
  <2>5. CountTo(locs, A, l) \in Nat
    BY <2>1, CountToNat
  <2>6. C(after[k]) = C(t) + CountTo(locs, A, k)
    BY <1>4, <2>2, <2>3, <2>4, <2>5
  <2>7. QED
    BY <2>1, <2>6
<1>8. N \in B
  <2> HIDE DEF B
  <2>1. \A k \in 0 .. N : k \in B
    BY <1>2, <1>6, <1>7, UpTo
  <2>2. QED
    BY <1>2, <2>1
<1>9. C(after[N]) = C(t) + CountTo(locs, A, N)
  BY <1>8
<1>10. Count(locs, A) = CountTo(locs, A, N)
  BY CountIs DEF N
<1>11. QED
  BY <1>3, <1>9, <1>10 DEF C, A, N

LEMMA CheckSlotCopies ==
  ASSUME NEW n, NEW t \in Manager(Deployed(n)), NEW s \in Slot \cup {NoSlot}, NEW d, DrawOK(d),
         NEW m, NEW Q \in SUBSET Slot
  PROVE  CopiesAt(CheckSlot(t, s, n, d), m, Q) = CopiesAt(t, m, Q)
<1>1. CASE s = NoSlot
  BY <1>1 DEF CheckSlot
<1>2. CASE s # NoSlot
  <2> DEFINE l == d[Head(t.tuples[s])][OperatorAt(n, s)]
  <2>1. s \in Slot /\ t \in TaskManagerType /\ OnSlots(t, Deployed(n))
    BY <1>2 DEF Manager
  <2>2. ASSUME t.tuples[s] # <<>>
        PROVE  l \in Nat
    <3>1. Head(t.tuples[s]) \in Mssg
      BY <2>1, <2>2 DEF TaskManagerType
    <3>2. OperatorAt(n, s) \in Oper
      BY <2>1, <2>2, DeployedOperator DEF OnSlots
    <3>3. QED
      BY <3>1, <3>2, SimulationAssumption DEF DrawOK
  <2>3. CheckSlot(t, s, n, d) = CheckQueuedExecution(t, s, l)
    BY <1>2 DEF CheckSlot
  <2> HIDE DEF l
  <2>4. QED
    BY <2>1, <2>2, <2>3, CheckQueuedExecutionCopies
<1>3. QED
  BY <1>1, <1>2

LEMMA CheckQueuedCopies ==
  ASSUME NEW n, NEW t \in Manager(Deployed(n)), NEW used \in [Core -> Slot \cup {NoSlot}],
         NEW d, DrawOK(d), NEW m, NEW Q \in SUBSET Slot
  PROVE  CopiesAt(CheckQueued(t, used, n, d), m, Q) = CopiesAt(t, m, Q)
<1> DEFINE S == {u \in Manager(Deployed(n)) : CopiesAt(u, m, Q) = CopiesAt(t, m, Q)}
<1>1. PICK after : Checking(after, n, t, used, d)
  BY CheckQueuedSteps
<1>2. /\ after[0] = t
      /\ \A k \in 1 .. NCores : after[k] = CheckSlot(after[k - 1], used[k - 1], n, d)
      /\ CheckQueued(t, used, n, d) = after[NCores]
  BY <1>1 DEF Checking
<1>3. NCores \in Nat /\ \A k \in 1 .. NCores : used[k - 1] \in Slot \cup {NoSlot}
  BY NCoresAssumption DEF Core
<1>4. ASSUME NEW u \in S, NEW s \in Slot \cup {NoSlot}
      PROVE  CheckSlot(u, s, n, d) \in S
  <2>1. CheckSlot(u, s, n, d) \in Manager(Deployed(n))
    BY CheckSlotManager
  <2>2. CopiesAt(CheckSlot(u, s, n, d), m, Q) = CopiesAt(u, m, Q)
    BY CheckSlotCopies
  <2>3. QED
    BY <2>1, <2>2
<1>5. after[0] \in S
  BY <1>2
<1> HIDE DEF S
<1>6. \A k \in 1 .. NCores : after[k - 1] \in S => after[k] \in S
  BY <1>2, <1>3, <1>4
<1>7. \A k \in 0 .. NCores : after[k] \in S
  BY <1>3, <1>5, <1>6, StaysIn
<1>8. NCores \in 0 .. NCores
  BY <1>3
<1>9. QED
  BY <1>2, <1>7, <1>8 DEF S
-----------------------------------------------------------------------------
(* What the couplings keep of what the nodes send. *)
LEMMA ForNodesCount ==
  ASSUME NEW S, NEW locs \in Seq(S), NEW ns, NEW A
  PROVE  Count(ForNodes(locs, ns), A) = Count(locs, {x \in A : x.node \in ns})
<1> DEFINE N == Len(locs)
           R == {x \in A : x.node \in ns}
<1>1. PICK kept : Keeping(kept, locs, ns, S)
  BY ForNodesSteps
<1> DEFINE B == {k \in 0 .. N : Count(kept[k], A) = CountTo(locs, R, k)}
<1>2. /\ kept[0] = <<>>
      /\ \A k \in 1 .. N :
           kept[k] = kept[k - 1] \o (IF locs[k].node \in ns THEN <<locs[k]>> ELSE <<>>)
      /\ \A k \in 0 .. N : kept[k] \in Seq(S)
      /\ ForNodes(locs, ns) = kept[N]
  BY <1>1 DEF Keeping
<1>3. N \in Nat /\ \A k \in 1 .. N : locs[k] \in S
  OBVIOUS
<1>4. \A x : x \in R <=> x \in A /\ x.node \in ns
  OBVIOUS
<1>5. Count(locs, R) = CountTo(locs, R, N)
  BY CountIs
<1> HIDE DEF N, R
<1>6. 0 \in B
  <2>1. Count(<<>>, A) = 0 /\ CountTo(locs, R, 0) = 0
    BY <1>3, CountEmpty, CountToNat
  <2>2. QED
    BY <1>2, <1>3, <2>1
<1>7. ASSUME NEW k \in 1 .. N, k - 1 \in B
      PROVE  k \in B
  <2> DEFINE l == k - 1
             x == locs[k]
             more == IF x.node \in ns THEN <<x>> ELSE <<>>
  <2>1. k \in Nat \ {0} /\ l \in 0 .. N /\ l \in Nat /\ k \in 0 .. N /\ x \in S
    BY <1>3
  <2>2. kept[k] = kept[l] \o more /\ kept[l] \in Seq(S)
    BY <1>2, <2>1
  <2>3. CountTo(locs, R, k) = CountTo(locs, R, l) + IF x \in R THEN 1 ELSE 0
    BY <2>1, CountToNext
  <2>4. Count(kept[l], A) = CountTo(locs, R, l)
    BY <1>7
  <2> HIDE DEF l, x
  <2>5. more \in Seq(S)
    BY <2>1
  <2>6. Count(more, A) = IF x \in R THEN 1 ELSE 0
    <3>1. CASE x.node \in ns
      <4>1. Count(<<x>>, A) = IF x \in A THEN 1 ELSE 0
        BY CountSingle
      <4>2. QED
        BY <1>4, <3>1, <4>1
    <3>2. CASE x.node \notin ns
      <4>1. Count(<<>>, A) = 0
        BY CountEmpty
      <4>2. QED
        BY <1>4, <3>2, <4>1
    <3>3. QED
      BY <3>1, <3>2
  <2> HIDE DEF more
  <2>7. Count(kept[l] \o more, A) = Count(kept[l], A) + Count(more, A)
    BY <2>2, <2>5, CountConcat
  <2>8. QED
    BY <2>1, <2>2, <2>3, <2>4, <2>6, <2>7
<1>8. N \in B
  <2> HIDE DEF B
  <2>1. \A k \in 0 .. N : k \in B
    BY <1>3, <1>6, <1>7, UpTo
  <2>2. QED
    BY <1>3, <2>1
<1>9. Count(kept[N], A) = CountTo(locs, R, N)
  BY <1>8
<1>10. Count(ForNodes(locs, ns), A) = Count(locs, R)
  BY <1>2, <1>5, <1>9
<1>11. QED
  BY <1>10 DEF R

(* The sequences that are put together are those of the members of a set D,   *)
(* once each.                                                                 *)
Weighed(seqs, T, N, A, D, idx, w) ==
  /\ seqs \in [1 .. N -> Seq(T)] /\ N \in Nat /\ IsFiniteSet(D)
  /\ idx \in [1 .. N -> D]
  /\ \A i, j \in 1 .. N : idx[i] = idx[j] => i = j
  /\ \A y \in D : \E i \in 1 .. N : idx[i] = y
  /\ \A i \in 1 .. N : w[idx[i]] = Count(seqs[i], A)

LEMMA TogetherCount ==
  ASSUME NEW seqs, NEW T, NEW N, NEW A, NEW D, NEW idx, NEW w,
         Weighed(seqs, T, N, A, D, idx, w)
  PROVE  Count(Together(seqs), A) = SumFunctionOnSet(w, D)
<1> seqs \in [1 .. N -> Seq(T)] /\ N \in Nat /\ IsFiniteSet(D) /\ idx \in [1 .. N -> D]
  BY DEF Weighed
<1> /\ \A i, j \in 1 .. N : idx[i] = idx[j] => i = j
    /\ \A y \in D : \E i \in 1 .. N : idx[i] = y
    /\ \A i \in 1 .. N : w[idx[i]] = Count(seqs[i], A)
  BY DEF Weighed
<1>1. PICK all : Joining(all, seqs, N, T)
  BY TogetherSteps
<1>2. /\ all[0] = <<>>
      /\ \A k \in 1 .. N : all[k] = all[k - 1] \o seqs[k]
      /\ \A k \in 0 .. N : all[k] \in Seq(T)
      /\ Together(seqs) = all[N]
  BY <1>1 DEF Joining
<1> DEFINE Upto(k) == {idx[i] : i \in 1 .. k}
           B == {k \in 0 .. N : Count(all[k], A) = SumFunctionOnSet(w, Upto(k))}
<1>3. \A i \in 1 .. N : seqs[i] \in Seq(T)
  OBVIOUS
<1>4. \A y \in D : w[y] \in Nat
  <2>1. \A i \in 1 .. N : w[idx[i]] \in Nat
    BY <1>3, CountIs
  <2>2. QED
    BY <2>1
<1>5. \A k \in 0 .. N : Upto(k) \in SUBSET D
  OBVIOUS
<1>6. ASSUME NEW k \in 1 .. N
      PROVE  Upto(k) = Upto(k - 1) \cup {idx[k]} /\ idx[k] \notin Upto(k - 1)
  <2>1. \A i : i \in 1 .. k <=> i \in 1 .. (k - 1) \/ i = k
    OBVIOUS
  <2>2. Upto(k) = Upto(k - 1) \cup {idx[k]}
    BY <2>1
  <2>3. \A i \in 1 .. (k - 1) : i \in 1 .. N /\ i # k
    OBVIOUS
  <2>4. QED
    BY <2>2, <2>3
<1>7. Upto(0) = {} /\ Upto(N) = D
  OBVIOUS
<1> HIDE DEF Upto
<1>8. 0 \in B
  <2>1. Count(<<>>, A) = 0 /\ SumFunctionOnSet(w, {}) = 0 /\ 0 \in 0 .. N
    BY CountEmpty, SumEmpty
  <2>2. QED
    BY <1>2, <1>7, <2>1
<1>9. ASSUME NEW k \in 1 .. N, k - 1 \in B
      PROVE  k \in B
  <2> DEFINE l == k - 1
             y == idx[k]
  <2>1. l \in 0 .. N /\ k \in 0 .. N /\ y \in D
    OBVIOUS
  <2>2. all[k] = all[l] \o seqs[k] /\ all[l] \in Seq(T)
    BY <1>2, <2>1
  <2>3. Count(all[l], A) = SumFunctionOnSet(w, Upto(l))
    BY <1>9
  <2>4. Upto(k) = Upto(l) \cup {y} /\ y \notin Upto(l)
    BY <1>6
  <2>5. w[y] = Count(seqs[k], A)
    OBVIOUS
  <2>6. Count(all[l] \o seqs[k], A) = Count(all[l], A) + Count(seqs[k], A)
    BY <1>3, <2>2, CountConcat
  <2>7. Count(all[l], A) \in Nat
    BY <2>2, CountIs
  <2> HIDE DEF l, y
  <2>8. IsFiniteSet(Upto(l)) /\ w[y] \in Nat /\ \A x \in Upto(l) : w[x] \in Nat
    BY <1>4, <1>5, <2>1, FS_Subset
  <2>9. SumFunctionOnSet(w, Upto(l) \cup {y}) = w[y] + SumFunctionOnSet(w, Upto(l))
    BY <2>4, <2>8, SumAdd
  <2>10. Count(all[k], A) = SumFunctionOnSet(w, Upto(k))
    BY <2>2, <2>3, <2>4, <2>5, <2>6, <2>7, <2>8, <2>9
  <2>11. QED
    BY <2>1, <2>10
<1>10. N \in B
  <2> HIDE DEF B
  <2>1. \A k \in 0 .. N : k \in B
    BY <1>8, <1>9, UpTo
  <2>2. QED
    BY <2>1
<1>11. QED
  BY <1>2, <1>7, <1>10

-----------------------------------------------------------------------------
(* What is sent to an operator, and where load balancing locates it. *)
SentTo(m, o) == {x \in Sending : x.mssg = m /\ x.oper = o}

(* A copy is located for the operator that it was sent to, and load balancing *)
(* drops none.                                                                *)
LEMMA BringingLocated ==
  ASSUME NEW p \in Oper, NEW loc \in Locations[p], NEW x \in Mssg, NEW m, NEW o \in Oper
  PROVE  LocatedMssg(loc, x) \in Bringing(m, o) <=> x = m /\ p = o
<1>1. loc \in [node : NodeId, slot : Slot]
  BY JobAssumption
<1>2. Location(loc.node, loc.slot) = loc
  BY <1>1 DEF Location
<1>3. loc \in Locations[o] <=> p = o
  BY JobAssumption
<1>4. x = m => LocatedMssg(loc, x) \in [node : NodeId, slot : Slot, mssg : {m}]
  BY <1>1 DEF LocatedMssg
<1>5. /\ LocatedMssg(loc, x).mssg = x /\ LocatedMssg(loc, x).node = loc.node
      /\ LocatedMssg(loc, x).slot = loc.slot
  BY DEF LocatedMssg
<1>6. LocatedMssg(loc, x) \in Bringing(m, o) => LocatedMssg(loc, x).mssg = m
  BY DEF Bringing
<1>7. LocatedMssg(loc, x) \in Bringing(m, o) => loc \in Locations[o]
  BY <1>2, <1>5 DEF Bringing
<1>8. x = m /\ loc \in Locations[o] => LocatedMssg(loc, x) \in Bringing(m, o)
  BY <1>2, <1>4, <1>5 DEF Bringing
<1>9. QED
  BY <1>3, <1>5, <1>6, <1>7, <1>8

LEMMA BalancedCount ==
  ASSUME NEW tms, NEW all \in Seq(Sending), NEW out \in Balanced(tms, all), NEW m, NEW o \in Oper
  PROVE  /\ out \in Seq(Located)
         /\ Count(out, Bringing(m, o)) = Count(all, SentTo(m, o))
<1>1. /\ DOMAIN out = DOMAIN all
      /\ out = [i \in DOMAIN out |-> out[i]]
      /\ \A i \in DOMAIN all : \E loc \in OperLocationLessload(tms, all[i].oper) :
            out[i] = LocatedMssg(loc, all[i].mssg)
  BY DEF Balanced
<1>2. DOMAIN all = 1 .. Len(all) /\ Len(all) \in Nat /\ \A i \in 1 .. Len(all) : all[i] \in Sending
  OBVIOUS
<1>3. \A i \in 1 .. Len(all) :
        /\ out[i] \in Located
        /\ out[i] \in Bringing(m, o) <=> all[i] \in SentTo(m, o)
  <2>1. ASSUME NEW i \in 1 .. Len(all)
        PROVE  /\ out[i] \in Located
               /\ out[i] \in Bringing(m, o) <=> all[i] \in SentTo(m, o)
    <3>1. all[i].oper \in Oper /\ all[i].mssg \in Mssg /\ all[i] \in Sending
      BY <1>2 DEF Sending
    <3>2. PICK loc \in OperLocationLessload(tms, all[i].oper) :
                 out[i] = LocatedMssg(loc, all[i].mssg)
      BY <1>1, <1>2
    <3>3. loc \in Locations[all[i].oper]
      BY DEF OperLocationLessload, ShorterQueue
    <3>4. out[i] \in Located
      BY <3>1, <3>2, <3>3, MessageForLocation
    <3>5. out[i] \in Bringing(m, o) <=> all[i].mssg = m /\ all[i].oper = o
      BY <3>1, <3>2, <3>3, BringingLocated
    <3>6. QED
      BY <3>1, <3>4, <3>5 DEF SentTo
  <2>2. QED
    BY <2>1
<1>4. out \in [1 .. Len(all) -> Located]
  BY <1>1, <1>2, <1>3
<1>5. out \in Seq(Located) /\ Len(out) = Len(all)
  BY <1>2, <1>4, SeqDef
<1>6. Count(out, Bringing(m, o)) = Count(all, SentTo(m, o))
  BY <1>3, <1>5, CountSame
<1>7. QED
  BY <1>5, <1>6

(* An operator that ends sends one message per destination. *)
LEMMA OutgoingCount ==
  ASSUME NEW n, NEW a \in SubtaskOn(Deployed(n)), NEW m, NEW o \in Oper
  PROVE  Count(Outgoing(n, a), SentTo(m, o))
           = IF a.mssg = m /\ OperatorAt(n, a.slot) \notin EndOps
             THEN Count(Dest[OperatorAt(n, a.slot)], {o}) ELSE 0
<1> DEFINE p == OperatorAt(n, a.slot)
           q == Outgoing(n, a)
<1>1. a.slot \in Deployed(n) /\ a.mssg \in Mssg
  BY DEF SubtaskOn
<1>2. p \in Oper /\ Dest[p] \in Seq(Oper)
  BY <1>1, DeployedOperator, JobAssumption
<1>3. q \in Seq(Sending)
  BY OutgoingType
<1>4. q = IF p \in EndOps THEN <<>>
          ELSE [d \in DOMAIN Dest[p] |-> [mssg |-> a.mssg, oper |-> Dest[p][d]]]
  BY DEF Outgoing, LastOperator
<1> HIDE DEF p, q
<1>5. CASE p \in EndOps
  <2>1. Count(<<>>, SentTo(m, o)) = 0
    BY CountEmpty
  <2>2. QED
    BY <1>4, <1>5, <2>1 DEF p, q
<1>6. CASE p \notin EndOps
  <2>1. /\ DOMAIN Dest[p] = 1 .. Len(Dest[p]) /\ Len(Dest[p]) \in Nat
        /\ \A d \in 1 .. Len(Dest[p]) : Dest[p][d] \in Oper
    BY <1>2
  <2>2. q = [d \in 1 .. Len(Dest[p]) |-> [mssg |-> a.mssg, oper |-> Dest[p][d]]]
    BY <1>4, <1>6, <2>1
  <2>3. Len(q) = Len(Dest[p])
    BY <2>1, <2>2
  <2>4. \A d \in 1 .. Len(q) : q[d] \in SentTo(m, o) <=> a.mssg = m /\ Dest[p][d] = o
    BY <1>1, <2>1, <2>2, <2>3 DEF SentTo, Sending
  <2>5. CASE a.mssg = m
    <3>1. \A d \in 1 .. Len(q) : q[d] \in SentTo(m, o) <=> Dest[p][d] \in {o}
      BY <2>4, <2>5
    <3>2. Count(q, SentTo(m, o)) = Count(Dest[p], {o})
      BY <1>2, <1>3, <2>3, <3>1, CountSame
    <3>3. QED
      BY <1>6, <2>5, <3>2 DEF p, q
  <2>6. CASE a.mssg # m
    <3>1. DOMAIN q = 1 .. Len(q)
      BY <1>3
    <3>2. {d \in DOMAIN q : q[d] \in SentTo(m, o)} = {}
      BY <2>4, <2>6, <3>1
    <3>3. Count(q, SentTo(m, o)) = 0
      BY <3>2, FS_EmptySet DEF Count
    <3>4. QED
      BY <2>6, <3>3 DEF q
  <2>7. QED
    BY <2>5, <2>6
<1>7. QED
  BY <1>5, <1>6

(* The messages that leave a node are those of the subtasks that end, less    *)
(* the ones that a selective operator may drop.                               *)
Leaving(n, t, m, o) == [c \in Core |-> Count(Outgoing(n, ActiveOn(t, c)), SentTo(m, o))]

LEMMA FinishingSubtask ==
  ASSUME NEW D \in SUBSET Slot, NEW t \in Manager(D), NEW c \in Finishing(t)
  PROVE  ActiveOn(t, c) \in SubtaskOn(D) /\ c \in Core
<1>1. c \in Core /\ t.bufs[c] # <<>>
  BY DEF Finishing, Busy
<1>2. t.bufs[c] \in Seq(SubtaskOn(D))
  BY <1>1 DEF Manager, OnSlots
<1>3. QED
  BY <1>1, <1>2 DEF ActiveOn

LEMMA FinishingFinite ==
  ASSUME NEW t
  PROVE  IsFiniteSet(Finishing(t)) /\ Finishing(t) \subseteq Core
<1>1. Finishing(t) \subseteq Core
  BY DEF Finishing, Busy
<1>2. QED
  BY <1>1, CoreFinite, FS_Subset

SentByEnds(n, t, out, m, o) ==
  \E A \in SUBSET Finishing(t) :
    /\ \A c \in Finishing(t) \ A : OperatorAt(n, ActiveOn(t, c).slot) \in Selective
    /\ Count(out, Bringing(m, o)) = SumFunctionOnSet(Leaving(n, t, m, o), A)

LEMMA DestinationsCount ==
  ASSUME NEW tms, NEW n, tms[n] \in Manager(Deployed(n)),
         NEW out \in NextOperatorDestinations(tms, n), NEW m, NEW o \in Oper
  PROVE  SentByEnds(n, tms[n], out, m, o)
<1> DEFINE t == tms[n]
           Messages(order) == [i \in DOMAIN order |-> Outgoing(n, ActiveOn(t, order[i]))]
           kept == {c \in Finishing(t) : OperatorAt(n, ActiveOn(t, c).slot) \notin Selective}
<1>1. PICK order \in SendOrders(t, n) : out \in Balanced(tms, Together(Messages(order)))
  BY DEF NextOperatorDestinations
<1>2. PICK dropped \in SUBSET (Finishing(t) \ kept) : order \in SetToSeqs(kept \cup dropped)
  BY <1>1 DEF SendOrders
<1> DEFINE A == kept \cup dropped
           N == Cardinality(A)
<1>3. /\ order \in [1 .. N -> A]
      /\ \A i, j \in 1 .. N : order[i] = order[j] => i = j
  BY <1>2 DEF SetToSeqs
<1>4. A \in SUBSET Finishing(t)
  OBVIOUS
<1>5. \A c \in Finishing(t) \ A : OperatorAt(n, ActiveOn(t, c).slot) \in Selective
  OBVIOUS
<1>6. \A c \in Finishing(t) : ActiveOn(t, c) \in SubtaskOn(Deployed(n)) /\ c \in Core
  <2>1. Deployed(n) \in SUBSET Slot
    BY DEF Deployed
  <2>2. QED
    BY <2>1, FinishingSubtask
<1>7. \A c \in Finishing(t) :
        /\ Outgoing(n, ActiveOn(t, c)) \in Seq(Sending)
        /\ Leaving(n, t, m, o)[c] = Count(Outgoing(n, ActiveOn(t, c)), SentTo(m, o))
  BY <1>6, OutgoingType DEF Leaving
<1> HIDE DEF A, t, kept
<1>8. IsFiniteSet(A) /\ N \in Nat
  BY <1>4, FinishingFinite, FS_Subset, FS_CardinalityType
<1>9. \A y \in A : \E i \in 1 .. N : order[i] = y
  <2>1. order \in Injection(1 .. N, A)
    BY <1>3 DEF Injection, IsInjective
  <2>2. Cardinality(1 .. N) = N
    <3> HIDE DEF N
    <3>1. QED
      BY <1>8, FS_Interval
  <2>3. order \in Surjection(1 .. N, A)
    BY <1>8, <2>1, <2>2, FS_Injection
  <2>4. QED
    BY <2>3 DEF Surjection
<1> HIDE DEF N
<1>10. DOMAIN order = 1 .. N /\ \A i \in 1 .. N : order[i] \in Finishing(t)
  BY <1>3, <1>4
<1>11. Messages(order) \in [1 .. N -> Seq(Sending)]
  BY <1>7, <1>10
<1>12. \A i \in 1 .. N : Leaving(n, t, m, o)[order[i]] = Count(Messages(order)[i], SentTo(m, o))
  BY <1>7, <1>10
<1> HIDE DEF Messages
<1>13. Together(Messages(order)) \in Seq(Sending)
  BY <1>8, <1>11, TogetherType
<1>14. Count(out, Bringing(m, o)) = Count(Together(Messages(order)), SentTo(m, o))
  BY <1>1, <1>13, BalancedCount
<1>15. Count(Together(Messages(order)), SentTo(m, o)) = SumFunctionOnSet(Leaving(n, t, m, o), A)
  <2> DEFINE w == Leaving(n, t, m, o)
             seqs == Messages(order)
             R == SentTo(m, o)
  <2>1. \A i \in 1 .. N : w[order[i]] = Count(seqs[i], R)
    BY <1>12
  <2>2. seqs \in [1 .. N -> Seq(Sending)]
    BY <1>11
  <2> HIDE DEF w, seqs, R
  <2>3. Weighed(seqs, Sending, N, R, A, order, w)
    BY <1>3, <1>8, <1>9, <2>1, <2>2 DEF Weighed
  <2>4. Count(Together(seqs), R) = SumFunctionOnSet(w, A)
    BY <2>3, TogetherCount
  <2>5. QED
    BY <2>4 DEF w, seqs, R
<1>16. QED
  BY <1>4, <1>5, <1>14, <1>15 DEF t, SentByEnds

-----------------------------------------------------------------------------
(* The subtasks of a task manager that end for a message at an operator, and  *)
(* what they send on to another.                                              *)
EndsOf(n, t, m, p) ==
  Cardinality({c \in Finishing(t) :
    ActiveOn(t, c).mssg = m /\ OperatorAt(n, ActiveOn(t, c).slot) = p})

Forward(ends, o) == [p \in Oper \ EndOps |-> ends[p] * Count(Dest[p], {o})]

Forwarded(ends, o) == SumFunctionOnSet(Forward(ends, o), Oper \ EndOps)

LEMMA DestCount ==
  ASSUME NEW p \in Oper, NEW o
  PROVE  Count(Dest[p], {o}) \in Nat
<1>1. Dest[p] \in Seq(Oper)
  BY JobAssumption
<1>2. QED
  BY <1>1, CountIs

LEMMA EndsOfNat ==
  ASSUME NEW n, NEW t, NEW m, NEW p
  PROVE  EndsOf(n, t, m, p) \in Nat
<1> DEFINE E == {c \in Finishing(t) :
                   ActiveOn(t, c).mssg = m /\ OperatorAt(n, ActiveOn(t, c).slot) = p}
<1>1. E \subseteq Finishing(t)
  OBVIOUS
<1> HIDE DEF E
<1>2. IsFiniteSet(E)
  BY <1>1, FinishingFinite, FS_Subset
<1>3. QED
  BY <1>2, FS_CardinalityType DEF EndsOf, E

(* The sums over operators and nodes are of finitely many.                    *)
LEMMA OperFinite ==
  /\ IsFiniteSet(Oper \ EndOps)
  /\ IsFiniteSet(NodeId)
<1>1. IsFiniteSet(Oper \ EndOps)
  BY JobAssumption, FS_Subset
<1>2. IsFiniteSet(NodeId)
  BY JobAssumption, FS_Interval DEF NodeId
<1>3. QED
  BY <1>1, <1>2

(* Each subtask that ends sends on to the destinations of its operator, so    *)
(* all of them send what their ends forward.                                  *)
LEMMA LeavingCount ==
  ASSUME NEW n, NEW t \in Manager(Deployed(n)), NEW m, NEW o \in Oper, NEW c \in Finishing(t)
  PROVE  /\ Leaving(n, t, m, o)[c]
              = IF ActiveOn(t, c).mssg = m /\ OperatorAt(n, ActiveOn(t, c).slot) \notin EndOps
                THEN Count(Dest[OperatorAt(n, ActiveOn(t, c).slot)], {o}) ELSE 0
         /\ Leaving(n, t, m, o)[c] \in Nat
         /\ OperatorAt(n, ActiveOn(t, c).slot) \in Oper
<1> DEFINE a == ActiveOn(t, c)
<1>1. a \in SubtaskOn(Deployed(n)) /\ c \in Core
  <2>1. Deployed(n) \in SUBSET Slot
    BY DEF Deployed
  <2>2. QED
    BY <2>1, FinishingSubtask
<1>2. Leaving(n, t, m, o)[c] = Count(Outgoing(n, a), SentTo(m, o))
  BY <1>1 DEF Leaving
<1>3. OperatorAt(n, a.slot) \in Oper
  BY <1>1, DeployedOperator DEF SubtaskOn
<1> HIDE DEF a
<1>4. Leaving(n, t, m, o)[c]
        = IF a.mssg = m /\ OperatorAt(n, a.slot) \notin EndOps
          THEN Count(Dest[OperatorAt(n, a.slot)], {o}) ELSE 0
  BY <1>1, <1>2, OutgoingCount
<1>5. Count(Dest[OperatorAt(n, a.slot)], {o}) \in Nat
  BY <1>3, DestCount
<1>6. QED
  BY <1>3, <1>4, <1>5 DEF a

LEMMA LeavingForwards ==
  ASSUME NEW n, NEW t \in Manager(Deployed(n)), NEW m, NEW o \in Oper
  PROVE  SumFunctionOnSet(Leaving(n, t, m, o), Finishing(t))
           = Forwarded([p \in Oper |-> EndsOf(n, t, m, p)], o)
<1> DEFINE U == Finishing(t)
           V == Oper \ EndOps
           op(c) == OperatorAt(n, ActiveOn(t, c).slot)
           mine(c) == ActiveOn(t, c).mssg = m
           k(p) == Count(Dest[p], {o})
           v == [c \in U |-> [p \in V |-> IF mine(c) /\ op(c) = p THEN k(p) ELSE 0]]
           w == Leaving(n, t, m, o)
           rows == [c \in U |-> SumFunctionOnSet(v[c], V)]
           cols == [p \in V |-> SumFunctionOnSet([c \in U |-> v[c][p]], U)]
<1>1. IsFiniteSet(U) /\ IsFiniteSet(V)
  BY FinishingFinite, OperFinite
<1>2. \A p \in V : k(p) \in Nat
  BY DestCount
<1>3. \A c \in U : /\ w[c] = IF mine(c) /\ op(c) \notin EndOps THEN k(op(c)) ELSE 0
                   /\ w[c] \in Nat /\ op(c) \in Oper
  BY LeavingCount
<1> HIDE DEF w, op, mine, k
<1>4. ASSUME NEW c \in U
      PROVE  SumFunctionOnSet(v[c], V) = w[c]
  <2> DEFINE f == v[c]
  <2>1. \A p \in V : f[p] = IF mine(c) /\ op(c) = p THEN k(p) ELSE 0
    OBVIOUS
  <2> HIDE DEF f, U, V
  <2>2. CASE mine(c) /\ op(c) \notin EndOps
    <3>1. op(c) \in V
      BY <1>3, <2>2 DEF V
    <3>2. f[op(c)] = k(op(c)) /\ f[op(c)] \in Nat /\ \A p \in V : p # op(c) => f[p] = 0
      BY <1>2, <2>1, <2>2, <3>1
    <3>3. SumFunctionOnSet(f, V) = f[op(c)]
      BY <1>1, <3>1, <3>2, SumSingle
    <3>4. QED
      BY <1>3, <2>2, <3>2, <3>3 DEF f
  <2>3. CASE ~(mine(c) /\ op(c) \notin EndOps)
    <3>1. \A p \in V : f[p] = 0
      BY <2>1, <2>3 DEF V
    <3>2. SumFunctionOnSet(f, V) = 0
      BY <1>1, <3>1, SumZero
    <3>3. QED
      BY <1>3, <2>3, <3>2 DEF f
  <2>4. QED
    BY <2>2, <2>3
<1>5. \A c \in U : \A p \in V : v[c][p] \in Nat
  BY <1>2
<1>6. SumFunctionOnSet(rows, U) = SumFunctionOnSet(cols, V)
  <2> HIDE DEF U, V, v
  <2>1. QED
    BY <1>1, <1>5, SumExchange
<1>7. SumFunctionOnSet(rows, U) = SumFunctionOnSet(w, U)
  <2>1. \A c \in U : w[c] \in Nat /\ rows[c] = w[c]
    BY <1>3, <1>4
  <2> HIDE DEF rows, U
  <2>2. QED
    BY <1>1, <2>1, SumSame
<1>8. ASSUME NEW p \in V
      PROVE  cols[p] = EndsOf(n, t, m, p) * k(p)
  <2> DEFINE E == {c \in U : mine(c) /\ op(c) = p}
             f == [c \in U |-> IF c \in E THEN 1 ELSE 0]
             g == [c \in U |-> v[c][p]]
             kp == k(p)
  <2>1. \A c \in U : f[c] = IF c \in E THEN 1 ELSE 0
    OBVIOUS
  <2>2. kp \in Nat
    BY <1>2
  <2>3. \A c \in U : f[c] \in Nat /\ g[c] = f[c] * kp
    <3> HIDE DEF kp
    <3>1. 1 * kp = kp /\ 0 * kp = 0
      BY <2>2
    <3>2. \A c \in U : g[c] = IF c \in E THEN kp ELSE 0
      BY DEF kp
    <3> HIDE DEF g, E
    <3>3. QED
      BY <3>1, <3>2
  <2>4. cols[p] = SumFunctionOnSet(g, U)
    OBVIOUS
  <2>5. {c \in U : c \in E} = E
    OBVIOUS
  <2> HIDE DEF f, g, E, kp, U, cols
  <2>6. SumFunctionOnSet(g, U) = SumFunctionOnSet(f, U) * kp
    BY <1>1, <2>2, <2>3, SumTimes
  <2>7. SumFunctionOnSet(f, U) = Cardinality({c \in U : c \in E})
    BY <1>1, <2>1, SumIndicator
  <2>8. Cardinality(E) = EndsOf(n, t, m, p)
    BY DEF EndsOf, E, U, mine, op
  <2>9. QED
    BY <2>4, <2>5, <2>6, <2>7, <2>8 DEF kp
<1>9. Forwarded([p \in Oper |-> EndsOf(n, t, m, p)], o) = SumFunctionOnSet(cols, V)
  <2> DEFINE f == Forward([p \in Oper |-> EndsOf(n, t, m, p)], o)
  <2>1. f = [p \in V |-> EndsOf(n, t, m, p) * k(p)]
    BY DEF Forward, k
  <2> HIDE DEF f, cols
  <2>2. \A p \in V : f[p] \in Nat /\ cols[p] = f[p]
    <3>1. \A p \in V : f[p] = EndsOf(n, t, m, p) * k(p) /\ EndsOf(n, t, m, p) \in Nat
      BY <2>1, EndsOfNat
    <3>2. \A x, y \in Nat : x * y \in Nat
      OBVIOUS
    <3> HIDE DEF V
    <3>3. QED
      BY <1>2, <1>8, <3>1, <3>2
  <2> HIDE DEF V
  <2>3. SumFunctionOnSet(cols, V) = SumFunctionOnSet(f, V)
    BY <1>1, <2>2, SumSame
  <2>4. QED
    BY <2>3 DEF Forwarded, f, V
<1>10. QED
  BY <1>6, <1>7, <1>9 DEF w

(* As many as may be, or fewer if an operator before o is selective. *)
Balances(x, y, o) == IF MayLose(o) THEN x <= y ELSE x = y

(* What a node sends is what its ends forward, or less where it may be.       *)
LEMMA DestinationsBalance ==
  ASSUME NEW tms, NEW n, tms[n] \in Manager(Deployed(n)),
         NEW out \in NextOperatorDestinations(tms, n), NEW m, NEW o \in Oper
  PROVE  Balances(Count(out, Bringing(m, o)),
                  Forwarded([p \in Oper |-> EndsOf(n, tms[n], m, p)], o), o)
<1> DEFINE t == tms[n]
           w == Leaving(n, t, m, o)
           U == Finishing(t)
<1>0. SentByEnds(n, t, out, m, o)
  BY DestinationsCount
<1>1. PICK A \in SUBSET U :
        /\ \A c \in U \ A : OperatorAt(n, ActiveOn(t, c).slot) \in Selective
        /\ Count(out, Bringing(m, o)) = SumFunctionOnSet(w, A)
  BY <1>0 DEF SentByEnds
<1>2. \A c \in U : w[c] \in Nat
  BY LeavingCount
<1>3. ASSUME ~MayLose(o)
      PROVE  \A c \in U \ A : w[c] = 0
  <2>1. ASSUME NEW c \in U \ A
        PROVE  w[c] = 0
    <3> DEFINE p == OperatorAt(n, ActiveOn(t, c).slot)
    <3>1. p \in Selective /\ p \in Oper
      BY <1>1, LeavingCount
    <3>2. w[c] \in {0, Count(Dest[p], {o})}
      <4>1. c \in Finishing(t) /\ t \in Manager(Deployed(n))
        OBVIOUS
      <4> HIDE DEF t
      <4>2. Leaving(n, t, m, o)[c]
              = IF ActiveOn(t, c).mssg = m /\ p \notin EndOps THEN Count(Dest[p], {o}) ELSE 0
        BY <4>1, LeavingCount
      <4> HIDE DEF p
      <4>3. QED
        BY <4>2
    <3> HIDE DEF p, w
    <3>3. Count(Dest[p], {o}) \in Nat /\ ~(Count(Dest[p], {o}) > 0)
      BY <1>3, <3>1, DestCount DEF MayLose
    <3>4. Count(Dest[p], {o}) = 0
      BY <3>3
    <3>5. QED
      BY <3>2, <3>4
  <2>2. QED
    BY <2>1
<1>4. SumFunctionOnSet(w, U) = Forwarded([p \in Oper |-> EndsOf(n, t, m, p)], o)
  BY LeavingForwards
<1>5. IsFiniteSet(U)
  BY FinishingFinite
<1> HIDE DEF w, U, t
<1>6. /\ SumFunctionOnSet(w, A) <= SumFunctionOnSet(w, U)
      /\ (\A x \in U \ A : w[x] = 0) => SumFunctionOnSet(w, A) = SumFunctionOnSet(w, U)
  BY <1>2, <1>5, SumOfSubset
<1>7. Balances(Count(out, Bringing(m, o)), SumFunctionOnSet(w, U), o)
  BY <1>1, <1>3, <1>6 DEF Balances
<1>8. QED
  BY <1>4, <1>7 DEF t

-----------------------------------------------------------------------------
(* What a node holds of a message for an operator, and how many of its        *)
(* subtasks for it end.                                                       *)
Held(n, nd, m, o) ==
  CopiesAt(nd.tm, m, SlotsOf(n, o)) + Count(nd.internal_pendings, Bringing(m, o))

(* The copies that a node holds are a number.                                 *)
LEMMA HeldNat ==
  ASSUME NEW n, NEW nd \in NodeType(n), NEW m, NEW o
  PROVE  /\ CopiesAt(nd.tm, m, SlotsOf(n, o)) \in Nat
         /\ Count(nd.internal_pendings, Bringing(m, o)) \in Nat
         /\ Count(nd.extern_locations, Bringing(m, o)) \in Nat
         /\ Held(n, nd, m, o) \in Nat
<1>1. /\ nd.tm \in TaskManagerType /\ nd.internal_pendings \in Seq(MssgFor(n))
      /\ nd.extern_locations \in Seq(Located)
  BY DEF NodeType, Manager
<1>2. SlotsOf(n, o) \in SUBSET Slot
  BY SlotsOfType
<1>3. CopiesAt(nd.tm, m, SlotsOf(n, o)) \in Nat
  BY <1>1, <1>2, CopiesNat
<1>4. Count(nd.internal_pendings, Bringing(m, o)) \in Nat
  BY <1>1, CountIs
<1>5. Count(nd.extern_locations, Bringing(m, o)) \in Nat
  BY <1>1, CountIs
<1>6. QED
  BY <1>3, <1>4, <1>5 DEF Held

(* An internal transition ends subtasks and serves the queues with what       *)
(* waits: what the node held is what it holds and what has ended.             *)
LEMMA UpdateLapseKeeps ==
  ASSUME NEW n, NEW nd \in NodeType(n)
  PROVE  /\ UpdateLapse(nd).tm = nd.tm
         /\ UpdateLapse(nd).internal_pendings = nd.internal_pendings
         /\ UpdateLapse(nd).extern_locations = nd.extern_locations
<1>1. nd.tm.pending = 0 => UpdateLapse(nd) = [nd EXCEPT !.processing = FALSE]
  BY DEF UpdateLapse
<1>2. nd.tm.pending # 0 =>
        UpdateLapse(nd) = [nd EXCEPT !.processing = TRUE, !.lapse_time = LapsePriority(nd.tm)]
  BY DEF UpdateLapse
<1>3. QED
  BY <1>1, <1>2 DEF NodeType

LEMMA NodeInternalHeld ==
  ASSUME NEW n \in NodeId, NEW nd \in NodeType(n), NEW d, DrawOK(d), NEW m, NEW o \in Oper
  PROVE  /\ Held(n, nd, m, o) = Held(n, NodeInternal(nd, n, d), m, o) + EndsOf(n, nd.tm, m, o)
         /\ NodeInternal(nd, n, d).extern_locations = nd.extern_locations
<1> DEFINE S     == Manager(Deployed(n))
           Q     == SlotsOf(n, o)
           B     == Bringing(m, o)
           ended == TerminateActiveExecutions(nd.tm)
           scheduled == SchedulePendings(ended, nd.internal_pendings, d)
           served == CheckQueued(scheduled, ended.used, n, d)
           next == [nd EXCEPT !.tm = served, !.internal_pendings = <<>>]
           last == {c \in Finishing(nd.tm) : ActiveOn(nd.tm, c).mssg = m
                                             /\ ActiveOn(nd.tm, c).slot \in Q}
<1>1. /\ nd.tm \in S /\ nd.tm \in TaskManagerType
      /\ nd.internal_pendings \in Seq(MssgFor(n))
  BY DEF NodeType, Manager
<1>2. Deployed(n) \in SUBSET Slot /\ Q \in SUBSET Slot
  BY SlotsOfType DEF Deployed
<1>3. ended \in S
  BY <1>1, <1>2, TerminateManager
<1>4. ended.used \in [Core -> Slot \cup {NoSlot}] /\ ended \in TaskManagerType
  BY <1>3 DEF Manager, TaskManagerType
<1>5. CopiesAt(nd.tm, m, Q) = CopiesAt(ended, m, Q) + Cardinality(last)
  <2> HIDE DEF Q
  <2>1. QED
    BY <1>1, <1>2, TerminateCopies
<1>6. Cardinality(last) = EndsOf(n, nd.tm, m, o)
  <2>1. ASSUME NEW c \in Finishing(nd.tm)
        PROVE  ActiveOn(nd.tm, c).slot \in Q <=> OperatorAt(n, ActiveOn(nd.tm, c).slot) = o
    <3>1. ActiveOn(nd.tm, c).slot \in Deployed(n)
      BY <1>1, <1>2, FinishingSubtask DEF SubtaskOn
    <3>2. QED
      BY <3>1, OperatorOfSlot
  <2> HIDE DEF Q
  <2>2. last = {c \in Finishing(nd.tm) :
                  ActiveOn(nd.tm, c).mssg = m /\ OperatorAt(n, ActiveOn(nd.tm, c).slot) = o}
    BY <2>1
  <2>3. QED
    BY <2>2 DEF EndsOf
<1> HIDE DEF ended, Q, last
<1>7. scheduled \in S
  BY <1>1, <1>3, SchedulePendingsManager
<1>8. CopiesAt(scheduled, m, Q) = CopiesAt(ended, m, Q) + Count(nd.internal_pendings, B)
  BY <1>1, <1>3, SchedulePendingsCopies DEF Q
<1> HIDE DEF scheduled
<1>9. served \in S
  BY <1>4, <1>7, CheckQueuedManager
<1>10. CopiesAt(served, m, Q) = CopiesAt(scheduled, m, Q)
  BY <1>2, <1>4, <1>7, CheckQueuedCopies
<1>11. NodeInternal(nd, n, d) = UpdateLapse(next)
  BY DEF NodeInternal, ended, scheduled
<1> HIDE DEF served
<1>12. /\ next \in NodeType(n) /\ next.tm = served /\ next.internal_pendings = <<>>
       /\ next.extern_locations = nd.extern_locations
  <2>1. <<>> \in Seq(MssgFor(n))
    OBVIOUS
  <2>2. QED
    BY <1>9, <2>1 DEF NodeType
<1> HIDE DEF next
<1> DEFINE then == NodeInternal(nd, n, d)
<1>13. then.tm = served /\ then.internal_pendings = <<>> /\ then.extern_locations = nd.extern_locations
  BY <1>11, <1>12, UpdateLapseKeeps
<1> HIDE DEF then, B
<1>14. Count(<<>>, B) = 0
  BY CountEmpty
<1>15. /\ CopiesAt(ended, m, Q) \in Nat /\ EndsOf(n, nd.tm, m, o) \in Nat
       /\ Count(nd.internal_pendings, B) \in Nat
  BY <1>2, <1>4, CopiesNat, EndsOfNat, HeldNat DEF B
<1>16. /\ Held(n, nd, m, o)
            = (CopiesAt(ended, m, Q) + EndsOf(n, nd.tm, m, o)) + Count(nd.internal_pendings, B)
       /\ Held(n, then, m, o) = CopiesAt(ended, m, Q) + Count(nd.internal_pendings, B) + 0
  BY <1>5, <1>6, <1>8, <1>10, <1>13, <1>14 DEF Held, Q, B
<1>17. Held(n, nd, m, o) = Held(n, then, m, o) + EndsOf(n, nd.tm, m, o)
  BY <1>15, <1>16
<1>18. QED
  BY <1>13, <1>17 DEF then

(* The subtasks of an imminent node end, unless it only sends on what the     *)
(* producer gave it.                                                          *)
LEMMA EndsAre ==
  ASSUME NEW n, NEW imminent, NEW m, NEW o
  PROVE  Ends(n, imminent, m, o)
           = IF n \in imminent /\ nodes[n].extern_locations = <<>>
             THEN EndsOf(n, nodes[n].tm, m, o) ELSE 0
<1>1. CASE n \in imminent /\ nodes[n].extern_locations = <<>>
  <2>1. Ending(n, imminent) = Finishing(nodes[n].tm)
    BY <1>1 DEF Ending
  <2>2. QED
    BY <1>1, <2>1 DEF Ends, EndsOf
<1>2. CASE ~(n \in imminent /\ nodes[n].extern_locations = <<>>)
  <2>1. Ending(n, imminent) = {}
    BY <1>2 DEF Ending
  <2>2. Ends(n, imminent, m, o) = Cardinality({})
    BY <2>1 DEF Ends
  <2>3. QED
    BY <1>2, <2>2, FS_EmptySet
<1>3. QED
  BY <1>1, <1>2

(* What waits in extern_locations of a node until its transition. *)
Kept(n, imminent, m, o) ==
  IF n \in imminent THEN 0 ELSE Count(nodes[n].extern_locations, Bringing(m, o))

(* Only the master has something to send on from the producer.                *)
OnlyMasterSendsOn == \A n \in NodeId \ {Master} : nodes[n].extern_locations = <<>>

(* So it is for the node of the model.                                        *)
LEMMA AfterInternalHeld ==
  ASSUME SimulationInv, OnlyMasterSendsOn, NEW n \in NodeId, NEW imminent, NEW m, NEW o \in Oper
  PROVE  /\ Held(n, nodes[n], m, o)
              = Held(n, AfterInternal(n, imminent), m, o) + Ends(n, imminent, m, o)
         /\ Count(AfterInternal(n, imminent).extern_locations, Bringing(m, o))
              = Kept(n, imminent, m, o)
         /\ n # Master => AfterInternal(n, imminent).extern_locations = <<>>
<1> DEFINE nd == nodes[n]
           next == AfterInternal(n, imminent)
<1>1. nd \in NodeType(n) /\ DrawOK(draw)
  BY DEF SimulationInv, NodesGood, NodeGood
<1>2. Held(n, nd, m, o) \in Nat
  BY <1>1, HeldNat
<1>3. Count(<<>>, Bringing(m, o)) = 0
  BY CountEmpty
<1>4. n # Master => nd.extern_locations = <<>>
  BY DEF OnlyMasterSendsOn
<1>5. Ends(n, imminent, m, o)
        = IF n \in imminent /\ nd.extern_locations = <<>> THEN EndsOf(n, nd.tm, m, o) ELSE 0
  BY EndsAre
<1>6. ASSUME n \notin imminent
      PROVE  /\ Held(n, nd, m, o) = Held(n, next, m, o) + Ends(n, imminent, m, o)
             /\ Count(next.extern_locations, Bringing(m, o)) = Kept(n, imminent, m, o)
             /\ n # Master => next.extern_locations = <<>>
  <2>1. next = nd
    BY <1>6 DEF AfterInternal
  <2> HIDE DEF next
  <2>2. Ends(n, imminent, m, o) = 0
    BY <1>5, <1>6
  <2>3. Kept(n, imminent, m, o) = Count(nd.extern_locations, Bringing(m, o))
    BY <1>6 DEF Kept
  <2> HIDE DEF nd
  <2>4. QED
    BY <1>2, <1>4, <2>1, <2>2, <2>3
<1>7. ASSUME n \in imminent, nd.extern_locations = <<>>
      PROVE  /\ Held(n, nd, m, o) = Held(n, next, m, o) + Ends(n, imminent, m, o)
             /\ Count(next.extern_locations, Bringing(m, o)) = Kept(n, imminent, m, o)
             /\ n # Master => next.extern_locations = <<>>
  <2>1. next = NodeInternal(nd, n, draw)
    BY <1>7 DEF AfterInternal, MasterInternal
  <2> HIDE DEF next
  <2>2. Ends(n, imminent, m, o) = EndsOf(n, nd.tm, m, o)
    BY <1>5, <1>7
  <2>3. Kept(n, imminent, m, o) = 0
    BY <1>7 DEF Kept
  <2> HIDE DEF nd
  <2>4. /\ Held(n, nd, m, o) = Held(n, next, m, o) + EndsOf(n, nd.tm, m, o)
        /\ next.extern_locations = nd.extern_locations
    BY <1>1, <2>1, NodeInternalHeld
  <2>5. QED
    BY <1>3, <1>7, <2>2, <2>3, <2>4
<1>8. ASSUME n \in imminent, nd.extern_locations # <<>>
      PROVE  /\ Held(n, nd, m, o) = Held(n, next, m, o) + Ends(n, imminent, m, o)
             /\ Count(next.extern_locations, Bringing(m, o)) = Kept(n, imminent, m, o)
             /\ n # Master => next.extern_locations = <<>>
  <2> DEFINE u == [nd EXCEPT !.extern_locations = <<>>]
  <2>1. next = UpdateLapse(u)
    BY <1>4, <1>8 DEF AfterInternal, MasterInternal
  <2> HIDE DEF next
  <2>2. Ends(n, imminent, m, o) = 0
    BY <1>5, <1>8
  <2>3. Kept(n, imminent, m, o) = 0
    BY <1>8 DEF Kept
  <2> HIDE DEF nd
  <2>4. /\ u \in NodeType(n) /\ u.tm = nd.tm /\ u.internal_pendings = nd.internal_pendings
        /\ u.extern_locations = <<>>
    <3>1. <<>> \in Seq(Located)
      OBVIOUS
    <3>2. QED
      BY <1>1, <3>1 DEF NodeType
  <2> HIDE DEF u
  <2>5. /\ next.tm = nd.tm /\ next.internal_pendings = nd.internal_pendings
        /\ next.extern_locations = <<>>
    BY <2>1, <2>4, UpdateLapseKeeps
  <2>6. Held(n, next, m, o) = Held(n, nd, m, o)
    BY <2>5 DEF Held
  <2>7. QED
    BY <1>2, <1>3, <2>2, <2>3, <2>5, <2>6
<1>9. QED
  BY <1>6, <1>7, <1>8

-----------------------------------------------------------------------------
(* A bag with one message at most.                                            *)
LEMMA OneElement ==
  ASSUME NEW T, NEW q \in Seq(T), Len(q) <= 1, q # <<>>
  PROVE  q[1] \in T /\ q = <<q[1]>>
<1>1. Len(q) = 1
  <2>1. Len(q) \in Nat /\ Len(q) # 0
    BY EmptySeq
  <2>2. QED
    BY <2>1
<1>2. q[1] \in T
  BY <1>1
<1>3. Len(<<q[1]>>) = 1 /\ <<q[1]>>[1] = q[1] /\ <<q[1]>> \in Seq(T)
  BY <1>2
<1>4. QED
  BY <1>1, <1>2, <1>3, SeqEqual

LEMMA FromSwitchCopies ==
  ASSUME NEW n \in NodeId, NEW t \in Manager(Deployed(n)), NEW bag \in Seq(MssgFor(n)),
         Len(bag) <= 1, NEW d, DrawOK(d), NEW m, NEW o
  PROVE  CopiesAt(FromSwitch(t, bag, d), m, SlotsOf(n, o))
           = CopiesAt(t, m, SlotsOf(n, o)) + Count(bag, Bringing(m, o))
<1> DEFINE B == Bringing(m, o)
<1>1. CopiesAt(t, m, SlotsOf(n, o)) \in Nat
  BY SlotsOfType, CopiesNat DEF Manager
<1>2. CASE bag = <<>>
  <2>1. FromSwitch(t, bag, d) = t /\ Count(bag, B) = 0
    BY <1>2, CountEmpty DEF FromSwitch
  <2>2. QED
    BY <1>1, <2>1
<1>3. CASE bag # <<>>
  <2>1. bag[1] \in MssgFor(n) /\ bag = <<bag[1]>>
    BY <1>3, OneElement
  <2>2. FromSwitch(t, bag, d) = Schedule(t, bag[1], d)
    BY <1>3 DEF FromSwitch
  <2>3. Count(<<bag[1]>>, B) = IF bag[1] \in B THEN 1 ELSE 0
    BY CountSingle
  <2> HIDE DEF B
  <2>4. Count(bag, B) = IF bag[1] \in B THEN 1 ELSE 0
    BY <2>1, <2>3
  <2>5. QED
    BY <2>1, <2>2, <2>4, ScheduleCopies DEF B
<1>4. QED
  BY <1>2, <1>3

(* A node that runs e further, if it is processing, has the same copies. *)
LEMMA RunCopies ==
  ASSUME NEW n, NEW t \in Manager(Deployed(n)), NEW e \in Nat, NEW recent, NEW p, NEW m, NEW o
  PROVE  CopiesAt(IF p THEN Elapse(t, e, recent) ELSE t, m, SlotsOf(n, o))
           = CopiesAt(t, m, SlotsOf(n, o))
<1>1. t \in TaskManagerType /\ SlotsOf(n, o) \in SUBSET Slot
  BY SlotsOfType DEF Manager
<1>2. CopiesAt(Elapse(t, e, recent), m, SlotsOf(n, o)) = CopiesAt(t, m, SlotsOf(n, o))
  BY <1>1, ElapseCopies
<1>3. QED
  BY <1>2

(* What a node receives from the switch, it holds.                            *)
LEMMA NodeExternalHeld ==
  ASSUME NEW n \in NodeId, NEW nd \in NodeType(n), NEW e \in Nat, NEW bag \in Seq(MssgFor(n)),
         Len(bag) <= 1, NEW d, DrawOK(d), NEW m, NEW o
  PROVE  /\ Held(n, NodeExternal(nd, e, bag, d), m, o)
              = Held(n, nd, m, o) + Count(bag, Bringing(m, o))
         /\ NodeExternal(nd, e, bag, d).extern_locations = nd.extern_locations
<1> DEFINE S   == Manager(Deployed(n))
           Q   == SlotsOf(n, o)
           tm  == FromSwitch(nd.tm, bag, d)
           run == IF nd.processing THEN Elapse(tm, e, Mssgs(bag)) ELSE tm
           next == NodeExternal(nd, e, bag, d)
<1>1. nd.tm \in S
  BY DEF NodeType
<1>2. tm \in S
  BY <1>1, FromSwitchManager
<1>3. CopiesAt(tm, m, Q) = CopiesAt(nd.tm, m, Q) + Count(bag, Bringing(m, o))
  BY <1>1, FromSwitchCopies
<1> HIDE DEF tm
<1>4. CopiesAt(run, m, Q) = CopiesAt(tm, m, Q)
  BY <1>2, RunCopies
<1>5. next = [nd EXCEPT !.tm = run, !.processing = TRUE, !.lapse_time = LapsePriority(run)]
  BY DEF NodeExternal, tm
<1> HIDE DEF run, next
<1>6. /\ next.tm = run /\ next.internal_pendings = nd.internal_pendings
      /\ next.extern_locations = nd.extern_locations
  BY <1>5 DEF NodeType
<1>7. /\ CopiesAt(nd.tm, m, Q) \in Nat /\ Count(nd.internal_pendings, Bringing(m, o)) \in Nat
      /\ Count(bag, Bringing(m, o)) \in Nat
  BY HeldNat, CountIs
<1> DEFINE c == CopiesAt(nd.tm, m, Q)
           i == Count(nd.internal_pendings, Bringing(m, o))
           b == Count(bag, Bringing(m, o))
<1>8. Held(n, nd, m, o) = c + i /\ Held(n, next, m, o) = (c + b) + i
  BY <1>3, <1>4, <1>6 DEF Held
<1>9. c \in Nat /\ i \in Nat /\ b \in Nat
  BY <1>7
<1> HIDE DEF c, i, b
<1>10. Held(n, next, m, o) = Held(n, nd, m, o) + b
  BY <1>8, <1>9
<1>11. QED
  BY <1>6, <1>10 DEF next, b

(* The producer asks the first operator to execute a message. *)
Asked(request, m, o) == IF o = First /\ request = <<m>> /\ m # 0 THEN 1 ELSE 0

(* The master has the producer's message, on the slots of one of its          *)
(* locations or to be sent on.                                                *)
LEMMA MasterExternalHeld ==
  ASSUME NEW n \in NodeId, NEW nd \in NodeType(n), NEW e \in Nat, NEW bag \in Seq(MssgFor(n)),
         Len(bag) <= 1, NEW request \in Seq(Mssg \cup {0}), Len(request) <= 1,
         NEW loc \in Locations[First], NEW d, DrawOK(d), NEW m, NEW o \in Oper
  PROVE  LET next == MasterExternal(nd, n, e, request, loc, bag, d)
         IN  Held(n, next, m, o) + Count(next.extern_locations, Bringing(m, o))
               = Held(n, nd, m, o) + Count(nd.extern_locations, Bringing(m, o))
                 + Count(bag, Bringing(m, o)) + Asked(request, m, o)
<1> DEFINE S    == Manager(Deployed(n))
           Q    == SlotsOf(n, o)
           B    == Bringing(m, o)
           given == request # <<>> /\ request[1] # 0
           here == given /\ loc.node = n
           x    == LocatedMssg(loc, request[1])
           elsewhere == IF given /\ ~here THEN Append(nd.extern_locations, x)
                        ELSE nd.extern_locations
           accepted == IF here THEN Schedule(nd.tm, x, d) ELSE nd.tm
           tm   == FromSwitch(accepted, bag, d)
           recent == {request[i] : i \in DOMAIN request} \cup Mssgs(bag)
           run  == IF nd.processing THEN Elapse(tm, e, recent) ELSE tm
           next == MasterExternal(nd, n, e, request, loc, bag, d)
           asked == Asked(request, m, o)
<1>1. nd.tm \in S /\ nd.extern_locations \in Seq(Located)
  BY DEF NodeType
<1>2. given => request[1] \in Mssg
  OBVIOUS
<1>3. given => x \in MssgFor(loc.node) /\ x \in Located
  BY <1>2, MessageForLocation, JobAssumption
<1>4. asked = IF given /\ x \in B THEN 1 ELSE 0
  <2>1. CASE given
    <3>1. x \in B <=> request[1] = m /\ First = o
      BY <1>2, <2>1, BringingLocated, JobAssumption
    <3>2. request = <<request[1]>>
      BY <2>1, OneElement
    <3>3. request = <<m>> <=> request[1] = m
      BY <3>2
    <3> HIDE DEF x, B
    <3>4. QED
      BY <2>1, <3>1, <3>3 DEF Asked
  <2>2. CASE ~given
    <3>1. ~(request = <<m>> /\ m # 0)
      BY <2>2
    <3>2. QED
      BY <2>2, <3>1 DEF Asked
  <2>3. QED
    BY <2>1, <2>2
<1>5. accepted \in S
  BY <1>1, <1>3, ScheduleManager
<1> DEFINE a == IF here /\ x \in B THEN 1 ELSE 0
           b == IF given /\ ~here /\ x \in B THEN 1 ELSE 0
<1>6. CopiesAt(accepted, m, Q) = CopiesAt(nd.tm, m, Q) + a
  <2>1. CopiesAt(nd.tm, m, Q) \in Nat
    BY HeldNat
  <2>2. CASE here
    <3>1. x \in MssgFor(n)
      BY <1>3, <2>2
    <3> HIDE DEF x, Q
    <3>2. CopiesAt(Schedule(nd.tm, x, d), m, Q) = CopiesAt(nd.tm, m, Q) + IF x \in B THEN 1 ELSE 0
      BY <1>1, <3>1, ScheduleCopies DEF Q
    <3>3. QED
      BY <2>2, <3>2
  <2>3. CASE ~here
    <3>1. accepted = nd.tm /\ a = 0
      BY <2>3
    <3> HIDE DEF accepted, a
    <3>2. QED
      BY <2>1, <3>1
  <2>4. QED
    BY <2>2, <2>3
<1>7. Count(elsewhere, B) = Count(nd.extern_locations, B) + b
  <2>1. Count(nd.extern_locations, B) \in Nat
    BY HeldNat
  <2>2. CASE given /\ ~here
    <3>1. elsewhere = Append(nd.extern_locations, x) /\ x \in Located /\ b = IF x \in B THEN 1 ELSE 0
      BY <1>3, <2>2
    <3> HIDE DEF elsewhere, x, B, b
    <3>2. QED
      BY <1>1, <3>1, CountAppend
  <2>3. CASE ~(given /\ ~here)
    <3>1. elsewhere = nd.extern_locations /\ b = 0
      BY <2>3
    <3> HIDE DEF elsewhere, b
    <3>2. QED
      BY <2>1, <3>1
  <2>4. QED
    BY <2>2, <2>3
<1>8. a + b = asked /\ a \in Nat /\ b \in Nat
  BY <1>4
<1>9. /\ elsewhere # <<>> =>
           next = [nd EXCEPT !.tm = tm, !.processing = TRUE, !.lapse_time = 0,
                             !.extern_locations = elsewhere]
      /\ elsewhere = <<>> /\ tm.pending # 0 =>
           next = [nd EXCEPT !.tm = run, !.processing = TRUE, !.lapse_time = LapsePriority(run)]
      /\ elsewhere = <<>> /\ tm.pending = 0 =>
           next = [nd EXCEPT !.tm = tm, !.processing = TRUE]
  BY DEF MasterExternal
<1>10. elsewhere = <<>> => nd.extern_locations = <<>>
  BY <1>1, AppendProperties
<1> HIDE DEF accepted, Q, B
<1>11. tm \in S
  BY <1>5, FromSwitchManager
<1>12. CopiesAt(tm, m, Q) = CopiesAt(accepted, m, Q) + Count(bag, B)
  BY <1>5, FromSwitchCopies DEF Q, B
<1> HIDE DEF tm, elsewhere, given, here, recent, next, a, b, asked
<1>13. CopiesAt(run, m, Q) = CopiesAt(tm, m, Q)
  BY <1>11, RunCopies DEF Q
<1> HIDE DEF run
<1>14. /\ next.tm \in {tm, run} /\ next.internal_pendings = nd.internal_pendings
       /\ next.extern_locations = elsewhere
  BY <1>9, <1>10 DEF NodeType
<1> DEFINE c == CopiesAt(nd.tm, m, Q)
           i == Count(nd.internal_pendings, B)
           f == Count(nd.extern_locations, B)
           g == Count(bag, B)
<1>15. c \in Nat /\ i \in Nat /\ f \in Nat /\ g \in Nat
  BY HeldNat, CountIs DEF Q, B
<1>16. Held(n, nd, m, o) = c + i
  BY DEF Held, Q, B
<1>17. Held(n, next, m, o) = ((c + a) + g) + i
  BY <1>6, <1>12, <1>13, <1>14 DEF Held, Q, B
<1>18. Count(next.extern_locations, B) = f + b
  BY <1>7, <1>14
<1> DEFINE h == Held(n, nd, m, o)
           hn == Held(n, next, m, o)
           fn == Count(next.extern_locations, B)
<1> HIDE DEF c, i, f, g, h, hn, fn
<1>19. hn + fn = h + f + g + asked
  <2>1. h = c + i /\ hn = ((c + a) + g) + i /\ fn = f + b
    BY <1>16, <1>17, <1>18 DEF h, hn, fn
  <2>2. QED
    BY <1>8, <1>15, <2>1
<1>20. QED
  BY <1>19 DEF h, hn, fn, f, g, asked, B, next

-----------------------------------------------------------------------------
(* The wires to the master and the nodes bring one message at most in a       *)
(* round.                                                                     *)
WireShort == Len(wire.prod) <= 1 /\ \A n \in NodeId : Len(wire.node[n]) <= 1

(* Whatever a node's transition in a round, it accounts for what it had, what *)
(* it receives and what ends.                                                 *)
LEMMA AfterTransitionHeld ==
  ASSUME SimulationInv, OnlyMasterSendsOn, WireShort, NEW n \in NodeId, NEW imminent,
         NEW loc \in Locations[First], NEW m, NEW o \in Oper
  PROVE  LET next == AfterTransition(n, imminent, loc)
         IN  /\ Held(n, nodes[n], m, o) + Kept(n, imminent, m, o) + Count(wire.node[n], Bringing(m, o))
                + (IF n = Master THEN Asked(wire.prod, m, o) ELSE 0)
                  = Held(n, next, m, o) + Count(next.extern_locations, Bringing(m, o))
                    + Ends(n, imminent, m, o)
             /\ n # Master => next.extern_locations = <<>>
<1> DEFINE nd == AfterInternal(n, imminent)
           e  == IF n \in imminent THEN 0 ELSE elapsed[n]
           next == AfterTransition(n, imminent, loc)
           B == Bringing(m, o)
           asked == IF n = Master THEN Asked(wire.prod, m, o) ELSE 0
           g == Count(wire.node[n], B)
           h == Held(n, nd, m, o)
           f == Count(nd.extern_locations, B)
           hn == Held(n, next, m, o)
           fn == Count(next.extern_locations, B)
           ends == Ends(n, imminent, m, o)
           had == Held(n, nodes[n], m, o)
           kept == Kept(n, imminent, m, o)
<1>1. NodeGood(n, nd) /\ nd \in NodeType(n) /\ DrawOK(draw)
  BY AfterInternalGood DEF SimulationInv, NodeGood
<1>2. e \in Nat
  BY Models DEF SimulationInv, TimesGood
<1>3. wire.prod \in Seq(Mssg \cup {0}) /\ wire.node[n] \in Seq(MssgFor(n)) /\ Inbox(n) = wire.node[n]
  BY DEF SimulationInv, WireGood, ByNode, Inbox
<1>4. had = h + ends /\ f = kept /\ (n # Master => nd.extern_locations = <<>>)
  BY AfterInternalHeld
<1>5. Len(wire.node[n]) <= 1 /\ Len(wire.prod) <= 1
  BY DEF WireShort
<1> HIDE DEF nd, e
<1>6. h \in Nat /\ f \in Nat
  BY <1>1, HeldNat
<1>7. g \in Nat
  BY <1>3, CountIs
<1>8. asked \in Nat
  BY DEF Asked
<1>9. ends \in Nat
  BY EndsAre, EndsOfNat
<1>10. hn + fn = h + f + g + asked /\ (n # Master => next.extern_locations = <<>>)
  <2>1. ASSUME ~Receives(n)
        PROVE  hn + fn = h + f + g + asked /\ (n # Master => next.extern_locations = <<>>)
    <3>1. next = nd
      BY <2>1 DEF AfterTransition, nd
    <3>2. wire.node[n] = <<>> /\ (n = Master => wire.prod = <<>>)
      BY <2>1, <1>3, Models DEF Receives
    <3>3. g = 0
      BY <3>2, CountEmpty
    <3>4. asked = 0
      <4>1. <<m>> # <<>>
        OBVIOUS
      <4>2. QED
        BY <3>2, <4>1 DEF Asked
    <3> HIDE DEF next, g, asked, B
    <3>5. hn = h /\ fn = f
      BY <3>1
    <3> HIDE DEF hn, h, fn, f
    <3>6. QED
      BY <1>4, <1>6, <3>1, <3>3, <3>4, <3>5
  <2>2. ASSUME Receives(n), n = Master
        PROVE  hn + fn = h + f + g + asked
    <3>1. next = MasterExternal(nd, n, e, wire.prod, loc, wire.node[n], draw)
      BY <1>3, <2>2 DEF AfterTransition, nd, e
    <3>2. asked = Asked(wire.prod, m, o)
      BY <2>2
    <3> HIDE DEF next, asked
    <3>3. QED
      BY <1>1, <1>2, <1>3, <1>5, <3>1, <3>2, MasterExternalHeld
  <2>3. ASSUME Receives(n), n # Master
        PROVE  hn + fn = h + f + g + asked /\ next.extern_locations = <<>>
    <3>1. next = NodeExternal(nd, e, wire.node[n], draw)
      BY <1>3, <2>3 DEF AfterTransition, nd, e
    <3>2. asked = 0
      BY <2>3
    <3> DEFINE bag == wire.node[n]
    <3> HIDE DEF next, asked, h, hn, g, f, fn, B
    <3>3. /\ Held(n, NodeExternal(nd, e, bag, draw), m, o)
               = Held(n, nd, m, o) + Count(bag, Bringing(m, o))
          /\ NodeExternal(nd, e, bag, draw).extern_locations = nd.extern_locations
      <4>1. bag \in Seq(MssgFor(n)) /\ Len(bag) <= 1
        BY <1>3, <1>5
      <4> HIDE DEF bag
      <4>2. nd \in NodeType(n) /\ e \in Nat /\ DrawOK(draw)
        BY <1>1, <1>2
      <4>3. QED
        BY <4>1, <4>2, NodeExternalHeld
    <3>7. hn = h + g /\ next.extern_locations = nd.extern_locations
      BY <3>1, <3>3 DEF hn, h, g, B
    <3>4. fn = f
      BY <3>7 DEF fn, f
    <3>5. QED
      BY <1>4, <1>6, <1>7, <2>3, <3>2, <3>7, <3>4
  <2> HIDE DEF hn, h, fn, f, g, asked, next
  <2>4. QED
    BY <2>1, <2>2, <2>3
<1>11. had + kept + g + asked = hn + fn + ends
  <2> HIDE DEF hn, h, fn, f, g, asked, had, kept, ends
  <2>1. QED
    BY <1>4, <1>6, <1>7, <1>8, <1>9, <1>10
<1>12. QED
  BY <1>10, <1>11

-----------------------------------------------------------------------------
(* What leaves the switch and what comes in. *)
LEMMA SwitchOutputCount ==
  ASSUME SimulationInv, NEW n \in NodeId, NEW S
  PROVE  LET s == IF SwitchM \in Imminent THEN Sw!AfterOutput(sw) ELSE sw
         IN  Count(sw.buffers[n], S) = Count(s.buffers[n], S) + Count(SwitchToNodes[n], S)
<1> DEFINE q == sw.buffers[n]
           s == IF SwitchM \in Imminent THEN Sw!AfterOutput(sw) ELSE sw
<1>1. q \in Seq(MssgFor(n)) /\ (n \in sw.active => q # <<>>)
  BY DEF SimulationInv, SwitchGood, ByNode
<1>2. Count(<<>>, S) = 0 /\ Count(q, S) \in Nat
  BY <1>1, CountEmpty, CountIs
<1>3. CASE SwitchM \in Imminent /\ n \in sw.active
  <2>1. s.buffers[n] = Tail(q)
    BY <1>3 DEF Sw!AfterOutput
  <2>2. SwitchToNodes[n] = <<Head(q)>>
    BY <1>3 DEF SwitchToNodes, Sw!Emitted
  <2> HIDE DEF q, s
  <2>3. Count(q, S) = (IF Head(q) \in S THEN 1 ELSE 0) + Count(Tail(q), S)
    BY <1>1, <1>3, CountTail
  <2>4. Count(<<Head(q)>>, S) = IF Head(q) \in S THEN 1 ELSE 0
    BY CountSingle
  <2>5. Count(Tail(q), S) \in Nat
    <3>1. Tail(q) \in Seq(MssgFor(n))
      BY <1>1, <1>3
    <3>2. QED
      BY <3>1, CountIs
  <2>6. Count(q, S) = Count(Tail(q), S) + Count(<<Head(q)>>, S)
    BY <2>3, <2>4, <2>5
  <2>7. QED
    BY <2>1, <2>2, <2>6 DEF q, s
<1>4. CASE ~(SwitchM \in Imminent /\ n \in sw.active)
  <2>1. s.buffers[n] = q
    BY <1>4 DEF Sw!AfterOutput
  <2>2. SwitchToNodes[n] = <<>>
    BY <1>4 DEF SwitchToNodes
  <2> HIDE DEF s, q
  <2>3. QED
    BY <1>2, <2>1, <2>2 DEF q, s
<1>5. QED
  BY <1>3, <1>4

(* All that comes in on a wire of the switch is queued on it.                 *)
Queues(s) ==
  \A n \in NodeId : \A S :
    Count(s.buffers[n], S) = Count(sw.buffers[n], S) + Count(wire.sw[n], S)

LEMMA SwitchAfterCount ==
  ASSUME SimulationInv, NEW imminent, NEW lapse, NEW lapse2
  PROVE  Queues(SwitchAfter(imminent, lapse, lapse2))
<1> SUFFICES ASSUME NEW n \in NodeId, NEW S
             PROVE  Count(SwitchAfter(imminent, lapse, lapse2).buffers[n], S)
                      = Count(sw.buffers[n], S) + Count(wire.sw[n], S)
  BY DEF Queues
<1> DEFINE t == SwitchAfter(imminent, lapse, lapse2)
<1>1. sw.buffers[n] \in Seq(MssgFor(n)) /\ wire.sw[n] \in Seq(MssgFor(n))
  BY DEF SimulationInv, SwitchGood, WireGood, ByNode
<1>2. Count(<<>>, S) = 0 /\ Count(sw.buffers[n], S) \in Nat
  BY <1>1, CountEmpty, CountIs
<1>3. CASE Receives(SwitchM)
  <2>1. t.buffers[n] = sw.buffers[n] \o wire.sw[n]
    BY <1>3 DEF SwitchAfter, Sw!ConfluenceTransition, Sw!ExternalTransition,
                Sw!InternalTransition, Sw!Queued
  <2> HIDE DEF t
  <2>2. Count(sw.buffers[n] \o wire.sw[n], S) = Count(sw.buffers[n], S) + Count(wire.sw[n], S)
    BY <1>1, CountConcat
  <2>3. QED
    BY <2>1, <2>2 DEF t
<1>4. CASE ~Receives(SwitchM)
  <2>1. t.buffers = sw.buffers
    BY <1>4 DEF SwitchAfter, Sw!InternalTransition
  <2>2. wire.sw[n] = <<>>
    BY <1>4, Models DEF Receives
  <2> HIDE DEF t
  <2>3. QED
    BY <1>2, <2>1, <2>2 DEF t
<1>5. QED
  BY <1>3, <1>4

(* What a node sends stays on it or goes to the switch. *)
LEMMA SendsParts ==
  ASSUME NEW n \in NodeId, NEW out \in Seq(Located), NEW m, NEW o
  PROVE  Count(out, Bringing(m, o))
           = Count(ForNodes(out, {n}), Bringing(m, o)) + Count(ToSwitch(n, out), Bringing(m, o))
<1> DEFINE B == Bringing(m, o)
           A == {x \in B : x.node \in {n}}
           R == {x \in B : x.node \in NodeId \ {n}}
<1>1. \A x \in B : x.node \in NodeId
  BY DEF Bringing
<1> HIDE DEF B
<1>2. /\ \A i \in 1 .. Len(out) : out[i] \in B <=> out[i] \in A \/ out[i] \in R
      /\ \A i \in 1 .. Len(out) : ~(out[i] \in A /\ out[i] \in R)
  BY <1>1
<1>3. Count(ForNodes(out, {n}), B) = Count(out, A)
  BY ForNodesCount
<1>4. Count(ToSwitch(n, out), B) = Count(out, R)
  BY ForNodesCount DEF ToSwitch
<1> HIDE DEF A, R
<1>5. Count(out, B) = Count(out, A) + Count(out, R)
  BY <1>2, CountTwoParts
<1>6. QED
  BY <1>3, <1>4, <1>5 DEF B

LEMMA LeftPendingHeld ==
  ASSUME NEW n \in NodeId, NEW nd \in NodeType(n), NEW out \in Seq(Located), NEW m, NEW o
  PROVE  /\ Held(n, LeftPending(nd, n, out), m, o) + Count(ToSwitch(n, out), Bringing(m, o))
              = Held(n, nd, m, o) + Count(out, Bringing(m, o))
         /\ LeftPending(nd, n, out).extern_locations = nd.extern_locations
         /\ LeftPending(nd, n, out).tm = nd.tm
<1> DEFINE B == Bringing(m, o)
           mine == ForNodes(out, {n})
           next == LeftPending(nd, n, out)
<1>1. mine \in Seq(MssgFor(n))
  <2>1. \A x \in Located : x.node \in {n} => x \in MssgFor(n)
    BY DEF Located, MssgFor
  <2>2. QED
    BY <2>1, ForNodesType
<1>2. ToSwitch(n, out) \in Seq(Located)
  BY ToSwitchType
<1>3. nd.internal_pendings \in Seq(MssgFor(n))
  BY DEF NodeType
<1>4. Count(out, B) = Count(mine, B) + Count(ToSwitch(n, out), B)
  BY SendsParts
<1> HIDE DEF mine
<1>5. next = [nd EXCEPT !.internal_pendings = nd.internal_pendings \o mine]
  BY DEF LeftPending, mine
<1> HIDE DEF next
<1>6. /\ next.tm = nd.tm /\ next.extern_locations = nd.extern_locations
      /\ next.internal_pendings = nd.internal_pendings \o mine
  BY <1>5 DEF NodeType
<1> HIDE DEF B
<1>7. Count(nd.internal_pendings \o mine, B) = Count(nd.internal_pendings, B) + Count(mine, B)
  BY <1>1, <1>3, CountConcat
<1> DEFINE c == CopiesAt(nd.tm, m, SlotsOf(n, o))
           i == Count(nd.internal_pendings, B)
           k == Count(mine, B)
           w == Count(ToSwitch(n, out), B)
           u == Count(out, B)
           h == Held(n, nd, m, o)
           hn == Held(n, next, m, o)
<1>8. c \in Nat /\ i \in Nat /\ k \in Nat /\ w \in Nat
  BY <1>1, <1>2, HeldNat, CountIs DEF B
<1>9. h = c + i /\ hn = c + (i + k) /\ u = k + w
  BY <1>4, <1>6, <1>7 DEF Held, B
<1> HIDE DEF c, i, k, w, u, h, hn
<1>10. hn + w = h + u
  BY <1>8, <1>9
<1>11. QED
  BY <1>6, <1>10 DEF h, hn, w, u, B, next

(* The bags of the nodes reach the switch by destination, all of them. *)
LEMMA NodesToSwitchCount ==
  ASSUME NEW bags, \A n \in NodeId : bags[n] \in Seq(Located), NEW m, NEW o
  PROVE  SumFunctionOnSet([d \in NodeId |-> Count(NodesToSwitch(bags)[d], Bringing(m, o))], NodeId)
           = SumFunctionOnSet([n \in NodeId |-> Count(bags[n], Bringing(m, o))], NodeId)
<1> DEFINE B == Bringing(m, o)
           seqs == [i \in 1 .. NNodes |-> bags[i - 1]]
           idx == [i \in 1 .. NNodes |-> i - 1]
           all == Together(seqs)
           w == [n \in NodeId |-> Count(bags[n], B)]
           part == [d \in NodeId |-> {x \in B : x.node \in {d}}]
<1>1. NNodes \in Nat /\ IsFiniteSet(NodeId) /\ \A i \in 1 .. NNodes : i - 1 \in NodeId
  BY JobAssumption, OperFinite DEF NodeId
<1>2. seqs \in [1 .. NNodes -> Seq(Located)]
  BY <1>1
<1>3. all \in Seq(Located)
  BY <1>1, <1>2, TogetherType
<1>4. Weighed(seqs, Located, NNodes, B, NodeId, idx, w)
  <2>1. idx \in [1 .. NNodes -> NodeId]
    BY <1>1
  <2>2. \A i, j \in 1 .. NNodes : idx[i] = idx[j] => i = j
    <3>1. \A i, j \in 1 .. NNodes : i - 1 = j - 1 => i = j
      BY <1>1
    <3>2. QED
      BY <3>1
  <2>3. \A y \in NodeId : \E i \in 1 .. NNodes : idx[i] = y
    <3>1. ASSUME NEW y \in NodeId
          PROVE  \E i \in 1 .. NNodes : idx[i] = y
      <4>1. y + 1 \in 1 .. NNodes /\ (y + 1) - 1 = y
        BY <1>1 DEF NodeId
      <4>2. idx[y + 1] = y
        BY <4>1
      <4>3. QED
        BY <4>1, <4>2
    <3>2. QED
      BY <3>1
  <2>4. \A i \in 1 .. NNodes : w[idx[i]] = Count(seqs[i], B)
    BY <1>1
  <2> HIDE DEF idx, w, seqs
  <2>5. QED
    BY <1>1, <1>2, <2>1, <2>2, <2>3, <2>4 DEF Weighed
<1>5. Count(all, B) = SumFunctionOnSet(w, NodeId)
  <2> HIDE DEF seqs, idx, w
  <2>1. QED
    BY <1>4, TogetherCount
<1>6. NodesToSwitch(bags) = [d \in NodeId |-> ForNodes(all, {d})]
  BY DEF NodesToSwitch
<1>7. \A x \in B : x.node \in NodeId
  BY DEF Bringing
<1> HIDE DEF all, B
<1>8. Count(all, B) = SumFunctionOnSet([d \in NodeId |-> Count(all, part[d])], NodeId)
  <2>1. /\ \A i \in 1 .. Len(all) : \A d \in NodeId : all[i] \in part[d] => all[i] \in B
        /\ \A i \in 1 .. Len(all) : all[i] \in B => \E d \in NodeId : all[i] \in part[d]
        /\ \A i \in 1 .. Len(all) : \A d, e \in NodeId :
             all[i] \in part[d] /\ all[i] \in part[e] => d = e
    BY <1>7
  <2> HIDE DEF part
  <2>2. QED
    BY SMTT(40), <1>1, <1>3, <2>1, CountParts
<1>9. \A d \in NodeId : Count(NodesToSwitch(bags)[d], B) = Count(all, part[d])
  <2>1. ASSUME NEW d \in NodeId
        PROVE  Count(ForNodes(all, {d}), B) = Count(all, part[d])
    BY <1>3, ForNodesCount
  <2> HIDE DEF part
  <2>2. QED
    BY <1>6, <2>1
<1> HIDE DEF part
<1>10. [d \in NodeId |-> Count(NodesToSwitch(bags)[d], B)] = [d \in NodeId |-> Count(all, part[d])]
  BY <1>9
<1>11. QED
  BY <1>5, <1>8, <1>10 DEF B

-----------------------------------------------------------------------------
(* What ends forward is a number, and nothing if nothing ends.                *)
LEMMA ForwardedNat ==
  ASSUME NEW e, \A p \in Oper \ EndOps : e[p] \in Nat, NEW o
  PROVE  /\ Forwarded(e, o) \in Nat
         /\ \A p \in Oper \ EndOps : Forward(e, o)[p] = e[p] * Count(Dest[p], {o})
         /\ \A p \in Oper \ EndOps : Forward(e, o)[p] \in Nat
         /\ (\A p \in Oper \ EndOps : e[p] = 0) => Forwarded(e, o) = 0
<1> DEFINE V == Oper \ EndOps
           f == Forward(e, o)
<1>1. \A p \in V : f[p] = e[p] * Count(Dest[p], {o})
  BY DEF Forward
<1>2. \A p \in V : Count(Dest[p], {o}) \in Nat
  BY DestCount
<1>3. \A x, y \in Nat : x * y \in Nat /\ 0 * y = 0
  OBVIOUS
<1>4. IsFiniteSet(V)
  BY OperFinite
<1> HIDE DEF f, V
<1>5. \A p \in V : f[p] \in Nat
  BY <1>1, <1>2, <1>3 DEF V
<1>6. SumFunctionOnSet(f, V) \in Nat
  BY <1>4, <1>5, SumNat
<1>7. ASSUME \A p \in V : e[p] = 0
      PROVE  SumFunctionOnSet(f, V) = 0
  <2>1. \A p \in V : f[p] = 0
    BY <1>1, <1>2, <1>3, <1>7
  <2>2. QED
    BY <1>4, <2>1, SumZero
<1>8. QED
  BY <1>1, <1>5, <1>6, <1>7 DEF Forwarded, f, V

(* What is due at an operator after the ends of all nodes: what was due, and  *)
(* what each node forwards.                                                   *)
Gathered(x, e, y) ==
  /\ \A p \in Oper \ EndOps : x[p] \in Nat
  /\ \A n \in NodeId : \A p \in Oper \ EndOps : e[n][p] \in Nat
  /\ \A p \in Oper \ EndOps :
       y[p] = x[p] + SumFunctionOnSet([n \in NodeId |-> e[n][p]], NodeId)

LEMMA ForwardedSum ==
  ASSUME NEW x, NEW e, NEW y, Gathered(x, e, y), NEW o
  PROVE  /\ Forwarded(y, o)
              = Forwarded(x, o) + SumFunctionOnSet([n \in NodeId |-> Forwarded(e[n], o)], NodeId)
         /\ SumFunctionOnSet([n \in NodeId |-> Forwarded(e[n], o)], NodeId) \in Nat
<1> DEFINE V == Oper \ EndOps
           k(p) == Count(Dest[p], {o})
           v == [n \in NodeId |-> Forward(e[n], o)]
           col(p) == [n \in NodeId |-> e[n][p]]
           cols == [p \in V |-> SumFunctionOnSet([n \in NodeId |-> v[n][p]], NodeId)]
           rows == [n \in NodeId |-> SumFunctionOnSet(v[n], V)]
<1>0. /\ \A p \in V : x[p] \in Nat
      /\ \A n \in NodeId : \A p \in V : e[n][p] \in Nat
      /\ \A p \in V : y[p] = x[p] + SumFunctionOnSet(col(p), NodeId)
  BY DEF Gathered
<1>1. IsFiniteSet(V) /\ IsFiniteSet(NodeId)
  BY OperFinite
<1>2. \A p \in V : k(p) \in Nat
  BY DestCount
<1>3. \A n \in NodeId : \A p \in V : v[n][p] = e[n][p] * k(p) /\ v[n][p] \in Nat
  BY <1>0, ForwardedNat
<1>4. rows = [n \in NodeId |-> Forwarded(e[n], o)]
  BY DEF Forwarded
<1>5. SumFunctionOnSet(rows, NodeId) = SumFunctionOnSet(cols, V)
  <2> HIDE DEF v, V
  <2>1. QED
    BY <1>1, <1>3, SumExchange
<1>6. ASSUME NEW p \in V
      PROVE  /\ cols[p] = SumFunctionOnSet(col(p), NodeId) * k(p)
             /\ SumFunctionOnSet(col(p), NodeId) \in Nat
  <2> DEFINE f == col(p)
             g == [n \in NodeId |-> v[n][p]]
             kp == k(p)
  <2>1. kp \in Nat
    BY <1>2
  <2>2. \A n \in NodeId : f[n] \in Nat
    BY <1>0
  <2>3. \A n \in NodeId : g[n] = f[n] * kp
    BY <1>3
  <2>4. cols[p] = SumFunctionOnSet(g, NodeId)
    OBVIOUS
  <2> HIDE DEF f, g, kp, cols
  <2>5. SumFunctionOnSet(g, NodeId) = SumFunctionOnSet(f, NodeId) * kp
    BY <1>1, <2>1, <2>2, <2>3, SumTimes
  <2>6. SumFunctionOnSet(f, NodeId) \in Nat
    BY <1>1, <2>2, SumNat
  <2>7. QED
    BY <2>4, <2>5, <2>6 DEF f, kp
<1> DEFINE fx == Forward(x, o)
           fy == Forward(y, o)
<1>7. \A p \in V : fx[p] = x[p] * k(p) /\ fx[p] \in Nat /\ fy[p] = y[p] * k(p)
  <2>1. \A p \in V : fx[p] = x[p] * k(p) /\ fx[p] \in Nat
    BY <1>0, ForwardedNat
  <2>2. \A p \in V : fy[p] = y[p] * k(p)
    BY DEF Forward
  <2>3. QED
    BY <2>1, <2>2
<1> HIDE DEF fx, fy, cols, k, col
<1>8. ASSUME NEW p \in V
      PROVE  fy[p] = fx[p] + cols[p] /\ cols[p] \in Nat
  <2> DEFINE s == SumFunctionOnSet(col(p), NodeId)
             a == x[p]
             kp == k(p)
  <2>1. s \in Nat /\ a \in Nat /\ kp \in Nat
    BY <1>0, <1>2, <1>6
  <2>2. fy[p] = (a + s) * kp /\ fx[p] = a * kp /\ cols[p] = s * kp
    BY <1>0, <1>6, <1>7
  <2> HIDE DEF s, a, kp
  <2>3. (a + s) * kp = a * kp + s * kp /\ s * kp \in Nat
    BY <2>1
  <2>4. QED
    BY <2>2, <2>3
<1> HIDE DEF V
<1>9. /\ SumFunctionOnSet(fy, V) = SumFunctionOnSet(fx, V) + SumFunctionOnSet(cols, V)
      /\ SumFunctionOnSet(cols, V) \in Nat
  <2>1. \A p \in V : fx[p] \in Nat /\ cols[p] \in Nat /\ fy[p] = fx[p] + cols[p]
    BY <1>7, <1>8
  <2> HIDE DEF v, rows
  <2>2. SumFunctionOnSet(fy, V) = SumFunctionOnSet(fx, V) + SumFunctionOnSet(cols, V)
    BY <1>1, <2>1, SumPlus, SMTT(30)
  <2>3. SumFunctionOnSet(cols, V) \in Nat
    BY <1>1, <2>1, SumNat
  <2>4. QED
    BY <2>2, <2>3
<1>10. QED
  BY <1>4, <1>5, <1>9 DEF Forwarded, fx, fy, V

(* What balances one by one balances in sum. *)
LEMMA BalancesSum ==
  ASSUME NEW U, IsFiniteSet(U), NEW f, NEW g, NEW o,
         \A x \in U : f[x] \in Nat /\ g[x] \in Nat /\ Balances(f[x], g[x], o)
  PROVE  Balances(SumFunctionOnSet(f, U), SumFunctionOnSet(g, U), o)
<1>1. CASE MayLose(o)
  <2>1. \A x \in U : f[x] \in Nat /\ g[x] \in Nat /\ f[x] <= g[x]
    BY <1>1 DEF Balances
  <2>2. SumFunctionOnSet(f, U) <= SumFunctionOnSet(g, U)
    BY <2>1, SumBelow
  <2>3. QED
    BY <1>1, <2>2 DEF Balances
<1>2. CASE ~MayLose(o)
  <2>1. \A x \in U : f[x] \in Nat /\ g[x] = f[x]
    BY <1>2 DEF Balances
  <2>2. SumFunctionOnSet(g, U) = SumFunctionOnSet(f, U)
    BY <2>1, SumSame
  <2>3. QED
    BY <1>2, <2>2 DEF Balances
<1>3. QED
  BY <1>1, <1>2

LEMMA BalancesAdd ==
  ASSUME NEW a \in Nat, NEW b \in Nat, NEW c \in Nat, NEW d \in Nat, NEW k \in Nat, NEW o,
         Balances(a, b, o), Balances(c, d, o)
  PROVE  Balances(a + c + k, b + d + k, o)
BY DEF Balances

-----------------------------------------------------------------------------
(* The models that are imminent once the clock has moved.                     *)
NowImminent == {m \in Model : Left(m) = 0}

(* The copies of a message for an operator on a node and in the switch, and   *)
(* all those there are in the middle of a round: what an imminent node has    *)
(* sent is on the wire.  What is due counts the ends of this round.           *)
HasOn(nds, s, n, m, o) ==
  Held(n, nds[n], m, o) + Count(nds[n].extern_locations, Bringing(m, o))
  + Count(s.buffers[n], Bringing(m, o))

KeptOn(nds, imminent, n, m, o) ==
  IF n \in imminent THEN 0 ELSE Count(nds[n].extern_locations, Bringing(m, o))

StockOn(nds, s, w, imminent, n, m, o) ==
  Held(n, nds[n], m, o) + KeptOn(nds, imminent, n, m, o) + Count(s.buffers[n], Bringing(m, o))
  + Count(w.node[n], Bringing(m, o)) + Count(w.sw[n], Bringing(m, o))

EndsOn(nds, imminent, n, m, p) ==
  IF n \in imminent /\ nds[n].extern_locations = <<>> THEN EndsOf(n, nds[n].tm, m, p) ELSE 0

HasAll(nds, s, m, o) == SumFunctionOnSet([n \in NodeId |-> HasOn(nds, s, n, m, o)], NodeId)

Stock(nds, s, w, imminent, m, o) ==
  SumFunctionOnSet([n \in NodeId |-> StockOn(nds, s, w, imminent, n, m, o)], NodeId)
  + Asked(w.prod, m, o)

(* The producer's message counts once.                                        *)
SentOnce(snt, m, o) == IF o = First /\ m \in snt THEN 1 ELSE 0

EndsAll(nds, imminent, m, p) ==
  SumFunctionOnSet([n \in NodeId |-> EndsOn(nds, imminent, n, m, p)], NodeId)

Done(nds, ex, imminent, m) == [p \in Oper |-> ex[m][p] + EndsAll(nds, imminent, m, p)]

DueBefore(ex, snt, m, o) == SentOnce(snt, m, o) + Forwarded(ex[m], o)

DueNow(nds, ex, snt, imminent, m, o) ==
  SentOnce(snt, m, o) + Forwarded(Done(nds, ex, imminent, m), o)

(* The strengthening. *)
ExecutedType == executed \in [Mssg -> [Oper -> Nat]]

(* The producer has not sent the message that it generates, and its messages  *)
(* are numbered one after the other.                                          *)
SentFresh ==
  /\ prod.mssg \in 0 .. prod.state
  /\ \A k \in sent : k \in 1 .. prod.state
  /\ prod.mssg \in sent =>
       ~prod.generating \/ (phase = "advance" /\ ProducerM \in NowImminent)

(* Between two rounds the copies and the executed messages are what is due;   *)
(* in the middle of one, so are the copies with those on the wires, where     *)
(* what ends in this round is due already.                                    *)
ConservedCollect ==
  phase = "collect" => \A m \in Mssg, o \in Oper :
    Balances(HasAll(nodes, sw, m, o) + executed[m][o], DueBefore(executed, sent, m, o), o)

ConservedAdvance ==
  phase = "advance" => \A m \in Mssg, o \in Oper :
    Balances(Stock(nodes, sw, wire, NowImminent, m, o) + executed[m][o],
             DueNow(nodes, executed, sent, NowImminent, m, o), o)

(* The inductive invariant.                                                   *)
ConservedInv ==
  /\ SimulationInv /\ ExecutedType /\ OnlyMasterSendsOn /\ WireShort /\ SentFresh
  /\ ConservedCollect /\ ConservedAdvance

-----------------------------------------------------------------------------
(* It says what Conserved says.                                               *)
LEMMA CopiesAreAll ==
  ASSUME NEW m \in Mssg, NEW o \in Oper
  PROVE  /\ Copies(m, o) = HasAll(nodes, sw, m, o)
         /\ Arrivals(m, o) = DueBefore(executed, sent, m, o)
<1>1. \A n \in NodeId : CopiesOn(n, m, o) = HasOn(nodes, sw, n, m, o)
  BY DEF CopiesOn, HasOn, Held
<1>2. [n \in NodeId |-> CopiesOn(n, m, o)] = [n \in NodeId |-> HasOn(nodes, sw, n, m, o)]
  BY <1>1
<1>3. Copies(m, o) = SumFunctionOnSet([n \in NodeId |-> CopiesOn(n, m, o)], NodeId)
  BY DEF Copies, SumFunction
<1>4. Arrivals(m, o) = DueBefore(executed, sent, m, o)
  <2> DEFINE f == [p \in Oper \ EndOps |-> executed[m][p] * Count(Dest[p], {o})]
  <2>1. f = Forward(executed[m], o) /\ DOMAIN f = Oper \ EndOps
    BY DEF Forward
  <2>2. Arrivals(m, o) = (IF o = First /\ m \in sent THEN 1 ELSE 0) + SumFunction(f)
    BY DEF Arrivals
  <2> HIDE DEF f
  <2>3. QED
    BY <2>1, <2>2 DEF SumFunction, DueBefore, SentOnce, Forwarded
<1>5. QED
  BY <1>2, <1>3, <1>4 DEF HasAll

LEMMA ConservedFollows ==
  ASSUME ConservedInv
  PROVE  Conserved
BY CopiesAreAll DEF ConservedInv, ConservedCollect, Conserved, Balances

-----------------------------------------------------------------------------
(* The ends that the transitions count are those.                             *)
LEMMA EndsOnAre ==
  ASSUME NEW n, NEW imminent, NEW m, NEW p
  PROVE  /\ Ends(n, imminent, m, p) = EndsOn(nodes, imminent, n, m, p)
         /\ EndsOn(nodes, imminent, n, m, p) \in Nat
BY EndsAre, EndsOfNat DEF EndsOn

(* In the second half of a round each node accounts for its part of the       *)
(* copies, and with the switch for all on their way to it.                    *)
Advances(nds, s, imminent, loc, lapse, lapse2) ==
  /\ nds = [n \in NodeId |-> AfterTransition(n, imminent, loc)]
  /\ s = SwitchAfter(imminent, lapse, lapse2)
  /\ loc \in Locations[First] /\ lapse \in Nat /\ lapse2 \in Nat

AccountsOn(nds, s, imminent, n, m, o) ==
  /\ StockOn(nodes, sw, wire, imminent, n, m, o)
       + (IF n = Master THEN Asked(wire.prod, m, o) ELSE 0)
       = HasOn(nds, s, n, m, o) + EndsOn(nodes, imminent, n, m, o)
  /\ StockOn(nodes, sw, wire, imminent, n, m, o) \in Nat
  /\ HasOn(nds, s, n, m, o) \in Nat
  /\ n # Master => nds[n].extern_locations = <<>>

LEMMA AdvanceNode ==
  ASSUME SimulationInv, OnlyMasterSendsOn, WireShort, NEW nds, NEW s, NEW imminent, NEW loc,
         NEW lapse, NEW lapse2, Advances(nds, s, imminent, loc, lapse, lapse2),
         NEW m, NEW o \in Oper, NEW n \in NodeId
  PROVE  AccountsOn(nds, s, imminent, n, m, o)
<1> DEFINE B == Bringing(m, o)
           next == AfterTransition(n, imminent, loc)
           h == Held(n, nodes[n], m, o)
           k == KeptOn(nodes, imminent, n, m, o)
           b == Count(sw.buffers[n], B)
           i == Count(wire.node[n], B)
           w == Count(wire.sw[n], B)
           a == IF n = Master THEN Asked(wire.prod, m, o) ELSE 0
           hn == Held(n, next, m, o)
           fn == Count(next.extern_locations, B)
           bn == Count(s.buffers[n], B)
           ends == EndsOn(nodes, imminent, n, m, o)
<1>1. nds[n] = next /\ s = SwitchAfter(imminent, lapse, lapse2) /\ loc \in Locations[First]
      /\ lapse \in Nat /\ lapse2 \in Nat
  BY DEF Advances
<1>2. /\ sw.buffers[n] \in Seq(MssgFor(n)) /\ wire.node[n] \in Seq(MssgFor(n))
      /\ wire.sw[n] \in Seq(MssgFor(n)) /\ nodes[n] \in NodeType(n)
  BY DEF SimulationInv, SwitchGood, WireGood, NodesGood, NodeGood, ByNode
<1>3. b \in Nat /\ i \in Nat /\ w \in Nat
  BY <1>2, CountIs
<1>4. h \in Nat /\ k \in Nat
  BY <1>2, HeldNat DEF KeptOn
<1>5. a \in Nat
  BY DEF Asked
<1>6. next \in NodeType(n)
  BY <1>1, AfterTransitionGood DEF NodeGood
<1> HIDE DEF next
<1>7. hn \in Nat /\ fn \in Nat
  BY <1>6, HeldNat
<1>8. bn = b + w
  <2>1. Queues(s)
    BY <1>1, SwitchAfterCount
  <2>2. QED
    BY <2>1 DEF Queues
<1>9. k = Kept(n, imminent, m, o) /\ ends = Ends(n, imminent, m, o) /\ ends \in Nat
  BY EndsOnAre DEF Kept, KeptOn
<1>10. h + k + i + a = hn + fn + ends /\ (n # Master => next.extern_locations = <<>>)
  <2>1. /\ h + Kept(n, imminent, m, o) + i + a = hn + fn + Ends(n, imminent, m, o)
        /\ n # Master => next.extern_locations = <<>>
    BY <1>1, AfterTransitionHeld DEF next
  <2> HIDE DEF h, i, a, hn, fn, k, ends
  <2>2. QED
    BY <1>9, <2>1
<1>11. /\ StockOn(nodes, sw, wire, imminent, n, m, o) = h + k + b + i + w
       /\ HasOn(nds, s, n, m, o) = hn + fn + bn
  BY <1>1 DEF StockOn, HasOn
<1> HIDE DEF h, k, b, i, w, a, hn, fn, bn, ends
<1>12. /\ (h + k + b + i + w) + a = (hn + fn + bn) + ends
       /\ h + k + b + i + w \in Nat /\ hn + fn + bn \in Nat
  <2>1. (h + k + b + i + w) + a = (h + k + i + a) + (b + w)
    BY <1>3, <1>4, <1>5
  <2>2. bn \in Nat /\ ends \in Nat /\ h + k + i + a = hn + fn + ends
    BY <1>3, <1>8, <1>9, <1>10
  <2>3. (hn + fn + bn) + ends = (hn + fn + ends) + bn
    BY <1>7, <2>2
  <2>4. QED
    BY <1>3, <1>4, <1>7, <1>8, <2>1, <2>2, <2>3
<1>13. QED
  BY <1>1, <1>10, <1>11, <1>12 DEF a, ends, AccountsOn

(* All nodes together do so too.                                              *)
LEMMA AdvanceAll ==
  ASSUME SimulationInv, OnlyMasterSendsOn, WireShort, NEW nds, NEW s, NEW imminent, NEW loc,
         NEW lapse, NEW lapse2, Advances(nds, s, imminent, loc, lapse, lapse2),
         NEW m, NEW o \in Oper
  PROVE  /\ Stock(nodes, sw, wire, imminent, m, o) = HasAll(nds, s, m, o) + EndsAll(nodes, imminent, m, o)
         /\ HasAll(nds, s, m, o) \in Nat /\ EndsAll(nodes, imminent, m, o) \in Nat
<1> DEFINE f == [n \in NodeId |-> StockOn(nodes, sw, wire, imminent, n, m, o)]
           a == [n \in NodeId |-> IF n = Master THEN Asked(wire.prod, m, o) ELSE 0]
           h == [n \in NodeId |-> HasOn(nds, s, n, m, o)]
           e == [n \in NodeId |-> EndsOn(nodes, imminent, n, m, o)]
           all == [n \in NodeId |-> f[n] + a[n]]
<1>1. IsFiniteSet(NodeId) /\ Master \in NodeId
  BY OperFinite, Models
<1>2. Asked(wire.prod, m, o) \in Nat
  BY DEF Asked
<1>3. \A n \in NodeId : f[n] + a[n] = h[n] + e[n] /\ f[n] \in Nat /\ h[n] \in Nat
  <2>1. \A n \in NodeId : AccountsOn(nds, s, imminent, n, m, o)
    BY AdvanceNode
  <2>2. QED
    BY <2>1 DEF AccountsOn
<1>4. \A n \in NodeId : e[n] \in Nat /\ a[n] \in Nat
  BY <1>2, EndsOnAre
<1>5. a[Master] = Asked(wire.prod, m, o) /\ \A n \in NodeId : n # Master => a[n] = 0
  BY <1>1
<1>6. \A n \in NodeId : all[n] = f[n] + a[n]
  OBVIOUS
<1> HIDE DEF f, a, h, e, all
<1>7. SumFunctionOnSet(a, NodeId) = Asked(wire.prod, m, o)
  <2>1. SumFunctionOnSet(a, NodeId) = a[Master]
    BY <1>1, <1>2, <1>5, SumSingle
  <2>2. QED
    BY <1>5, <2>1
<1>8. SumFunctionOnSet(all, NodeId) = SumFunctionOnSet(f, NodeId) + SumFunctionOnSet(a, NodeId)
  BY <1>1, <1>3, <1>4, <1>6, SumPlus
<1>9. /\ SumFunctionOnSet(all, NodeId) = SumFunctionOnSet(h, NodeId) + SumFunctionOnSet(e, NodeId)
      /\ SumFunctionOnSet(h, NodeId) \in Nat /\ SumFunctionOnSet(e, NodeId) \in Nat
  <2>1. \A n \in NodeId : h[n] \in Nat /\ e[n] \in Nat /\ all[n] = h[n] + e[n]
    BY <1>3, <1>4, <1>6
  <2>2. QED
    BY ZenonT(40), <1>1, <2>1, SumPlus
<1>10. Stock(nodes, sw, wire, imminent, m, o) = SumFunctionOnSet(all, NodeId)
  BY <1>7, <1>8 DEF Stock, f
<1>11. QED
  BY <1>9, <1>10 DEF HasAll, EndsAll, h, e

-----------------------------------------------------------------------------
(* Every message of the producer is a new one. *)
LEMMA GenerateFresh ==
  ASSUME NEW p \in ProducerType, NEW lapse
  PROVE  /\ WithoutClock(P!Generate(p, lapse)).state = p.state + 1
         /\ WithoutClock(P!Generate(p, lapse)).mssg = p.state + 1
<1> DEFINE made == P!Generate(p, lapse)
<1>1. made = [p EXCEPT !.arrival = lapse, !.now = p.now + lapse, !.state = p.state + 1,
                       !.mssg = p.state + 1]
  BY DEF P!Generate
<1> HIDE DEF made
<1>2. made = [ state |-> p.state + 1, mssg |-> p.state + 1, arrival |-> lapse,
               now |-> p.now + lapse, line |-> p.line, reqs |-> p.reqs,
               generating |-> p.generating, last_reqs |-> p.last_reqs,
               capture_time |-> p.capture_time ]
  BY <1>1 DEF ProducerType
<1>3. WithoutClock(made) = [made EXCEPT !.now = 0]
  BY DEF WithoutClock
<1>4. QED
  BY <1>2, <1>3 DEF made

LEMMA ProducerInternalFresh ==
  ASSUME NEW p, ProducerGood(p), NEW min \in Nat, NEW lapse \in Nat
  PROVE  LET q == WithoutClock(P!ProducerInternal(p, min, lapse))
         IN  \/ q.state = p.state /\ q.mssg = p.mssg /\ ~q.generating
             \/ q.state = p.state /\ q.mssg = 0
             \/ q.state = p.state + 1 /\ q.mssg = p.state + 1
<1> DEFINE made == P!Produced(p, min, lapse)
           q == WithoutClock(made)
           fresh == \/ q.state = p.state /\ q.mssg = p.mssg /\ ~q.generating
                    \/ q.state = p.state /\ q.mssg = 0
                    \/ q.state = p.state + 1 /\ q.mssg = p.state + 1
<1>1. p \in ProducerType
  BY DEF ProducerGood
<1>2. P!ProducerInternal(p, min, lapse) = made
  BY DEF P!ProducerInternal, P!Captured, P!Captures
<1>3. q = [made EXCEPT !.now = 0]
  BY DEF WithoutClock
<1>4. CASE P!LineOver(p) /\ P!FinalLine(p) /\ min = Infinity
  <2>1. made = [p EXCEPT !.last_reqs = p.state, !.generating = FALSE]
    BY <1>4 DEF P!Produced, P!Passivate
  <2> HIDE DEF made, q
  <2>2. fresh
    BY <1>1, <1>3, <2>1 DEF ProducerType
  <2>3. QED
    BY <1>2, <2>2 DEF q
<1>5. CASE P!LineOver(p) /\ P!FinalLine(p) /\ min # Infinity
  <2>1. made = [p EXCEPT !.now = p.now + min, !.arrival = min, !.mssg = 0]
    BY <1>5 DEF P!Produced, P!KeepCapturing
  <2> HIDE DEF made, q
  <2>2. fresh
    BY <1>1, <1>3, <2>1 DEF ProducerType
  <2>3. QED
    BY <1>2, <2>2 DEF q
<1>6. CASE ~P!LineOver(p)
  <2>1. made = P!Generate(p, lapse)
    BY <1>6 DEF P!Produced
  <2> HIDE DEF made
  <2>2. fresh
    BY <1>1, <2>1, GenerateFresh
  <2>3. QED
    BY <1>2, <2>2
<1>7. CASE P!LineOver(p) /\ ~P!FinalLine(p)
  <2> DEFINE next == P!NextLine(p)
             l == p.line + 1
             r == p.reqs + Workload[l].first
  <2>1. made = P!Generate(next, lapse)
    BY <1>7 DEF P!Produced
  <2>2. next = [p EXCEPT !.line = l, !.reqs = r]
    BY DEF P!NextLine
  <2>3. l \in 1 .. Len(Workload)
    <3>1. Len(Workload) \in Nat
      BY SimulationAssumption DEF P!ProducerAssumption
    <3>2. p.line # Len(Workload) /\ p.line \in 1 .. Len(Workload)
      BY <1>1, <1>7 DEF P!FinalLine, ProducerType
    <3>3. QED
      BY <3>1, <3>2
  <2>4. r \in Nat
    <3>1. p.reqs \in Nat
      BY <1>1 DEF ProducerType
    <3> HIDE DEF l
    <3>2. Workload[l].first \in Nat
      BY <2>3, SendsOfLines
    <3>3. QED
      BY <3>1, <3>2
  <2> HIDE DEF made, next, l, r
  <2>5. next \in ProducerType /\ next.state = p.state
    BY <1>1, <2>2, <2>3, <2>4 DEF ProducerType
  <2>6. fresh
    BY <2>1, <2>5, GenerateFresh
  <2>7. QED
    BY <1>2, <2>6 DEF made
<1>8. QED
  BY <1>4, <1>5, <1>6, <1>7

(* The transitions count every end as executed.                               *)
LEMMA AdvanceExecuted ==
  ASSUME ConservedInv, NEW arrival, NEW loc, NEW lapse, NEW lapse2,
         Advance(arrival, loc, lapse, lapse2)
  PROVE  /\ executed' \in [Mssg -> [Oper -> Nat]]
         /\ \A m \in Mssg : executed'[m] = Done(nodes, executed, NowImminent, m)
<1>1. executed' = [m \in Mssg |-> [o \in Oper |->
        executed[m][o] + SumFunction([n \in NodeId |-> Ends(n, NowImminent, m, o)])]]
  BY DEF Advance, NowImminent
<1>2. ASSUME NEW m, NEW o
      PROVE  /\ SumFunction([n \in NodeId |-> Ends(n, NowImminent, m, o)])
                  = EndsAll(nodes, NowImminent, m, o)
             /\ EndsAll(nodes, NowImminent, m, o) \in Nat
  <2> DEFINE f == [n \in NodeId |-> Ends(n, NowImminent, m, o)]
             g == [n \in NodeId |-> EndsOn(nodes, NowImminent, n, m, o)]
  <2>1. f = g /\ \A n \in NodeId : f[n] \in Nat
    BY EndsOnAre
  <2>2. DOMAIN f = NodeId
    OBVIOUS
  <2> HIDE DEF f, g
  <2>3. SumFunctionOnSet(f, NodeId) \in Nat
    BY <2>1, OperFinite, SumNat
  <2>4. SumFunction(f) = SumFunctionOnSet(g, NodeId)
    BY <2>1, <2>2 DEF SumFunction
  <2>5. QED
    BY <2>1, <2>3, <2>4 DEF f, g, EndsAll
<1>3. executed' = [m \in Mssg |-> Done(nodes, executed, NowImminent, m)]
  BY <1>1, <1>2 DEF Done
<1>4. \A m \in Mssg : Done(nodes, executed, NowImminent, m) \in [Oper -> Nat]
  <2>1. \A m \in Mssg : \A o \in Oper : executed[m][o] \in Nat
    BY DEF ConservedInv, ExecutedType
  <2>2. \A a, b \in Nat : a + b \in Nat
    OBVIOUS
  <2>3. QED
    BY <1>2, <2>1, <2>2 DEF Done
<1>5. QED
  BY <1>3, <1>4

(* The second half of a round keeps the invariant.                            *)
LEMMA AdvanceConserved ==
  ASSUME ConservedInv, AdvanceSimulation
  PROVE  ConservedInv'
<1>1. PICK arrival \in Arrival, loc \in Locations[First], lapse \in SwitchLapse,
           lapse2 \in SwitchLapse : Advance(arrival, loc, lapse, lapse2)
  BY DEF AdvanceSimulation
<1>2. /\ phase = "advance" /\ phase' = "collect"
      /\ prod' = (IF ProducerM \in NowImminent
                  THEN WithoutClock(P!ProducerInternal(prod, MinAdvanceTime, arrival)) ELSE prod)
      /\ nodes' = [n \in NodeId |-> AfterTransition(n, NowImminent, loc)]
      /\ sw' = SwitchAfter(NowImminent, lapse, lapse2)
      /\ wire' = NoWire
      /\ sent' = sent
  BY <1>1 DEF Advance, NowImminent
<1>3. /\ SimulationInv /\ ExecutedType /\ OnlyMasterSendsOn /\ WireShort /\ SentFresh
      /\ ConservedAdvance
  BY DEF ConservedInv
<1>4. SimulationInv'
  BY <1>3, AdvanceGood
<1>5. Advances(nodes', sw', NowImminent, loc, lapse, lapse2)
  BY <1>2, SimulationAssumption DEF Advances
<1>6. ExecutedType' /\ \A m \in Mssg : executed'[m] = Done(nodes, executed, NowImminent, m)
  BY <1>1, AdvanceExecuted DEF ExecutedType
<1>7. OnlyMasterSendsOn'
  <2>1. \A n \in NodeId : AccountsOn(nodes', sw', NowImminent, n, 0, First)
    BY <1>3, <1>5, AdvanceNode, JobAssumption
  <2>2. QED
    BY <2>1 DEF AccountsOn, OnlyMasterSendsOn
<1>8. WireShort'
  BY <1>2 DEF WireShort, NoWire
<1>9. SentFresh'
  <2>1. arrival \in Nat /\ MinAdvanceTime \in Nat /\ ProducerGood(prod) /\ prod.state \in Nat
    BY <1>3, MinAdvanceTimeNat, SimulationAssumption DEF SimulationInv, ProducerGood, ProducerType
  <2>2. \/ prod'.state = prod.state /\ prod'.mssg = prod.mssg /\ ~prod'.generating
        \/ prod'.state = prod.state /\ prod'.mssg = 0
        \/ prod'.state = prod.state + 1 /\ prod'.mssg = prod.state + 1
        \/ prod' = prod /\ ProducerM \notin NowImminent
    BY <1>2, <2>1, ProducerInternalFresh
  <2>3. /\ prod.mssg \in 0 .. prod.state /\ \A k \in sent : k \in 1 .. prod.state
        /\ prod.mssg \in sent => ~prod.generating \/ ProducerM \in NowImminent
    BY <1>3 DEF SentFresh
  <2>4. prod'.mssg \in 0 .. prod'.state /\ \A k \in sent : k \in 1 .. prod'.state
    BY <2>1, <2>2, <2>3
  <2>5. prod'.mssg \in sent => ~prod'.generating
    <3>1. 0 \notin sent /\ prod.state + 1 \notin sent
      BY <2>1, <2>3
    <3>2. QED
      BY <2>2, <2>3, <3>1
  <2>6. QED
    BY <1>2, <2>4, <2>5 DEF SentFresh
<1>10. ConservedCollect'
  <2>1. ASSUME NEW m \in Mssg, NEW o \in Oper
        PROVE  Balances(HasAll(nodes', sw', m, o) + executed'[m][o],
                        DueBefore(executed', sent', m, o), o)
    <3> DEFINE has == HasAll(nodes', sw', m, o)
               ends == EndsAll(nodes, NowImminent, m, o)
               ex == executed[m][o]
               all == Stock(nodes, sw, wire, NowImminent, m, o)
    <3>1. all = has + ends /\ has \in Nat /\ ends \in Nat
      BY <1>3, <1>5, AdvanceAll
    <3>2. executed'[m][o] = ex + ends
      BY <1>6 DEF Done
    <3>3. ex \in Nat
      BY <1>3 DEF ExecutedType
    <3>4. DueBefore(executed', sent', m, o) = DueNow(nodes, executed, sent, NowImminent, m, o)
      BY <1>2, <1>6 DEF DueBefore, DueNow
    <3>5. Balances(all + ex, DueNow(nodes, executed, sent, NowImminent, m, o), o)
      BY <1>2, <1>3 DEF ConservedAdvance
    <3> HIDE DEF has, ends, ex, all
    <3>6. has + executed'[m][o] = all + ex
      BY <3>1, <3>2, <3>3
    <3>7. QED
      BY <3>4, <3>5, <3>6 DEF has
  <2>2. QED
    BY <2>1 DEF ConservedCollect
<1>11. ConservedAdvance'
  BY <1>2 DEF ConservedAdvance
<1>12. QED
  BY <1>4, <1>6, <1>7, <1>8, <1>9, <1>10, <1>11 DEF ConservedInv

-----------------------------------------------------------------------------
(* What the imminent nodes send is located. *)
Outputs(out) == \A n \in Imminent \cap NodeId : out[n] \in Output(n)

LEMMA OutputLocated ==
  ASSUME SimulationInv, NEW out, Outputs(out), NEW n \in Imminent \cap NodeId
  PROVE  /\ out[n] \in Seq(Located)
         /\ nodes[n].extern_locations # <<>> => out[n] = nodes[n].extern_locations
         /\ nodes[n].extern_locations = <<>> =>
              out[n] \in NextOperatorDestinations(TaskManagers(nodes), n)
         /\ TaskManagers(nodes)[n] = nodes[n].tm /\ nodes[n].tm \in Manager(Deployed(n))
<1>1. nodes[n] \in NodeType(n)
  BY DEF SimulationInv, NodesGood, NodeGood
<1>2. /\ nodes[n].extern_locations # <<>> => out[n] = nodes[n].extern_locations
      /\ nodes[n].extern_locations = <<>> =>
           out[n] \in NextOperatorDestinations(TaskManagers(nodes), n)
  BY DEF Outputs, Output
<1>3. TaskManagers(nodes)[n] = nodes[n].tm /\ nodes[n].tm \in Manager(Deployed(n))
  BY <1>1 DEF TaskManagers, NodeType
<1>4. CASE nodes[n].extern_locations # <<>>
  BY <1>1, <1>2, <1>3, <1>4 DEF NodeType
<1>5. CASE nodes[n].extern_locations = <<>>
  BY <1>2, <1>3, <1>5, DestinationsType
<1>6. QED
  BY <1>4, <1>5

(* The outputs change no time advance, so the models that are imminent remain *)
(* so once the clock has moved.                                               *)
LEMMA CollectTimes ==
  ASSUME SimulationInv, NEW out, Outputs(out), Collect(out)
  PROVE  \A m \in Model : TimeAdvanceOf(m)' = TimeAdvanceOf(m)
<1>1. /\ nodes' = [n \in NodeId |-> IF n \in Imminent \cap NodeId
                                    THEN LeftPending(nodes[n], n, out[n]) ELSE nodes[n]]
      /\ sw' = (IF SwitchM \in Imminent THEN Sw!AfterOutput(sw) ELSE sw)
      /\ prod' = prod
  BY DEF Collect
<1>2. \A n \in NodeId : TimeAdvance(nodes'[n]) = TimeAdvance(nodes[n])
  <2>1. ASSUME NEW n \in NodeId
        PROVE  TimeAdvance(nodes'[n]) = TimeAdvance(nodes[n])
    <3>1. CASE n \in Imminent \cap NodeId
      <4>1. NodeGood(n, nodes[n]) /\ out[n] \in Seq(Located)
        BY <3>1, OutputLocated DEF SimulationInv, NodesGood
      <4>2. nodes'[n] = LeftPending(nodes[n], n, out[n])
        BY <1>1, <3>1
      <4>3. QED
        BY <4>1, <4>2, LeftPendingGood
    <3>2. CASE n \notin Imminent \cap NodeId
      <4>1. nodes'[n] = nodes[n]
        BY <1>1, <3>2
      <4>2. QED
        BY <4>1
    <3>3. QED
      BY <3>1, <3>2
  <2>2. QED
    BY <2>1
<1>3. sw'.transmitting = sw.transmitting /\ sw'.send_time = sw.send_time
  BY <1>1, AfterOutputGood DEF SimulationInv
<1>4. QED
  BY <1>1, <1>2, <1>3, TimeAdvances, Models

LEMMA CollectImminent ==
  ASSUME SimulationInv, NEW out, Outputs(out), Collect(out)
  PROVE  NowImminent' = Imminent
<1>1. \A m \in Model : TimeAdvanceOf(m)' = TimeAdvanceOf(m)
  BY CollectTimes
<1>2. /\ elapsed' = [m \in Model |-> IF TimeAdvanceOf(m) = Infinity THEN 0
                                     ELSE elapsed[m] + ToNext]
      /\ ToNext # Infinity
  BY DEF Collect
<1>3. ToNext \in Nat /\ \A m \in Model : ToNext <= Left(m)
  BY ToNextLeast
<1>4. Infinity \in Nat
  BY SimulationAssumption
<1>5. ASSUME NEW m \in Model
      PROVE  Left(m)' = 0 <=> Left(m) = ToNext
  <2>1. TimeAdvanceOf(m) \in Nat /\ elapsed[m] \in Nat /\ ToNext <= Left(m)
    BY <1>3, TimeAdvanceNat DEF SimulationInv, TimesGood
  <2>2. Left(m)' = IF TimeAdvanceOf(m)' = Infinity THEN Infinity ELSE TimeAdvanceOf(m)' - elapsed'[m]
    BY DEF Left
  <2>3. Left(m) = IF TimeAdvanceOf(m) = Infinity THEN Infinity ELSE TimeAdvanceOf(m) - elapsed[m]
    BY DEF Left
  <2>4. CASE TimeAdvanceOf(m) = Infinity
    <3>1. Left(m)' = Infinity /\ Left(m) = Infinity
      BY <1>1, <2>2, <2>3, <2>4
    <3>2. QED
      BY <1>2, <1>3, <1>4, <2>1, <3>1
  <2>5. CASE TimeAdvanceOf(m) # Infinity
    <3>1. /\ Left(m)' = TimeAdvanceOf(m) - (elapsed[m] + ToNext)
          /\ Left(m) = TimeAdvanceOf(m) - elapsed[m]
      BY <1>1, <1>2, <2>2, <2>3, <2>5
    <3>2. QED
      BY <1>3, <2>1, <3>1
  <2>6. QED
    BY <2>4, <2>5
<1>6. NowImminent' = {m \in Model : Left(m)' = 0}
  BY DEF NowImminent
<1>7. Imminent = {m \in Model : Left(m) = ToNext}
  BY <1>2 DEF Imminent
<1>8. QED
  BY <1>5, <1>6, <1>7

-----------------------------------------------------------------------------
(* What a node sends in a round, beside what the producer gave it. *)
Sent(out, n, m, o) ==
  IF n \in Imminent /\ nodes[n].extern_locations = <<>>
  THEN Count(out[n], Bringing(m, o)) ELSE 0

(* It balances what its ends forward.                                         *)
LEMMA SentBalances ==
  ASSUME SimulationInv, NEW out, Outputs(out), NEW n \in NodeId, NEW m, NEW o \in Oper
  PROVE  /\ Sent(out, n, m, o) \in Nat
         /\ Balances(Sent(out, n, m, o),
                     Forwarded([p \in Oper |-> EndsOn(nodes, Imminent, n, m, p)], o), o)
<1> DEFINE e == [p \in Oper |-> EndsOn(nodes, Imminent, n, m, p)]
<1>1. ASSUME n \in Imminent, nodes[n].extern_locations = <<>>
      PROVE  /\ Sent(out, n, m, o) \in Nat
             /\ Balances(Sent(out, n, m, o), Forwarded(e, o), o)
  <2> DEFINE tms == TaskManagers(nodes)
  <2>1. /\ out[n] \in Seq(Located) /\ out[n] \in NextOperatorDestinations(tms, n)
        /\ tms[n] = nodes[n].tm /\ tms[n] \in Manager(Deployed(n))
    BY <1>1, OutputLocated
  <2>2. Sent(out, n, m, o) = Count(out[n], Bringing(m, o))
    BY <1>1 DEF Sent
  <2>3. Count(out[n], Bringing(m, o)) \in Nat
    BY <2>1, CountIs
  <2> HIDE DEF tms
  <2>4. e = [p \in Oper |-> EndsOf(n, tms[n], m, p)]
    BY <1>1, <2>1 DEF EndsOn
  <2> HIDE DEF e
  <2>5. Balances(Count(out[n], Bringing(m, o)),
                 Forwarded([p \in Oper |-> EndsOf(n, tms[n], m, p)], o), o)
    BY <2>1, DestinationsBalance
  <2>6. QED
    BY <2>2, <2>3, <2>4, <2>5
<1>2. ASSUME ~(n \in Imminent /\ nodes[n].extern_locations = <<>>)
      PROVE  /\ Sent(out, n, m, o) \in Nat
             /\ Balances(Sent(out, n, m, o), Forwarded(e, o), o)
  <2>1. Sent(out, n, m, o) = 0
    BY <1>2 DEF Sent
  <2>2. \A p \in Oper \ EndOps : e[p] = 0 /\ e[p] \in Nat
    BY <1>2 DEF EndsOn
  <2> HIDE DEF e
  <2>3. Forwarded(e, o) = 0
    BY <2>2, ForwardedNat
  <2>4. QED
    BY <2>1, <2>3 DEF Balances
<1>3. QED
  BY <1>1, <1>2

(* The bag of a node for the switch. *)
BagOf(out, n) == IF n \in Imminent \cap NodeId THEN ToSwitch(n, out[n]) ELSE <<>>

(* In the first half of a round each node accounts for its part of the copies. *)
CollectsOn(out, nds, s, w, n, m, o) ==
  /\ StockOn(nds, s, w, Imminent, n, m, o) + Count(BagOf(out, n), Bringing(m, o))
       = HasOn(nodes, sw, n, m, o) + Sent(out, n, m, o) + Count(w.sw[n], Bringing(m, o))
  /\ StockOn(nds, s, w, Imminent, n, m, o) \in Nat
  /\ HasOn(nodes, sw, n, m, o) \in Nat
  /\ Count(BagOf(out, n), Bringing(m, o)) \in Nat
  /\ Count(w.sw[n], Bringing(m, o)) \in Nat

Collects(out, nds, s, w) ==
  /\ nds = [n \in NodeId |-> IF n \in Imminent \cap NodeId
                             THEN LeftPending(nodes[n], n, out[n]) ELSE nodes[n]]
  /\ s = (IF SwitchM \in Imminent THEN Sw!AfterOutput(sw) ELSE sw)
  /\ w.node = SwitchToNodes
  /\ w.sw = NodesToSwitch([n \in NodeId |-> BagOf(out, n)])

LEMMA BagLocated ==
  ASSUME SimulationInv, NEW out, Outputs(out), NEW n \in NodeId
  PROVE  BagOf(out, n) \in Seq(Located)
<1>1. <<>> \in Seq(Located)
  OBVIOUS
<1>2. n \in Imminent \cap NodeId => ToSwitch(n, out[n]) \in Seq(Located)
  BY OutputLocated, ToSwitchType
<1>3. QED
  BY <1>1, <1>2 DEF BagOf

LEMMA CollectNode ==
  ASSUME SimulationInv, NEW out, Outputs(out), NEW nds, NEW s, NEW w, Collects(out, nds, s, w),
         ByNode(w.sw), NEW m, NEW o \in Oper, NEW n \in NodeId
  PROVE  CollectsOn(out, nds, s, w, n, m, o)
<1> DEFINE B == Bringing(m, o)
           next == nds[n]
           h == Held(n, nodes[n], m, o)
           f == Count(nodes[n].extern_locations, B)
           b == Count(sw.buffers[n], B)
           hn == Held(n, next, m, o)
           k == KeptOn(nds, Imminent, n, m, o)
           bn == Count(s.buffers[n], B)
           i == Count(w.node[n], B)
           r == Count(w.sw[n], B)
           g == Count(BagOf(out, n), B)
           u == Sent(out, n, m, o)
<1>1. /\ next = (IF n \in Imminent THEN LeftPending(nodes[n], n, out[n]) ELSE nodes[n])
      /\ s = (IF SwitchM \in Imminent THEN Sw!AfterOutput(sw) ELSE sw)
      /\ w.node = SwitchToNodes
  BY DEF Collects
<1>2. nodes[n] \in NodeType(n) /\ sw.buffers[n] \in Seq(MssgFor(n)) /\ w.sw[n] \in Seq(MssgFor(n))
  BY DEF SimulationInv, NodesGood, NodeGood, SwitchGood, ByNode
<1>3. h \in Nat /\ f \in Nat /\ b \in Nat /\ r \in Nat
  BY <1>2, HeldNat, CountIs
<1>4. b = bn + i
  BY <1>1, SwitchOutputCount
<1>5. g \in Nat /\ u \in Nat
  BY BagLocated, CountIs, SentBalances
<1>6. bn \in Nat /\ i \in Nat
  <2>1. SwitchGood(s)
    BY <1>1, AfterOutputGood DEF SimulationInv
  <2>2. s.buffers[n] \in Seq(MssgFor(n))
    BY <2>1 DEF SwitchGood, ByNode
  <2>3. w.node[n] = <<Sw!Emitted(sw)[n]>> \/ w.node[n] = <<>>
    BY <1>1 DEF SwitchToNodes
  <2> HIDE DEF B
  <2>4. Count(<<>>, B) \in Nat /\ Count(<<Sw!Emitted(sw)[n]>>, B) \in Nat
    BY CountEmpty, CountSingle
  <2>5. QED
    BY <2>2, <2>3, <2>4, CountIs
<1>7. hn + k + g = h + f + u /\ hn \in Nat /\ k \in Nat
  <2>1. ASSUME n \in Imminent
        PROVE  hn + k + g = h + f + u /\ hn \in Nat /\ k \in Nat
    <3>1. next = LeftPending(nodes[n], n, out[n]) /\ out[n] \in Seq(Located)
      BY <1>1, <2>1, OutputLocated
    <3>2. k = 0
      BY <2>1 DEF KeptOn
    <3>3. BagOf(out, n) = ToSwitch(n, out[n])
      BY <2>1 DEF BagOf
    <3> DEFINE c == Count(out[n], B)
    <3>4. hn + g = h + c
      <4>1. /\ Held(n, LeftPending(nodes[n], n, out[n]), m, o)
                 + Count(ToSwitch(n, out[n]), Bringing(m, o))
                 = Held(n, nodes[n], m, o) + Count(out[n], Bringing(m, o))
        BY <1>2, <3>1, LeftPendingHeld
      <4> HIDE DEF next
      <4>2. QED
        BY <3>1, <3>3, <4>1
    <3>5. hn \in Nat
      <4>1. next \in NodeType(n)
        BY <3>1, LeftPendingGood DEF SimulationInv, NodesGood, NodeGood
      <4> HIDE DEF next
      <4>2. QED
        BY <4>1, HeldNat
    <3>6. c = f + u
      <4>1. CASE nodes[n].extern_locations # <<>>
        <5>1. c = f /\ u = 0
          BY <2>1, <4>1, OutputLocated DEF Sent
        <5> HIDE DEF c, f, u
        <5>2. QED
          BY <1>3, <5>1
      <4>2. CASE nodes[n].extern_locations = <<>>
        <5>1. f = 0 /\ u = c
          BY <2>1, <4>2, CountEmpty DEF Sent
        <5> HIDE DEF c, f, u
        <5>2. QED
          BY <1>5, <5>1
      <4>3. QED
        BY <4>1, <4>2
    <3> HIDE DEF hn, k, g, h, f, u, c
    <3>7. QED
      BY <1>3, <1>5, <3>2, <3>4, <3>5, <3>6
  <2>2. ASSUME n \notin Imminent
        PROVE  hn + k + g = h + f + u /\ hn \in Nat /\ k \in Nat
    <3>1. next = nodes[n]
      BY <1>1, <2>2
    <3>2. k = f
      BY <2>2, <3>1 DEF KeptOn
    <3>3. g = 0
      BY <2>2, CountEmpty DEF BagOf
    <3>4. u = 0
      BY <2>2 DEF Sent
    <3> HIDE DEF next, k, g, u, B
    <3>5. hn = h
      BY <3>1
    <3> HIDE DEF hn, h, f
    <3>6. QED
      BY <1>3, <3>2, <3>3, <3>4, <3>5
  <2> HIDE DEF hn, k, g, h, f, u
  <2>3. QED
    BY <2>1, <2>2
<1>8. /\ StockOn(nds, s, w, Imminent, n, m, o) = hn + k + bn + i + r
      /\ HasOn(nodes, sw, n, m, o) = h + f + b
  BY DEF StockOn, HasOn
<1> HIDE DEF h, f, b, hn, k, bn, i, r, g, u
<1>9. (hn + k + bn + i + r) + g = (h + f + b) + u + r
  <2>1. (hn + k + bn + i + r) + g = (hn + k + g) + (bn + i) + r
    BY <1>3, <1>5, <1>6, <1>7
  <2>2. (h + f + u) + b + r = (h + f + b) + u + r
    BY <1>3, <1>5
  <2>3. QED
    BY <1>4, <1>7, <2>1, <2>2
<1>10. hn + k + bn + i + r \in Nat /\ h + f + b \in Nat
  BY <1>3, <1>6, <1>7
<1>11. QED
  BY <1>3, <1>5, <1>8, <1>9, <1>10 DEF CollectsOn, r, g, u

-----------------------------------------------------------------------------
(* All nodes together do so too: the switch receives all that the nodes send. *)
LEMMA CollectAll ==
  ASSUME SimulationInv, NEW out, Outputs(out), NEW nds, NEW s, NEW w, Collects(out, nds, s, w),
         ByNode(w.sw), NEW m, NEW o \in Oper
  PROVE  /\ Stock(nds, s, w, Imminent, m, o)
              = HasAll(nodes, sw, m, o)
                + SumFunctionOnSet([n \in NodeId |-> Sent(out, n, m, o)], NodeId)
                + Asked(w.prod, m, o)
         /\ HasAll(nodes, sw, m, o) \in Nat
         /\ SumFunctionOnSet([n \in NodeId |-> Sent(out, n, m, o)], NodeId) \in Nat
<1> DEFINE B == Bringing(m, o)
           bags == [n \in NodeId |-> BagOf(out, n)]
           f == [n \in NodeId |-> StockOn(nds, s, w, Imminent, n, m, o)]
           g == [n \in NodeId |-> Count(bags[n], B)]
           h == [n \in NodeId |-> HasOn(nodes, sw, n, m, o)]
           u == [n \in NodeId |-> Sent(out, n, m, o)]
           r == [n \in NodeId |-> Count(w.sw[n], B)]
           hu == [n \in NodeId |-> h[n] + u[n]]
           all == [n \in NodeId |-> f[n] + g[n]]
<1>1. IsFiniteSet(NodeId)
  BY OperFinite
<1>2. \A n \in NodeId : CollectsOn(out, nds, s, w, n, m, o)
  BY CollectNode
<1>3. \A n \in NodeId : /\ f[n] \in Nat /\ g[n] \in Nat /\ h[n] \in Nat /\ r[n] \in Nat
                        /\ f[n] + g[n] = h[n] + u[n] + r[n]
  BY <1>2 DEF CollectsOn
<1>4. \A n \in NodeId : u[n] \in Nat
  BY SentBalances
<1>5. SumFunctionOnSet(r, NodeId) = SumFunctionOnSet(g, NodeId)
  <2>1. w.sw = NodesToSwitch(bags)
    BY DEF Collects
  <2>2. \A n \in NodeId : bags[n] \in Seq(Located)
    BY BagLocated
  <2> HIDE DEF bags
  <2>3. SumFunctionOnSet([d \in NodeId |-> Count(NodesToSwitch(bags)[d], Bringing(m, o))], NodeId)
          = SumFunctionOnSet([n \in NodeId |-> Count(bags[n], Bringing(m, o))], NodeId)
    BY <2>2, NodesToSwitchCount
  <2>4. QED
    BY <2>1, <2>3
<1>6. \A n \in NodeId : all[n] = f[n] + g[n] /\ hu[n] = h[n] + u[n]
  OBVIOUS
<1> HIDE DEF f, g, h, u, r, hu, all
<1>7. /\ SumFunctionOnSet(all, NodeId) = SumFunctionOnSet(f, NodeId) + SumFunctionOnSet(g, NodeId)
      /\ SumFunctionOnSet(f, NodeId) \in Nat /\ SumFunctionOnSet(g, NodeId) \in Nat
  <2>1. \A n \in NodeId : f[n] \in Nat /\ g[n] \in Nat /\ all[n] = f[n] + g[n]
    BY <1>3, <1>6
  <2>2. QED
    BY ZenonT(40), <1>1, <2>1, SumPlus
<1>8. /\ SumFunctionOnSet(hu, NodeId) = SumFunctionOnSet(h, NodeId) + SumFunctionOnSet(u, NodeId)
      /\ SumFunctionOnSet(h, NodeId) \in Nat /\ SumFunctionOnSet(u, NodeId) \in Nat
  <2>1. \A n \in NodeId : h[n] \in Nat /\ u[n] \in Nat /\ hu[n] = h[n] + u[n]
    BY <1>3, <1>4, <1>6
  <2>2. QED
    BY ZenonT(40), <1>1, <2>1, SumPlus
<1>9. SumFunctionOnSet(all, NodeId) = SumFunctionOnSet(hu, NodeId) + SumFunctionOnSet(r, NodeId)
  <2>1. \A n \in NodeId : hu[n] \in Nat /\ r[n] \in Nat /\ all[n] = hu[n] + r[n]
    BY <1>3, <1>4, <1>6
  <2>2. QED
    BY <1>1, <2>1, SumPlus
<1> DEFINE sf == SumFunctionOnSet(f, NodeId)
           sg == SumFunctionOnSet(g, NodeId)
           sh == SumFunctionOnSet(h, NodeId)
           su == SumFunctionOnSet(u, NodeId)
<1>10. sf + sg = (sh + su) + sg /\ sf \in Nat /\ sg \in Nat /\ sh \in Nat /\ su \in Nat
  BY <1>5, <1>7, <1>8, <1>9
<1> HIDE DEF sf, sg, sh, su
<1>11. sf = sh + su
  BY <1>10
<1>12. Stock(nds, s, w, Imminent, m, o) = sf + Asked(w.prod, m, o)
  BY DEF Stock, sf, f
<1>13. HasAll(nodes, sw, m, o) = sh
  BY DEF HasAll, sh, h
<1>14. QED
  BY <1>10, <1>11, <1>12, <1>13 DEF su, u

(* What is due after the outputs. *)
DueAfter(nds, snt, m, o) ==
  LET e == [n \in NodeId |-> [p \in Oper |-> EndsOn(nodes, Imminent, n, m, p)]]
      more == SumFunctionOnSet([n \in NodeId |-> Forwarded(e[n], o)], NodeId)
  IN  /\ DueNow(nds, executed, snt, Imminent, m, o)
           = SentOnce(snt, m, o) + (Forwarded(executed[m], o) + more)
      /\ Forwarded(executed[m], o) \in Nat /\ more \in Nat
      /\ \A n \in NodeId : Forwarded(e[n], o) \in Nat

LEMMA CollectDue ==
  ASSUME SimulationInv, ExecutedType, NEW out, Outputs(out), NEW nds, NEW s, NEW w,
         Collects(out, nds, s, w), NEW snt, NEW m \in Mssg, NEW o \in Oper
  PROVE  DueAfter(nds, snt, m, o)
<1> DEFINE e == [n \in NodeId |-> [p \in Oper |-> EndsOn(nodes, Imminent, n, m, p)]]
           x == executed[m]
           y == Done(nds, executed, Imminent, m)
           V == Oper \ EndOps
<1>1. \A p \in V : x[p] \in Nat
  BY DEF ExecutedType
<1>2. \A n \in NodeId : \A p \in V : e[n][p] \in Nat
  BY EndsOnAre
<1>3. ASSUME NEW p \in V
      PROVE  y[p] = x[p] + SumFunctionOnSet([n \in NodeId |-> e[n][p]], NodeId)
  <2>1. ASSUME NEW n \in NodeId
        PROVE  EndsOn(nds, Imminent, n, m, p) = e[n][p]
    <3>1. nds[n].tm = nodes[n].tm /\ nds[n].extern_locations = nodes[n].extern_locations
      <4>1. nds[n] = IF n \in Imminent \cap NodeId THEN LeftPending(nodes[n], n, out[n])
                     ELSE nodes[n]
        BY DEF Collects
      <4>2. CASE n \in Imminent \cap NodeId
        <5>1. nodes[n] \in NodeType(n) /\ out[n] \in Seq(Located)
          BY <4>2, OutputLocated DEF SimulationInv, NodesGood, NodeGood
        <5>2. /\ LeftPending(nodes[n], n, out[n]).extern_locations = nodes[n].extern_locations
              /\ LeftPending(nodes[n], n, out[n]).tm = nodes[n].tm
          BY <5>1, LeftPendingHeld
        <5>3. QED
          BY <4>1, <4>2, <5>2
      <4>3. CASE n \notin Imminent \cap NodeId
        BY <4>1, <4>3
      <4>4. QED
        BY <4>2, <4>3
    <3>2. QED
      BY <3>1 DEF EndsOn
  <2>2. [n \in NodeId |-> EndsOn(nds, Imminent, n, m, p)] = [n \in NodeId |-> e[n][p]]
    BY <2>1
  <2>3. y[p] = x[p] + EndsAll(nds, Imminent, m, p)
    BY DEF Done
  <2>4. QED
    BY <2>2, <2>3 DEF EndsAll
<1> DEFINE more == SumFunctionOnSet([n \in NodeId |-> Forwarded(e[n], o)], NodeId)
<1>4. \A n \in NodeId : Forwarded(e[n], o) \in Nat
  <2>1. ASSUME NEW n \in NodeId
        PROVE  Forwarded(e[n], o) \in Nat
    <3> DEFINE en == e[n]
    <3>1. \A p \in Oper \ EndOps : en[p] \in Nat
      BY <1>2
    <3> HIDE DEF en
    <3>2. Forwarded(en, o) \in Nat
      BY <3>1, ForwardedNat
    <3>3. QED
      BY <3>2 DEF en
  <2>2. QED
    BY <2>1
<1>5. Forwarded(x, o) \in Nat
  BY <1>1, ForwardedNat
<1> HIDE DEF e, x, y
<1>6. Forwarded(y, o) = Forwarded(x, o) + more /\ more \in Nat
  <2>1. Gathered(x, e, y)
    BY <1>1, <1>2, <1>3 DEF Gathered
  <2>2. QED
    BY <2>1, ForwardedSum
<1>7. DueNow(nds, executed, snt, Imminent, m, o) = SentOnce(snt, m, o) + Forwarded(y, o)
  BY DEF DueNow, y
<1>8. QED
  BY <1>4, <1>5, <1>6, <1>7 DEF e, x, DueAfter

(* The producer's message is a new one, and is sent once. *)
LEMMA CollectSentFresh ==
  ASSUME SimulationInv, SentFresh, NEW out, Outputs(out), Collect(out)
  PROVE  SentFresh' /\ (ProducerM \in Imminent => prod.mssg \notin sent)
<1>1. /\ phase = "collect" /\ phase' = "advance" /\ ToNext # Infinity /\ prod' = prod
      /\ sent' = sent \cup (IF ProducerM \in Imminent THEN {prod.mssg} \ {0} ELSE {})
  BY DEF Collect
<1>2. /\ prod.mssg \in 0 .. prod.state /\ \A k \in sent : k \in 1 .. prod.state
      /\ prod.mssg \in sent => ~prod.generating
  BY <1>1 DEF SentFresh
<1>3. prod.state \in Nat
  BY DEF SimulationInv, ProducerGood, ProducerType
<1>4. ProducerM \in Imminent => prod.generating
  <2>1. ASSUME ~prod.generating
        PROVE  Left(ProducerM) = Infinity
    BY <2>1, TimeAdvances DEF Left, P!Period
  <2>2. QED
    BY <1>1, <2>1 DEF Imminent
<1>5. NowImminent' = Imminent
  BY CollectImminent
<1>6. SentFresh'
  <2>1. \A k \in sent' : k \in 1 .. prod.state
    <3>1. prod.mssg # 0 => prod.mssg \in 1 .. prod.state
      BY <1>2, <1>3
    <3>2. QED
      BY <1>1, <1>2, <3>1
  <2>2. prod.mssg \in sent' => ~prod.generating \/ ProducerM \in Imminent
    BY <1>1, <1>2
  <2>3. QED
    BY <1>1, <1>2, <1>5, <2>1, <2>2 DEF SentFresh
<1>7. QED
  BY <1>2, <1>4, <1>6

(* It is due at the first operator from then on.                              *)
LEMMA CollectSent ==
  ASSUME SimulationInv, SentFresh, NEW out, Outputs(out), Collect(out), NEW m \in Mssg,
         NEW o \in Oper
  PROVE  /\ SentOnce(sent', m, o) = SentOnce(sent, m, o) + Asked(wire'.prod, m, o)
         /\ SentOnce(sent, m, o) \in Nat /\ Asked(wire'.prod, m, o) \in Nat
<1>1. /\ wire'.prod = ProducerToMaster
      /\ sent' = sent \cup (IF ProducerM \in Imminent THEN {prod.mssg} \ {0} ELSE {})
  BY DEF Collect
<1>2. CASE ProducerM \in Imminent
  <2>1. wire'.prod = <<prod.mssg>> /\ sent' = sent \cup ({prod.mssg} \ {0})
    BY <1>1, <1>2 DEF ProducerToMaster
  <2>2. prod.mssg \notin sent
    BY <1>2, CollectSentFresh
  <2>3. <<prod.mssg>> = <<m>> <=> prod.mssg = m
    OBVIOUS
  <2>4. Asked(wire'.prod, m, o) = IF o = First /\ prod.mssg = m /\ m # 0 THEN 1 ELSE 0
    BY <2>1, <2>3 DEF Asked
  <2>5. m \in sent' <=> m \in sent \/ (prod.mssg = m /\ m # 0)
    BY <2>1
  <2>6. QED
    BY <2>2, <2>4, <2>5 DEF SentOnce
<1>3. CASE ProducerM \notin Imminent
  <2>1. wire'.prod = <<>> /\ sent' = sent
    BY <1>1, <1>3 DEF ProducerToMaster
  <2>2. <<>> # <<m>>
    OBVIOUS
  <2>3. Asked(wire'.prod, m, o) = 0
    BY <2>1, <2>2 DEF Asked
  <2>4. QED
    BY <2>1, <2>3 DEF SentOnce
<1>4. QED
  BY <1>2, <1>3

-----------------------------------------------------------------------------
(* What leaves all models alone keeps both invariants.                        *)
LEMMA TimesSame ==
  ASSUME nodes' = nodes, prod' = prod, sw' = sw, elapsed' = elapsed
  PROVE  \A m \in Model : TimeAdvanceOf(m)' = TimeAdvanceOf(m) /\ Left(m)' = Left(m)
<1>1. \A m \in Model : TimeAdvanceOf(m)' = TimeAdvanceOf(m)
  BY TimeAdvances, Models
<1>2. QED
  BY <1>1 DEF Left

LEMMA SimulationStutters ==
  ASSUME SimulationInv, UNCHANGED vars
  PROVE  SimulationInv'
<1>1. /\ nodes' = nodes /\ prod' = prod /\ sw' = sw /\ elapsed' = elapsed
      /\ wire' = wire /\ draw' = draw
  BY DEF vars
<1>2. TimesGood'
  BY <1>1, TimesSame DEF SimulationInv, TimesGood
<1>3. NodesGood' /\ WireGood'
  BY <1>1 DEF SimulationInv, NodesGood, WireGood
<1>4. QED
  BY <1>1, <1>2, <1>3 DEF SimulationInv

(* The first half of a round keeps the invariant.                             *)
LEMMA CollectConserved ==
  ASSUME ConservedInv, CollectOutputs
  PROVE  ConservedInv'
<1>1. PICK out : Outputs(out) /\ Collect(out)
  BY DEF CollectOutputs, Outputs
<1>2. /\ phase = "collect" /\ phase' = "advance" /\ executed' = executed
      /\ wire' = [ prod |-> ProducerToMaster, node |-> SwitchToNodes,
                   sw |-> NodesToSwitch([n \in NodeId |-> BagOf(out, n)]) ]
      /\ nodes' = [n \in NodeId |-> IF n \in Imminent \cap NodeId
                                    THEN LeftPending(nodes[n], n, out[n]) ELSE nodes[n]]
      /\ sw' = (IF SwitchM \in Imminent THEN Sw!AfterOutput(sw) ELSE sw)
  BY <1>1 DEF Collect, BagOf
<1>3. /\ SimulationInv /\ ExecutedType /\ OnlyMasterSendsOn /\ WireShort /\ SentFresh
      /\ ConservedCollect
  BY DEF ConservedInv
<1>4. SimulationInv'
  BY <1>3, CollectGood
<1>5. Collects(out, nodes', sw', wire') /\ ByNode(wire'.sw)
  BY <1>2, <1>4 DEF Collects, SimulationInv, WireGood
<1>6. ExecutedType'
  BY <1>2, <1>3 DEF ExecutedType
<1>7. OnlyMasterSendsOn'
  <2>1. ASSUME NEW n \in NodeId \ {Master}
        PROVE  nodes'[n].extern_locations = <<>>
    <3>1. nodes[n].extern_locations = <<>>
      BY <1>3 DEF OnlyMasterSendsOn
    <3>2. CASE n \in Imminent \cap NodeId
      <4>1. nodes[n] \in NodeType(n) /\ out[n] \in Seq(Located)
        BY <1>1, <1>3, <3>2, OutputLocated DEF SimulationInv, NodesGood, NodeGood
      <4>2. LeftPending(nodes[n], n, out[n]).extern_locations = nodes[n].extern_locations
        BY <4>1, LeftPendingHeld
      <4>3. nodes'[n] = LeftPending(nodes[n], n, out[n])
        BY <1>2, <3>2
      <4>4. QED
        BY <3>1, <4>2, <4>3
    <3>3. CASE n \notin Imminent \cap NodeId
      BY <1>2, <3>1, <3>3
    <3>4. QED
      BY <3>2, <3>3
  <2>2. QED
    BY <2>1 DEF OnlyMasterSendsOn
<1>8. WireShort'
  <2>1. Len(wire'.prod) <= 1
    <3>1. ProducerToMaster = <<prod.mssg>> \/ ProducerToMaster = <<>>
      BY DEF ProducerToMaster
    <3>2. Len(<<prod.mssg>>) <= 1 /\ Len(<<>>) <= 1
      OBVIOUS
    <3>3. QED
      BY <1>2, <3>1, <3>2
  <2>2. ASSUME NEW n \in NodeId
        PROVE  Len(wire'.node[n]) <= 1
    <3>1. SwitchToNodes[n] = <<Sw!Emitted(sw)[n]>> \/ SwitchToNodes[n] = <<>>
      BY DEF SwitchToNodes
    <3>2. Len(<<Sw!Emitted(sw)[n]>>) <= 1 /\ Len(<<>>) <= 1
      OBVIOUS
    <3>3. QED
      BY <1>2, <3>1, <3>2
  <2>3. QED
    BY <2>1, <2>2 DEF WireShort
<1>9. NowImminent' = Imminent
  BY <1>1, <1>3, CollectImminent
<1>10. SentFresh'
  <2>1. phase' = "advance" /\ ToNext # Infinity
    BY <1>1 DEF Collect
  <2>2. QED
    BY <1>1, <1>3, CollectSentFresh
<1>11. ConservedAdvance'
  <2>1. ASSUME NEW m \in Mssg, NEW o \in Oper
        PROVE  Balances(Stock(nodes', sw', wire', Imminent, m, o) + executed[m][o],
                        DueNow(nodes', executed, sent', Imminent, m, o), o)
    <3> DEFINE e == [n \in NodeId |-> [p \in Oper |-> EndsOn(nodes, Imminent, n, m, p)]]
               u == [n \in NodeId |-> Sent(out, n, m, o)]
               v == [n \in NodeId |-> Forwarded(e[n], o)]
               has == HasAll(nodes, sw, m, o)
               ex == executed[m][o]
               due == Forwarded(executed[m], o)
               more == SumFunctionOnSet(v, NodeId)
               gone == SumFunctionOnSet(u, NodeId)
               asked == Asked(wire'.prod, m, o)
               once == SentOnce(sent, m, o)
    <3>1. /\ Stock(nodes', sw', wire', Imminent, m, o) = has + gone + asked
          /\ has \in Nat /\ gone \in Nat
      BY <1>1, <1>3, <1>5, CollectAll
    <3>2. /\ DueNow(nodes', executed, sent', Imminent, m, o) = SentOnce(sent', m, o) + (due + more)
          /\ due \in Nat /\ more \in Nat /\ \A n \in NodeId : v[n] \in Nat
      <4>1. DueAfter(nodes', sent', m, o)
        BY <1>1, <1>3, <1>5, CollectDue
      <4>2. QED
        BY <4>1 DEF DueAfter
    <3>3. SentOnce(sent', m, o) = once + asked /\ once \in Nat /\ asked \in Nat
      BY <1>1, <1>3, CollectSent
    <3>4. ex \in Nat
      BY <1>3 DEF ExecutedType
    <3>5. Balances(has + ex, once + due, o)
      BY <1>2, <1>3 DEF ConservedCollect, DueBefore
    <3>6. \A n \in NodeId : u[n] \in Nat /\ Balances(u[n], v[n], o)
      BY <1>1, <1>3, SentBalances
    <3> HIDE DEF e, u, v
    <3>7. Balances(gone, more, o)
      BY <3>2, <3>6, OperFinite, BalancesSum
    <3> HIDE DEF has, ex, due, more, gone, asked, once
    <3>8. Balances((has + ex) + gone + asked, (once + due) + more + asked, o)
      <4>1. has + ex \in Nat /\ once + due \in Nat
        BY <3>1, <3>2, <3>3, <3>4
      <4>2. QED
        BY <3>1, <3>2, <3>3, <3>5, <3>7, <4>1, BalancesAdd
    <3>9. /\ (has + ex) + gone + asked = (has + gone + asked) + ex
          /\ (once + due) + more + asked = (once + asked) + (due + more)
      BY <3>1, <3>2, <3>3, <3>4
    <3>10. QED
      BY <3>1, <3>2, <3>3, <3>8, <3>9 DEF ex
  <2>2. QED
    BY <1>2, <1>9, <2>1 DEF ConservedAdvance
<1>12. ConservedCollect'
  BY <1>2 DEF ConservedCollect
<1>13. QED
  BY <1>4, <1>6, <1>7, <1>8, <1>10, <1>11, <1>12 DEF ConservedInv

(* No message is anywhere at first.                                           *)
LEMMA ConservedInit ==
  ASSUME Init
  PROVE  ConservedInv
<1>1. SimulationInv
  BY SimulationInit
<1>2. /\ phase = "collect" /\ prod = P!NewProducer /\ nodes = [n \in NodeId |-> NewNode]
      /\ sw = Sw!NewSwitch /\ wire = NoWire /\ sent = {}
      /\ executed = [m \in Mssg |-> [o \in Oper |-> 0]]
  BY DEF Init
<1>3. ExecutedType /\ OnlyMasterSendsOn /\ WireShort
  BY <1>2 DEF ExecutedType, OnlyMasterSendsOn, WireShort, NoWire, NewNode
<1>4. SentFresh
  <2>1. prod.mssg = 1 /\ prod.state = 1
    BY <1>2 DEF P!NewProducer
  <2>2. QED
    BY <1>2, <2>1 DEF SentFresh
<1>5. ASSUME NEW m \in Mssg, NEW o \in Oper
      PROVE  HasAll(nodes, sw, m, o) = 0
  <2>1. ASSUME NEW n \in NodeId
        PROVE  HasOn(nodes, sw, n, m, o) = 0
    <3>1. /\ nodes[n].tm = NewTaskManager /\ nodes[n].internal_pendings = <<>>
          /\ nodes[n].extern_locations = <<>> /\ sw.buffers[n] = <<>>
      BY <1>2 DEF NewNode, Sw!NewSwitch
    <3>2. CopiesAt(NewTaskManager, m, SlotsOf(n, o)) = 0
      <4> DEFINE Q == SlotsOf(n, o)
                 f == [c \in Core |-> Count(NewTaskManager.bufs[c], Prepared(m, Q))]
                 g == [s \in Q |-> Count(NewTaskManager.tuples[s], {m})]
      <4>1. Q \in SUBSET Slot /\ IsFiniteSet(Q)
        BY SlotsOfType, SlotsFinite
      <4>2. \A c \in Core : f[c] = 0
        BY CountEmpty DEF NewTaskManager
      <4>3. \A s \in Q : g[s] = 0
        BY <4>1, CountEmpty DEF NewTaskManager
      <4>4. InBufs(NewTaskManager, m, Q) = SumFunctionOnSet(f, Core)
            /\ InTuples(NewTaskManager, m, Q) = SumFunctionOnSet(g, Q)
        BY DEF InBufs, InTuples
      <4> HIDE DEF f, g, Q
      <4>5. SumFunctionOnSet(f, Core) = 0 /\ SumFunctionOnSet(g, Q) = 0
        BY <4>1, <4>2, <4>3, CoreFinite, SumZero
      <4>6. CopiesAt(NewTaskManager, m, Q) = InBufs(NewTaskManager, m, Q) + InTuples(NewTaskManager, m, Q)
        BY CopiesAre
      <4>7. QED
        BY <4>4, <4>5, <4>6 DEF Q
    <3>3. Count(<<>>, Bringing(m, o)) = 0
      BY CountEmpty
    <3>4. QED
      BY <3>1, <3>2, <3>3 DEF HasOn, Held
  <2> DEFINE f == [n \in NodeId |-> HasOn(nodes, sw, n, m, o)]
  <2>2. \A n \in NodeId : f[n] = 0
    BY <2>1
  <2> HIDE DEF f
  <2>3. SumFunctionOnSet(f, NodeId) = 0
    BY <2>2, OperFinite, SumZero
  <2>4. QED
    BY <2>3 DEF HasAll, f
<1>6. ASSUME NEW m \in Mssg, NEW o \in Oper
      PROVE  executed[m][o] = 0 /\ DueBefore(executed, sent, m, o) = 0
  <2> DEFINE x == executed[m]
  <2>1. \A p \in Oper : x[p] = 0
    BY <1>2
  <2>2. SentOnce(sent, m, o) = 0
    BY <1>2 DEF SentOnce
  <2> HIDE DEF x
  <2>3. \A p \in Oper \ EndOps : x[p] = 0 /\ x[p] \in Nat
    BY <2>1
  <2>4. Forwarded(x, o) = 0
    BY <2>3, ForwardedNat
  <2>5. QED
    BY <2>1, <2>2, <2>4 DEF x, DueBefore
<1>7. ConservedCollect
  BY <1>5, <1>6 DEF ConservedCollect, Balances
<1>8. ConservedAdvance
  BY <1>2 DEF ConservedAdvance
<1>9. QED
  BY <1>1, <1>3, <1>4, <1>7, <1>8 DEF ConservedInv

(* A message that was sent to an operator is in exactly one place - on the    *)
(* master to be sent on, on its way in a node or the switch, in a queue of a  *)
(* slot, or prepared on a core - until the operator has executed it, and each *)
(* execution sends one message to each destination of the operator. No        *)
(* internal, external or confluent transition of a node or the switch, no     *)
(* output and no coupling between them loses a message or takes one twice,    *)
(* whatever the job, its deployment, the outcome of load balancing and the    *)
(* times drawn. Fewer arrive only behind a selective operator.                *)
THEOREM ConservedAlways == Spec => []Conserved
<1>1. ConservedInv /\ [Next]_vars => ConservedInv'
  <2>1. ConservedInv /\ CollectOutputs => ConservedInv'
    BY CollectConserved
  <2>2. ConservedInv /\ AdvanceSimulation => ConservedInv'
    BY AdvanceConserved
  <2>3. ASSUME ConservedInv, UNCHANGED vars
        PROVE  ConservedInv'
    <3>1. /\ phase' = phase /\ nodes' = nodes /\ prod' = prod /\ sw' = sw /\ elapsed' = elapsed
          /\ wire' = wire /\ draw' = draw /\ executed' = executed /\ sent' = sent
      BY <2>3 DEF vars
    <3>2. SimulationInv'
      BY <2>3, SimulationStutters DEF ConservedInv
    <3>3. NowImminent' = NowImminent
      BY <3>1, TimesSame DEF NowImminent
    <3>4. /\ ExecutedType' /\ OnlyMasterSendsOn' /\ WireShort' /\ SentFresh'
          /\ ConservedCollect' /\ ConservedAdvance'
      BY <2>3, <3>1, <3>3 DEF ConservedInv, ExecutedType, OnlyMasterSendsOn, WireShort, SentFresh,
                               ConservedCollect, ConservedAdvance
    <3>5. QED
      BY <3>2, <3>4 DEF ConservedInv
  <2>4. QED
    BY <2>1, <2>2, <2>3 DEF Next
<1>2. ConservedInv => Conserved
  BY ConservedFollows
<1>3. QED
  BY <1>1, <1>2, ConservedInit, PTL DEF Spec
=============================================================================
