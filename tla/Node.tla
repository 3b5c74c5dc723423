-------------------------------- MODULE Node --------------------------------
(***************************************************************************)
(* The DEVS functions of the node models: Node_t (atomics/node.hpp) and    *)
(* NodeMaster_t (atomics/nodemaster.hpp), as operators on a node's state.  *)
(* A located message is a location and a message.  The execution time that *)
(* a subtask would draw is given as draw[message][operator].               *)
(***************************************************************************)
EXTENDS JobManager, SequencesExt

CONSTANT Infinity   \* the largest time (numeric_limits max and infinity)

LocatedMssg(loc, mssg) == [node |-> loc.node, slot |-> loc.slot, mssg |-> mssg]

(* The located messages of a sequence that are for some nodes, and sequences  *)
(* put together.                                                              *)
ForNodes(locs, ns) ==
  LET kept[k \in 0 .. Len(locs)] ==
        IF k = 0 THEN <<>>
        ELSE kept[k - 1] \o (IF locs[k].node \in ns THEN <<locs[k]>> ELSE <<>>)
  IN  kept[Len(locs)]

Together(seqs) ==
  LET all[k \in 0 .. Len(seqs)] == IF k = 0 THEN <<>> ELSE all[k - 1] \o seqs[k]
  IN  all[Len(seqs)]

(***************************************************************************)
(* tm                : taskman_                                            *)
(* processing        : processing_                                         *)
(* lapse_time        : lapse_time_                                         *)
(* internal_pendings : messages that stay on this node                     *)
(* extern_locations  : the producer's messages for other nodes (master)    *)
(***************************************************************************)
NewNode ==
  [ tm |-> NewTaskManager, processing |-> FALSE, lapse_time |-> 0,
    internal_pendings |-> <<>>, extern_locations |-> <<>> ]

TimeAdvance(nd) == IF nd.processing THEN nd.lapse_time ELSE Infinity

(* The least lapse of the active subtasks. *)
LapsePriority(tm) == IF Busy(tm) = {} THEN Infinity ELSE LessExecTime(tm)

Schedule(tm, loc, draw) ==
  ScheduleExec(tm, loc.mssg, loc.slot, draw[loc.mssg][OperatorAt(loc.node, loc.slot)])

(* Faulty variant: the lapse of the node is set only when it was idle. *)
UpdateLapseIfIdle(nd) ==
  IF nd.tm.pending = 0
  THEN [nd EXCEPT !.processing = FALSE]
  ELSE [nd EXCEPT !.processing = TRUE,
                  !.lapse_time = IF nd.processing THEN @ ELSE LapsePriority(nd.tm)]

UpdateLapse(nd) ==
  IF nd.tm.pending = 0
  THEN [nd EXCEPT !.processing = FALSE]
  ELSE [nd EXCEPT !.processing = TRUE, !.lapse_time = LapsePriority(nd.tm)]

(* The messages that stay on the node, one after the other. *)
SchedulePendings(tm, locs, draw) ==
  LET after[k \in 0 .. Len(locs)] ==
        IF k = 0 THEN tm ELSE Schedule(after[k - 1], locs[k], draw)
  IN  after[Len(locs)]

(* The queues of the slots that were freed, by core. *)
CheckSlot(tm, slot, node, draw) ==
  IF slot = NoSlot THEN tm
  ELSE CheckQueuedExecution(tm, slot, draw[Head(tm.tuples[slot])][OperatorAt(node, slot)])

CheckQueued(tm, used, node, draw) ==
  LET after[k \in 0 .. NCores] ==
        IF k = 0 THEN tm ELSE CheckSlot(after[k - 1], used[k - 1], node, draw)
  IN  after[NCores]

(* Faulty variant: the messages that stay on the node are not scheduled. *)
NodeInternalForgetting(nd, node, draw) ==
  LET ended == TerminateActiveExecutions(nd.tm)
  IN  UpdateLapse([nd EXCEPT !.tm = CheckQueued(ended, ended.used, node, draw),
                             !.internal_pendings = <<>>])

NodeInternal(nd, node, draw) ==
  LET ended     == TerminateActiveExecutions(nd.tm)
      scheduled == SchedulePendings(ended, nd.internal_pendings, draw)
  IN  UpdateLapse([nd EXCEPT !.tm = CheckQueued(scheduled, ended.used, node, draw),
                             !.internal_pendings = <<>>])

(* Faulty variant: the master terminates executions while it only has to     *)
(* send on what the producer gave it.                                        *)
MasterInternalAlways(nd, node, draw) ==
  NodeInternal([nd EXCEPT !.extern_locations = <<>>], node, draw)

MasterInternal(nd, node, draw) ==
  IF nd.extern_locations # <<>>
  THEN UpdateLapse([nd EXCEPT !.extern_locations = <<>>])
  ELSE NodeInternal(nd, node, draw)

-----------------------------------------------------------------------------
Mssgs(bag) == {bag[i].mssg : i \in DOMAIN bag}

(* The message of the switch, if there is one. *)
FromSwitch(tm, bag, draw) == IF bag = <<>> THEN tm ELSE Schedule(tm, bag[1], draw)

(* Faulty variant: the message that just arrived runs for the elapsed time. *)
NodeExternalRecent(nd, e, bag, draw) ==
  LET tm  == FromSwitch(nd.tm, bag, draw)
      run == IF nd.processing THEN Elapse(tm, e, {}) ELSE tm
  IN  [nd EXCEPT !.tm = run, !.processing = TRUE, !.lapse_time = LapsePriority(run)]

NodeExternal(nd, e, bag, draw) ==
  LET tm  == FromSwitch(nd.tm, bag, draw)
      run == IF nd.processing THEN Elapse(tm, e, Mssgs(bag)) ELSE tm
  IN  [nd EXCEPT !.tm = run, !.processing = TRUE, !.lapse_time = LapsePriority(run)]

(***************************************************************************)
(* The producer's message (prod, a sequence of at most one; zero carries   *)
(* no request) is for the location that load balancing chose: here, or on  *)
(* another node, where it is sent through the switch at once.              *)
(***************************************************************************)
MasterExternal(nd, node, e, prod, loc, bag, draw) ==
  LET request == prod # <<>> /\ prod[1] # 0
      here    == request /\ loc.node = node
      elsewhere == IF request /\ ~here
                   THEN Append(nd.extern_locations, LocatedMssg(loc, prod[1]))
                   ELSE nd.extern_locations
      accepted == IF here THEN Schedule(nd.tm, LocatedMssg(loc, prod[1]), draw) ELSE nd.tm
      tm      == FromSwitch(accepted, bag, draw)
      run     == IF nd.processing THEN Elapse(tm, e, {prod[i] : i \in DOMAIN prod} \cup Mssgs(bag))
                 ELSE tm
  IN  CASE elsewhere # <<>> ->
             [nd EXCEPT !.tm = tm, !.processing = TRUE, !.lapse_time = 0,
                        !.extern_locations = elsewhere]
        [] elsewhere = <<>> /\ tm.pending # 0 ->
             [nd EXCEPT !.tm = run, !.processing = TRUE, !.lapse_time = LapsePriority(run)]
        [] OTHER ->
             [nd EXCEPT !.tm = tm, !.processing = TRUE]

-----------------------------------------------------------------------------
(* The operators whose output may be dropped (selectivity below one). *)
CONSTANT Selective

(* The messages that leave an operator that ends: one per destination. *)
Outgoing(node, subtask) ==
  LET o == OperatorAt(node, subtask.slot)
  IN  IF LastOperator(o) THEN <<>>
      ELSE [d \in DOMAIN Dest[o] |-> [mssg |-> subtask.mssg, oper |-> Dest[o][d]]]

(* The orders in which the subtasks that end may send, less those dropped.  *)
SendOrders(tm, node) ==
  LET kept == {c \in Finishing(tm) : OperatorAt(node, ActiveOn(tm, c).slot) \notin Selective}
  IN  UNION {SetToSeqs(kept \cup dropped) : dropped \in SUBSET (Finishing(tm) \ kept)}

(* Every way to balance the destinations of what a node sends. *)
Balanced(tms, out) ==
  LET choices(i) == {LocatedMssg(loc, out[i].mssg) : loc \in OperLocationLessload(tms, out[i].oper)}
  IN  {f \in [DOMAIN out -> UNION {choices(i) : i \in DOMAIN out}] :
         \A i \in DOMAIN out : f[i] \in choices(i)}

NextOperatorDestinations(tms, node) ==
  UNION {Balanced(tms, Together([i \in DOMAIN order |->
                         Outgoing(node, ActiveOn(tms[node], order[i]))]))
         : order \in SendOrders(tms[node], node)}

(* The destinations that are on this node are left pending. *)
LeftPending(nd, node, sent) ==
  [nd EXCEPT !.internal_pendings = @ \o ForNodes(sent, {node})]

ToSwitch(node, sent) == ForNodes(sent, NodeId \ {node})
=============================================================================
