--------------------------- MODULE TaskExecution ---------------------------
(***************************************************************************)
(* One task manager under the calls a node makes on it.  The external      *)
(* transition schedules what arrived and lets the active subtasks run.     *)
(* The node's output chooses where the messages of the subtasks that end   *)
(* go next; those that stay on this node are left in internal_pendings_,   *)
(* and the internal transition that follows terminates those subtasks,     *)
(* schedules the pendings, and only then serves the queues of the freed    *)
(* slots: one call each.  The node is ready when all of them are made.     *)
(***************************************************************************)
EXTENDS TaskManager

CONSTANTS
  Oper,      \* operators of the job
  First,     \* the operator the producer's messages go to
  OperOf,    \* the operator each slot was reserved for
  Dest,      \* the operators each operator sends its output to
  Lapse,     \* execution times
  Ties,      \* may two cores finish at the same instant?
  MaxQueue   \* bound: messages on one slot, queued or prepared

ASSUME ConstantsAssumption ==
  /\ First \in Oper
  /\ OperOf \in [Slot -> Oper]
  /\ Dest \in [Oper -> SUBSET Oper]
  /\ \A o \in Oper : o \notin Dest[o]
  /\ Lapse \subseteq Nat
  /\ Ties \in BOOLEAN
  /\ MaxQueue \in Nat

VARIABLES
  tm,        \* the task manager
  pendings,  \* internal_pendings_, and the core that each comes from
  due        \* cores whose freed slot still has to be checked

vars == <<tm, pendings, due>>

Ready == due = {}

(* The places of the subtasks prepared for slot s, and their messages. *)
Prepared(s) ==
  UNION {{<<c, i>> : i \in {j \in 1 .. Len(tm.bufs[c]) : tm.bufs[c][j].slot = s}} : c \in Core}

InService(s) == {tm.bufs[p[1]][p[2]].mssg : p \in Prepared(s)}

(* Bound: a slot is sent no further message. *)
Room(s) == Len(tm.tuples[s]) + Cardinality(Prepared(s)) < MaxQueue

(* The time an external event may come after the last one: before the end  *)
(* of the first active subtask, or with it (when the engine runs the       *)
(* internal transition first and e is zero).                               *)
Elapsed == IF Busy(tm) = {} THEN {0} ELSE {0} \cup 0 .. LessExecTime(tm) - 1

(* The slots on this node that the output may choose for the message of    *)
(* the subtask that ends on core c: one per destination operator, unless   *)
(* the location is on another node or selectivity drops the message.       *)
Chosen(c) ==
  {S \in SUBSET {s \in Slot : OperOf[s] \in Dest[OperOf[ActiveOn(tm, c).slot]] /\ Room(s)} :
     \A r, s \in S : OperOf[r] = OperOf[s] => r = s}

Pending(c, s) == [core |-> c, mssg |-> ActiveOn(tm, c).mssg, slot |-> s]
-----------------------------------------------------------------------------
Init ==
  /\ tm = NewTaskManager
  /\ pendings = {}
  /\ due = {}

(* External transition: a message arrives for a slot after e time units. *)
Receive(m, s, l, e) ==
  /\ Ready
  /\ Room(s)
  /\ tm' = Elapse(ScheduleExec(tm, m, s, l), e, {m})
  /\ UNCHANGED <<pendings, due>>

(* External transition of the master: one message of the producer, for a   *)
(* slot of the first operator, and one of the switch, for another slot.    *)
ReceiveBoth(m, s, l, n, r, k, e) ==
  /\ Ready
  /\ Room(s) /\ Room(r)
  /\ m # n /\ OperOf[s] = First /\ OperOf[r] # First
  /\ tm' = Elapse(ScheduleExec(ScheduleExec(tm, m, s, l), n, r, k), e, {m, n})
  /\ UNCHANGED <<pendings, due>>

(* External transition of the master for a message that carries no request. *)
Tick(e) ==
  /\ Ready
  /\ tm' = Elapse(tm, e, {})
  /\ UNCHANGED <<pendings, due>>

(* Output, then the internal transition's first call.  Without ties one    *)
(* core finishes.                                                          *)
Terminate(sent) ==
  /\ Ready
  /\ Ties \/ Cardinality(Finishing(tm)) <= 1
  /\ \A c \in Finishing(tm) : sent[c] \in Chosen(c)
  /\ tm' = TerminateActiveExecutions(tm)
  /\ due' = Finishing(tm)
  /\ pendings' = UNION {{Pending(c, s) : s \in sent[c]} : c \in Finishing(tm)}

(* Internal transition: the next pending is scheduled. *)
SchedulePending(p, l) ==
  /\ tm' = ScheduleExec(tm, p.mssg, p.slot, l)
  /\ pendings' = pendings \ {p}
  /\ UNCHANGED due

(* Faulty variant: only the first of the freed slots is checked. *)
CheckFirstQueued(l) ==
  /\ pendings = {} /\ due # {}
  /\ LET c == CHOOSE c \in due : \A d \in due : c <= d
     IN  tm' = CheckQueuedExecution(tm, tm.used[c], l)
  /\ due' = {}
  /\ UNCHANGED pendings

(* Internal transition, last calls: the queues of the freed slots, by core. *)
CheckQueued(l) ==
  /\ pendings = {} /\ due # {}
  /\ LET c == CHOOSE c \in due : \A d \in due : c <= d
     IN  /\ tm' = CheckQueuedExecution(tm, tm.used[c], l)
         /\ due' = due \ {c}
  /\ UNCHANGED pendings

Next ==
  \/ \E m \in Mssg, s \in Slot, l \in Lapse, e \in Elapsed : Receive(m, s, l, e)
  \/ \E m \in Mssg, s \in Slot, l \in Lapse, n \in Mssg, r \in Slot, k \in Lapse, e \in Elapsed :
        ReceiveBoth(m, s, l, n, r, k, e)
  \/ \E e \in Elapsed : Tick(e)
  \/ \E sent \in [Finishing(tm) -> SUBSET Slot] : Terminate(sent)
  \/ \E p \in pendings, l \in Lapse : SchedulePending(p, l)
  \/ \E l \in Lapse : CheckQueued(l)

Spec == Init /\ [][Next]_vars
-----------------------------------------------------------------------------
(* Types; in particular a lapse never goes below zero. *)
TypeOK ==
  /\ tm \in TaskManagerType
  /\ pendings \subseteq [core : Core, mssg : Mssg, slot : Slot]
  /\ due \subseteq Core
  /\ \A c \in due : tm.used[c] \in Slot

(* A slot executes one message at a time: no two subtasks are prepared for *)
(* it, on one core or on two.                                              *)
OneAtATime(t) ==
  \A c, d \in Core : \A i \in 1 .. Len(t.bufs[c]), j \in 1 .. Len(t.bufs[d]) :
     t.bufs[c][i].slot = t.bufs[d][j].slot => c = d /\ i = j

Prepares(t, s) == \E c \in Core : \E i \in 1 .. Len(t.bufs[c]) : t.bufs[c][i].slot = s

(* The flags that scheduling and load balancing read say what the core      *)
(* buffers hold: using_ is set exactly on the slots with a prepared subtask *)
(* and active_ exactly on those whose subtask is running on a core.         *)
FlagsExact(t) ==
  \A s \in Slot :
    /\ s \in t.using <=> Prepares(t, s)
    /\ s \in t.active <=> \E c \in Busy(t) : ActiveOn(t, c).slot = s

(* Both of the above in every state: createSubTask is never reached for a   *)
(* slot that still runs or waits for a core.                                *)
SlotExclusive == OneAtATime(tm) /\ FlagsExact(tm)

(* The strengthening that is inductive where no two cores of a node finish  *)
(* at once: a single slot is freed at a time, it stays unused until its     *)
(* queue is checked, and the pendings are for other operators.              *)
FreedUnused ==
  /\ \A c, d \in due : c = d
  /\ \A c \in due : tm.used[c] \notin tm.using
  /\ \A p \in pendings : /\ p.core \in due
                         /\ OperOf[p.slot] \in Dest[OperOf[tm.used[p.core]]]

ExclusiveInv == SlotExclusive /\ FreedUnused

(* No message is stranded: a slot with queued messages has a prepared       *)
(* subtask, whose end will serve the queue, or is one the node is about to  *)
(* check.  It holds with ties too; a slot whose flag says it is in use must *)
(* really be, or a message would be queued behind nothing.                  *)
NoStrandedTuple ==
  \A s \in Slot : tm.tuples[s] # <<>> =>
     Prepares(tm, s) \/ \E c \in due : tm.used[c] = s

UsingPrepared == \A s \in tm.using : Prepares(tm, s)

StrandInv == UsingPrepared /\ NoStrandedTuple

(* "setUsing(true) is already in buffer" (taskmanager.cpp, line 178): the   *)
(* slot of a subtask in a buffer has its flag using_ set.                   *)
BufferedUsing ==
  \A c \in Core : \A i \in 1 .. Len(tm.bufs[c]) : tm.bufs[c][i].slot \in tm.using

(* The counter the time advance depends on counts the prepared subtasks.   *)
PendingExact ==
  tm.pending = Cardinality(UNION {{<<c, i>> : i \in DOMAIN tm.bufs[c]} : c \in Core})

-----------------------------------------------------------------------------
(* Every slot serves its messages in order and loses none: the message of  *)
(* the prepared subtask, then those queued.                                *)
Served ==
  [s \in Slot |-> (IF s \in tm.using THEN <<CHOOSE m \in InService(s) : TRUE>> ELSE <<>>)
                    \o tm.tuples[s]]

Slots == INSTANCE FifoQueues WITH Key <- Slot, queue <- Served

ServesInOrder == Slots!Spec
=============================================================================
