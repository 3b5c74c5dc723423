---------------------------- MODULE TaskManager ----------------------------
(***************************************************************************)
(* The task manager of one node (data_structures/flink/taskmanager.cpp):   *)
(* the execution buffers of its cores, its task slots, and the methods the *)
(* node models call on them.                                               *)
(*                                                                         *)
(* A task manager is a value, so that a specification may hold one of them *)
(* (TaskExecution) or one per node (Simulation); each method is an         *)
(* operator from a task manager to the next one.  Abstracted: the order of *)
(* the pointers in active_subtasks_ (module ActiveSubtasks), the storage   *)
(* behind the two queue classes, and the metrics that createSubTask        *)
(* accumulates.  Time is an integer; a fresh lapse is an argument.         *)
(***************************************************************************)
EXTENDS Integers, Sequences, FiniteSets

CONSTANTS
  NCores,  \* number of cores of a node
  Slot,    \* the task slots of a node
  NoSlot,  \* stands for no slot
  Mssg     \* message identifiers

ASSUME NCoresAssumption == NCores \in Nat \ {0}
ASSUME NoSlotAssumption == NoSlot \notin Slot

Core == 0 .. NCores - 1

Subtask(mssg, slot, lapse) == [mssg |-> mssg, slot |-> slot, lapse |-> lapse]
SubtaskType == [mssg : Mssg, slot : Slot, lapse : Nat]

(***************************************************************************)
(* bufs[c]   : the subtasks prepared for core c; the first one is running  *)
(* tuples[s] : the messages queued on slot s                               *)
(* using     : the slots whose flag using_ is set                          *)
(* active    : the slots whose flag active_ is set                         *)
(* pending   : pending_execs_                                              *)
(* used[c]   : the slot the last terminateActiveExecutions freed on core   *)
(*             c (slots_used_, which lists them by core), or NoSlot        *)
(***************************************************************************)
NewTaskManager ==
  [ bufs    |-> [c \in Core |-> <<>>],
    tuples  |-> [s \in Slot |-> <<>>],
    using   |-> {},
    active  |-> {},
    pending |-> 0,
    used    |-> [c \in Core |-> NoSlot] ]

TaskManagerType ==
  [ bufs    : [Core -> Seq(SubtaskType)],
    tuples  : [Slot -> Seq(Mssg)],
    using   : SUBSET Slot,
    active  : SUBSET Slot,
    pending : Int,
    used    : [Core -> Slot \cup {NoSlot}] ]

-----------------------------------------------------------------------------
(* The core buffer with least congestion; the last one among equals. *)
LessLoaded(tm) ==
  CHOOSE c \in Core : \A d \in Core :
     \/ Len(tm.bufs[c]) < Len(tm.bufs[d])
     \/ Len(tm.bufs[c]) = Len(tm.bufs[d]) /\ d <= c

CreateSubTask(tm, mssg, slot, lapse) ==
  LET core == LessLoaded(tm)
  IN  [ bufs    |-> [tm.bufs EXCEPT ![core] = Append(@, Subtask(mssg, slot, lapse))],
        tuples  |-> tm.tuples,
        using   |-> tm.using \cup {slot},
        active  |-> IF tm.bufs[core] = <<>> THEN tm.active \cup {slot} ELSE tm.active,
        pending |-> tm.pending + 1,
        used    |-> tm.used ]

(* Two faulty variants: one asks whether the slot is running instead of in  *)
(* use, one counts queued messages as executions.                           *)
ScheduleExecIfActive(tm, mssg, slot, lapse) ==
  IF slot \in tm.active
  THEN [tm EXCEPT !.tuples = [tm.tuples EXCEPT ![slot] = Append(@, mssg)]]
  ELSE CreateSubTask(tm, mssg, slot, lapse)

ScheduleExecCounting(tm, mssg, slot, lapse) ==
  IF slot \in tm.using
  THEN [tm EXCEPT !.tuples = [tm.tuples EXCEPT ![slot] = Append(@, mssg)],
                  !.pending = @ + 1]
  ELSE CreateSubTask(tm, mssg, slot, lapse)

ScheduleExec(tm, mssg, slot, lapse) ==
  IF slot \in tm.using
  THEN [tm EXCEPT !.tuples = [tm.tuples EXCEPT ![slot] = Append(@, mssg)]]
  ELSE CreateSubTask(tm, mssg, slot, lapse)

(* Two faulty variants: one leaves the last message queued, one serves the  *)
(* queue from its end.                                                      *)
CheckQueuedExecutionOffByOne(tm, slot, lapse) ==
  IF Len(tm.tuples[slot]) > 1
  THEN CreateSubTask([tm EXCEPT !.tuples = [tm.tuples EXCEPT ![slot] = Tail(@)]],
                     Head(tm.tuples[slot]), slot, lapse)
  ELSE tm

CheckQueuedExecutionLast(tm, slot, lapse) ==
  LET n == Len(tm.tuples[slot])
  IN  IF n > 0
      THEN CreateSubTask([tm EXCEPT !.tuples = [tm.tuples EXCEPT ![slot] = SubSeq(@, 1, n - 1)]],
                         tm.tuples[slot][n], slot, lapse)
      ELSE tm

CheckQueuedExecution(tm, slot, lapse) ==
  IF tm.tuples[slot] # <<>>
  THEN CreateSubTask([tm EXCEPT !.tuples = [tm.tuples EXCEPT ![slot] = Tail(@)]],
                     Head(tm.tuples[slot]), slot, lapse)
  ELSE tm

-----------------------------------------------------------------------------
(* The cores with an active subtask, and those subtasks. *)
Busy(tm)          == {c \in Core : tm.bufs[c] # <<>>}
ActiveOn(tm, c)   == tm.bufs[c][1]

(* The buffer of a busy core once its active subtask has run e further. *)
RunActive(tm, c, e) == [tm.bufs[c] EXCEPT ![1] = [ActiveOn(tm, c) EXCEPT !.lapse = @ - e]]

(* The cores whose active subtask has the least lapse: they finish together. *)
Finishing(tm) ==
  {c \in Busy(tm) : \A d \in Busy(tm) : ActiveOn(tm, c).lapse <= ActiveOn(tm, d).lapse}

LessExecTime(tm) == LET c == CHOOSE c \in Finishing(tm) : TRUE IN ActiveOn(tm, c).lapse

(* The buffer of a core whose active subtask has ended. *)
RemainingRun(tm, c) ==   \* faulty variant: the time is subtracted from the next one, too
  IF Len(tm.bufs[c]) > 1
  THEN [Tail(tm.bufs[c]) EXCEPT ![1] = [tm.bufs[c][2] EXCEPT !.lapse = @ - ActiveOn(tm, c).lapse]]
  ELSE <<>>

Remaining(tm, c) == Tail(tm.bufs[c])

(***************************************************************************)
(* The loop visits the cores in order.  On a finishing core it clears the  *)
(* flags of the slot that ran and then activates the slot of the next      *)
(* prepared subtask, so for one slot the last core that touches its flag   *)
(* active_ decides.                                                        *)
(***************************************************************************)
TerminateActiveExecutions(tm) ==
  LET done    == Finishing(tm)
      m       == LessExecTime(tm)
      freed   == {ActiveOn(tm, c).slot : c \in done}
      clears(s) == {c \in done : ActiveOn(tm, c).slot = s}
      sets(s)   == {c \in done : Len(tm.bufs[c]) > 1 /\ tm.bufs[c][2].slot = s}
      isActive(s) == \/ s \in tm.active \ freed
                     \/ \E c \in sets(s) : \A d \in clears(s) : d <= c
  IN  [ bufs    |-> [c \in Core |-> IF c \in done THEN Remaining(tm, c)
                                   ELSE IF c \in Busy(tm) THEN RunActive(tm, c, m)
                                   ELSE tm.bufs[c]],
        tuples  |-> tm.tuples,
        using   |-> tm.using \ freed,
        active  |-> {s \in Slot : isActive(s)},
        pending |-> tm.pending - Cardinality(done),
        used    |-> [c \in Core |-> IF c \in done THEN ActiveOn(tm, c).slot ELSE NoSlot] ]

(***************************************************************************)
(* The loop of the nodes' external transition over the active subtasks:    *)
(* each runs e further unless it belongs to a message that just arrived.   *)
(***************************************************************************)
Elapse(tm, e, recent) ==
  [tm EXCEPT !.bufs = [c \in Core |->
     IF /\ c \in Busy(tm)
        /\ ActiveOn(tm, c).lapse >= e
        /\ ActiveOn(tm, c).mssg \notin recent
     THEN RunActive(tm, c, e)
     ELSE tm.bufs[c]]]
=============================================================================
