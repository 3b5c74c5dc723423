------------------------- MODULE TaskExecutionProofs -------------------------
(***************************************************************************)
(* Theorems about TaskExecution, for any number of cores, slots, messages  *)
(* and operators and any set of lapses.                                    *)
(***************************************************************************)
EXTENDS TaskExecution, TaskManagerProofs

(* The cores still to be checked have a least one. *)
LEMMA LeastDue ==
  ASSUME TypeOK, due # {}
  PROVE  \E c \in due : \A d \in due : c <= d
<1>1. due \in SUBSET Nat
  BY DEF TypeOK, Core
<1>2. QED
  BY <1>1, LeastNat

LEMMA ElapsedNat ==
  ASSUME TypeOK
  PROVE  Elapsed \subseteq Nat
<1>1. CASE Busy(tm) = {}
  BY <1>1 DEF Elapsed
<1>2. CASE Busy(tm) # {}
  BY <1>2, FinishingProperties DEF Elapsed, TypeOK
<1>3. QED
  BY <1>1, <1>2

(* The values of the variables keep their types under every interleaving   *)
(* of arrivals, ends and calls; no lapse is ever driven below zero.        *)
THEOREM TypeCorrect == Spec => []TypeOK
<1> USE ConstantsAssumption
<1>1. Init => TypeOK
  <2>1. \A T : <<>> \in Seq(T)
    OBVIOUS
  <2>2. NewTaskManager \in TaskManagerType
    BY <2>1 DEF NewTaskManager, TaskManagerType
  <2>3. QED
    BY <2>2 DEF Init, TypeOK
<1>2. TypeOK /\ [Next]_vars => TypeOK'
  <2> SUFFICES ASSUME TypeOK, [Next]_vars
               PROVE  TypeOK'
    OBVIOUS
  <2>1. ASSUME NEW m \in Mssg, NEW s \in Slot, NEW l \in Lapse, NEW e \in Elapsed,
               Receive(m, s, l, e)
        PROVE  TypeOK'
    <3>1. e \in Nat /\ l \in Nat
      BY ElapsedNat
    <3>2. ScheduleExec(tm, m, s, l) \in TaskManagerType
      BY <3>1, ScheduleExecType DEF TypeOK
    <3>3. tm' \in TaskManagerType
      BY <2>1, <3>1, <3>2, ElapseType DEF Receive
    <3>4. QED
      BY <2>1, <3>3 DEF Receive, Ready, TypeOK
  <2>2. ASSUME NEW m \in Mssg, NEW s \in Slot, NEW l \in Lapse,
               NEW n \in Mssg, NEW r \in Slot, NEW k \in Lapse, NEW e \in Elapsed,
               ReceiveBoth(m, s, l, n, r, k, e)
        PROVE  TypeOK'
    <3>1. e \in Nat /\ l \in Nat /\ k \in Nat
      BY ElapsedNat
    <3>2. ScheduleExec(tm, m, s, l) \in TaskManagerType
      BY <3>1, ScheduleExecType DEF TypeOK
    <3>3. ScheduleExec(ScheduleExec(tm, m, s, l), n, r, k) \in TaskManagerType
      BY <3>1, <3>2, ScheduleExecType
    <3>4. tm' \in TaskManagerType
      BY <2>2, <3>1, <3>3, ElapseType DEF ReceiveBoth
    <3>5. QED
      BY <2>2, <3>4 DEF ReceiveBoth, Ready, TypeOK
  <2>3. ASSUME NEW e \in Elapsed, Tick(e)
        PROVE  TypeOK'
    <3>1. tm' \in TaskManagerType
      BY <2>3, ElapsedNat, ElapseType DEF Tick, TypeOK
    <3>2. QED
      BY <2>3, <3>1 DEF Tick, Ready, TypeOK
  <2>4. ASSUME NEW sent \in [Finishing(tm) -> SUBSET Slot], Terminate(sent)
        PROVE  TypeOK'
    <3>1. /\ tm' \in TaskManagerType
          /\ \A c \in due' : tm'.used[c] \in Slot
      BY <2>4, TerminateType DEF Terminate, TypeOK
    <3>2. Finishing(tm) \subseteq Busy(tm) /\ Busy(tm) \subseteq Core
      BY DEF Finishing, Busy
    <3>3. \A c \in Finishing(tm) : ActiveOn(tm, c).mssg \in Mssg
      BY <3>2, FinishingProperties DEF TypeOK, SubtaskType
    <3>4. pendings' \subseteq [core : Core, mssg : Mssg, slot : Slot]
      BY <2>4, <3>2, <3>3 DEF Terminate, Pending
    <3>5. QED
      BY <2>4, <3>1, <3>2, <3>4 DEF Terminate, TypeOK
  <2>5. ASSUME NEW p \in pendings, NEW l \in Lapse, SchedulePending(p, l)
        PROVE  TypeOK'
    <3>1. p.mssg \in Mssg /\ p.slot \in Slot
      BY DEF TypeOK
    <3>2. tm' \in TaskManagerType
      BY <2>5, <3>1, ScheduleExecType DEF SchedulePending, TypeOK
    <3>3. tm'.used = tm.used
      BY <2>5 DEF SchedulePending, ScheduleExec, CreateSubTask, TypeOK, TaskManagerType
    <3>4. QED
      BY <2>5, <3>2, <3>3 DEF SchedulePending, TypeOK
  <2>6. ASSUME NEW l \in Lapse, CheckQueued(l)
        PROVE  TypeOK'
    <3>1. PICK c \in due : /\ tm' = CheckQueuedExecution(tm, tm.used[c], l)
                           /\ due' = due \ {c}
      BY <2>6, LeastDue DEF CheckQueued
    <3>2. tm.used[c] \in Slot
      BY DEF TypeOK
    <3>3. tm' \in TaskManagerType
      BY <3>1, <3>2, CheckQueuedExecutionType DEF TypeOK
    <3>4. tm'.used = tm.used
      BY <3>1 DEF CheckQueuedExecution, CreateSubTask, TypeOK, TaskManagerType
    <3>5. QED
      BY <2>6, <3>1, <3>3, <3>4 DEF CheckQueued, TypeOK
  <2>7. CASE UNCHANGED vars
    BY <2>7 DEF vars, TypeOK
  <2>8. QED
    BY <2>1, <2>2, <2>3, <2>4, <2>5, <2>6, <2>7 DEF Next
<1>3. QED
  BY <1>1, <1>2, PTL DEF Spec
-----------------------------------------------------------------------------
(* A subtask created for an unused slot keeps executions exclusive. *)
LEMMA CreateSubTaskExclusive ==
  ASSUME NEW t \in TaskManagerType, OneAtATime(t), FlagsExact(t),
         NEW m \in Mssg, NEW s \in Slot \ t.using, NEW l \in Nat
  PROVE  /\ OneAtATime(CreateSubTask(t, m, s, l))
         /\ FlagsExact(CreateSubTask(t, m, s, l))
<1> DEFINE core == LessLoaded(t)
           n    == Len(t.bufs[core])
           x    == Subtask(m, s, l)
           t2   == CreateSubTask(t, m, s, l)
<1>1. core \in Core
  BY LessLoadedExists
<1>2. x \in SubtaskType /\ x.slot = s
  BY DEF Subtask, SubtaskType
<1>3. \A c \in Core : t.bufs[c] \in Seq(SubtaskType) /\ Len(t.bufs[c]) \in Nat
  BY DEF TaskManagerType
<1>4. t2.bufs = [t.bufs EXCEPT ![core] = Append(t.bufs[core], x)]
  BY DEF CreateSubTask
<1>5. \A c \in Core \ {core} : t2.bufs[c] = t.bufs[c]
  BY <1>1, <1>4 DEF TaskManagerType
<1>6. t2.bufs[core] = Append(t.bufs[core], x)
  BY <1>1, <1>4 DEF TaskManagerType
<1>7. /\ Len(t2.bufs[core]) = n + 1
      /\ t2.bufs[core][n + 1].slot = s
      /\ \A i \in 1 .. n : t2.bufs[core][i] = t.bufs[core][i]
  BY <1>1, <1>2, <1>3, <1>6
<1>8. \A c \in Core : \A i \in 1 .. Len(t.bufs[c]) : t.bufs[c][i].slot # s
  BY DEF FlagsExact, Prepares
<1>9. t2.using = t.using \cup {s}
      /\ t2.active = IF t.bufs[core] = <<>> THEN t.active \cup {s} ELSE t.active
  BY DEF CreateSubTask
<1> HIDE DEF core, x, t2
<1>0. ASSUME NEW c \in Core, NEW i \in 1 .. Len(t2.bufs[c])
      PROVE  \/ c = core /\ i = n + 1 /\ t2.bufs[c][i].slot = s
             \/ i \in 1 .. Len(t.bufs[c]) /\ t2.bufs[c][i] = t.bufs[c][i]
  <2>1. CASE c # core
    BY <2>1, <1>5
  <2>2. CASE c = core
    <3>1. n \in Nat
      BY <1>1, <1>3
    <3>2. i = n + 1 \/ i \in 1 .. n
      BY <2>2, <3>1, <1>7
    <3>3. QED
      BY <2>2, <3>2, <1>7
  <2>3. QED
    BY <2>1, <2>2
<1>10. OneAtATime(t2)
  <2>1. SUFFICES ASSUME NEW c \in Core, NEW d \in Core,
                        NEW i \in 1 .. Len(t2.bufs[c]), NEW j \in 1 .. Len(t2.bufs[d]),
                        t2.bufs[c][i].slot = t2.bufs[d][j].slot
                 PROVE  c = d /\ i = j
    BY DEF OneAtATime
  <2>2. \/ c = core /\ i = n + 1 /\ t2.bufs[c][i].slot = s
        \/ i \in 1 .. Len(t.bufs[c]) /\ t2.bufs[c][i] = t.bufs[c][i]
    BY <1>0
  <2>3. \/ d = core /\ j = n + 1 /\ t2.bufs[d][j].slot = s
        \/ j \in 1 .. Len(t.bufs[d]) /\ t2.bufs[d][j] = t.bufs[d][j]
    BY <1>0
  <2>4. CASE c = core /\ i = n + 1 /\ t2.bufs[c][i].slot = s
    <3>1. ~ (j \in 1 .. Len(t.bufs[d]) /\ t2.bufs[d][j] = t.bufs[d][j])
      BY <2>1, <2>4, <1>8
    <3>2. QED
      BY <2>3, <2>4, <3>1
  <2>5. CASE i \in 1 .. Len(t.bufs[c]) /\ t2.bufs[c][i] = t.bufs[c][i]
    <3>1. t2.bufs[c][i].slot # s
      BY <2>5, <1>8
    <3>2. j \in 1 .. Len(t.bufs[d]) /\ t2.bufs[d][j] = t.bufs[d][j]
      BY <2>1, <2>3, <3>1
    <3>3. t.bufs[c][i].slot = t.bufs[d][j].slot
      BY <2>1, <2>5, <3>2
    <3>4. QED
      BY <2>5, <3>2, <3>3 DEF OneAtATime
  <2>6. QED
    BY <2>2, <2>4, <2>5
<1>11. ASSUME NEW r \in Slot
       PROVE  r \in t2.using <=> Prepares(t2, r)
  <2>1. CASE r = s
    BY <2>1, <1>1, <1>3, <1>7, <1>9 DEF Prepares
  <2>2. CASE r # s
    <3>1. r \in t2.using <=> r \in t.using
      BY <2>2, <1>9
    <3>2. ASSUME NEW c \in Core, NEW i \in 1 .. Len(t.bufs[c]), t.bufs[c][i].slot = r
          PROVE  i \in 1 .. Len(t2.bufs[c]) /\ t2.bufs[c][i].slot = r
      <4>1. CASE c # core
        BY <3>2, <4>1, <1>5
      <4>2. CASE c = core
        <5>1. n \in Nat
          BY <1>1, <1>3
        <5>2. i \in 1 .. n
          BY <4>2
        <5>3. QED
          BY <3>2, <4>2, <5>1, <5>2, <1>7
      <4>3. QED
        BY <4>1, <4>2
    <3>3. ASSUME NEW c \in Core, NEW i \in 1 .. Len(t2.bufs[c]), t2.bufs[c][i].slot = r
          PROVE  i \in 1 .. Len(t.bufs[c]) /\ t.bufs[c][i].slot = r
      BY <3>3, <2>2, <1>0
    <3>4. QED
      BY <3>1, <3>2, <3>3 DEF FlagsExact, Prepares
  <2>3. QED
    BY <2>1, <2>2
<1>12. ASSUME NEW r \in Slot
       PROVE  r \in t2.active <=> \E c \in Busy(t2) : ActiveOn(t2, c).slot = r
  <2>1. \A c \in Core : t.bufs[c] # <<>> => 1 \in 1 .. Len(t.bufs[c])
    BY <1>3
  <2>2. \A c \in Core \ {core} : /\ c \in Busy(t2) <=> c \in Busy(t)
                                 /\ ActiveOn(t2, c) = ActiveOn(t, c)
    BY <1>5 DEF Busy, ActiveOn
  <2>3. core \in Busy(t2)
    BY <1>1, <1>3, <1>7 DEF Busy
  <2>4. CASE t.bufs[core] = <<>>
    <3>1. n = 0 /\ ActiveOn(t2, core).slot = s /\ core \notin Busy(t)
      BY <2>4, <1>7 DEF ActiveOn, Busy
    <3>2. QED
      BY <2>2, <2>3, <2>4, <3>1, <1>1, <1>9 DEF FlagsExact, Prepares, Busy
  <2>5. CASE t.bufs[core] # <<>>
    <3>1. ActiveOn(t2, core) = ActiveOn(t, core) /\ core \in Busy(t)
      BY <2>1, <2>5, <1>1, <1>7 DEF ActiveOn, Busy
    <3>2. QED
      BY <2>2, <2>3, <2>5, <3>1, <1>1, <1>9 DEF FlagsExact, Prepares, Busy
  <2>6. QED
    BY <2>4, <2>5
<1>13. QED
  BY <1>10, <1>11, <1>12 DEF FlagsExact, Prepares, t2

LEMMA ScheduleExecExclusive ==
  ASSUME NEW t \in TaskManagerType, OneAtATime(t), FlagsExact(t),
         NEW m \in Mssg, NEW s \in Slot, NEW l \in Nat
  PROVE  /\ OneAtATime(ScheduleExec(t, m, s, l))
         /\ FlagsExact(ScheduleExec(t, m, s, l))
         /\ ScheduleExec(t, m, s, l).using \subseteq t.using \cup {s}
         /\ ScheduleExec(t, m, s, l).used = t.used
<1>1. CASE s \in t.using
  <2> DEFINE t2 == [t EXCEPT !.tuples = [t.tuples EXCEPT ![s] = Append(@, m)]]
  <2>1. ScheduleExec(t, m, s, l) = t2
    BY <1>1 DEF ScheduleExec
  <2>2. t2.bufs = t.bufs /\ t2.using = t.using /\ t2.active = t.active /\ t2.used = t.used
    BY DEF TaskManagerType
  <2> HIDE DEF t2
  <2>3. QED
    BY <2>1, <2>2 DEF OneAtATime, FlagsExact, Prepares, Busy, ActiveOn
<1>2. CASE s \notin t.using
  <2>1. ScheduleExec(t, m, s, l) = CreateSubTask(t, m, s, l)
    BY <1>2 DEF ScheduleExec
  <2>2. CreateSubTask(t, m, s, l).using = t.using \cup {s}
        /\ CreateSubTask(t, m, s, l).used = t.used
    BY DEF CreateSubTask
  <2>3. QED
    BY <1>2, <2>1, <2>2, CreateSubTaskExclusive
<1>3. QED
  BY <1>1, <1>2

LEMMA CheckQueuedExecutionExclusive ==
  ASSUME NEW t \in TaskManagerType, OneAtATime(t), FlagsExact(t),
         NEW s \in Slot \ t.using, NEW l \in Nat
  PROVE  /\ OneAtATime(CheckQueuedExecution(t, s, l))
         /\ FlagsExact(CheckQueuedExecution(t, s, l))
<1>1. CASE t.tuples[s] # <<>>
  <2> DEFINE t2 == [t EXCEPT !.tuples = [t.tuples EXCEPT ![s] = Tail(@)]]
  <2>1. [t.tuples EXCEPT ![s] = Tail(@)] \in [Slot -> Seq(Mssg)] /\ Head(t.tuples[s]) \in Mssg
    BY <1>1 DEF TaskManagerType
  <2>2. t2 \in TaskManagerType
    BY <2>1 DEF TaskManagerType
  <2>3. t2.bufs = t.bufs /\ t2.using = t.using /\ t2.active = t.active
    BY DEF TaskManagerType
  <2>4. CheckQueuedExecution(t, s, l) = CreateSubTask(t2, Head(t.tuples[s]), s, l)
    BY <1>1 DEF CheckQueuedExecution
  <2> HIDE DEF t2
  <2>5. OneAtATime(t2) /\ FlagsExact(t2) /\ s \in Slot \ t2.using
    BY <2>3 DEF OneAtATime, FlagsExact, Prepares, Busy, ActiveOn
  <2>6. QED
    BY <2>1, <2>2, <2>4, <2>5, CreateSubTaskExclusive
<1>2. CASE t.tuples[s] = <<>>
  BY <1>2 DEF CheckQueuedExecution
<1>3. QED
  BY <1>1, <1>2

(* Exclusive execution depends on the slots in the buffers and the flags only. *)
LEMMA SameSlots ==
  ASSUME NEW t \in TaskManagerType, NEW t2 \in TaskManagerType,
         t2.using = t.using, t2.active = t.active,
         \A c \in Core : /\ Len(t2.bufs[c]) = Len(t.bufs[c])
                         /\ \A i \in 1 .. Len(t.bufs[c]) :
                              t2.bufs[c][i].slot = t.bufs[c][i].slot,
         OneAtATime(t), FlagsExact(t)
  PROVE  OneAtATime(t2) /\ FlagsExact(t2)
<1>1. \A c \in Core : t.bufs[c] \in Seq(SubtaskType) /\ t2.bufs[c] \in Seq(SubtaskType)
  BY DEF TaskManagerType
<1>2. Busy(t2) = Busy(t)
  BY <1>1 DEF Busy
<1>3. \A c \in Busy(t) : ActiveOn(t2, c).slot = ActiveOn(t, c).slot
  BY <1>1 DEF Busy, ActiveOn
<1>4. OneAtATime(t2)
  BY SMTT(40) DEF OneAtATime
<1>5. FlagsExact(t2)
  BY SMTT(40), <1>2, <1>3 DEF FlagsExact, Prepares
<1>6. QED
  BY <1>4, <1>5

LEMMA ElapseExclusive ==
  ASSUME NEW t \in TaskManagerType, NEW e \in Nat, NEW recent,
         OneAtATime(t), FlagsExact(t)
  PROVE  OneAtATime(Elapse(t, e, recent)) /\ FlagsExact(Elapse(t, e, recent))
<1> DEFINE t2 == Elapse(t, e, recent)
<1>1. t2 \in TaskManagerType
  BY ElapseType
<1>2. t2.using = t.using /\ t2.active = t.active
  BY DEF Elapse, TaskManagerType
<1>3. QED
  BY <1>1, <1>2, ElapseSlots, SameSlots DEF t2

(* Where at most one core finishes, terminating frees one slot, which then *)
(* has no subtask left on any core.                                        *)
LEMMA TerminateExclusive ==
  ASSUME NEW t \in TaskManagerType, OneAtATime(t), FlagsExact(t),
         \A c, d \in Finishing(t) : c = d
  PROVE  /\ OneAtATime(TerminateActiveExecutions(t))
         /\ FlagsExact(TerminateActiveExecutions(t))
         /\ \A c \in Finishing(t) :
              TerminateActiveExecutions(t).used[c] \notin TerminateActiveExecutions(t).using
<1> DEFINE t2 == TerminateActiveExecutions(t)
<1>1. t2 \in TaskManagerType
  BY TerminateType
<1>2. \A c \in Core : t.bufs[c] \in Seq(SubtaskType) /\ t2.bufs[c] \in Seq(SubtaskType)
  BY <1>1 DEF TaskManagerType
<1>3. Finishing(t) \subseteq Busy(t) /\ Busy(t) \subseteq Core
  BY DEF Finishing, Busy
<1>4. CASE Busy(t) = {}
  <2>1. Finishing(t) = {}
    BY <1>3, <1>4
  <2>2. t2.bufs = t.bufs
    BY <1>4, <2>1 DEF TerminateActiveExecutions, Remaining, TaskManagerType
  <2>3. t2.using = t.using /\ t2.active = t.active
    BY <2>1 DEF TerminateActiveExecutions, Remaining, TaskManagerType
  <2> HIDE DEF t2
  <2>4. QED
    BY <1>1, <2>1, <2>2, <2>3, SameSlots DEF t2
<1>5. CASE Busy(t) # {}
  <2>1. PICK k \in Core : Finishing(t) = {k} /\ k \in Busy(t)
    BY <1>3, <1>5, FinishingProperties
  <2> DEFINE f == t.bufs[k][1].slot
             n == Len(t.bufs[k])
             old(c, i) == IF c = k THEN i + 1 ELSE i
  <2>2. n \in Nat /\ n >= 1 /\ 1 \in 1 .. n /\ f \in Slot
    <3>1. t.bufs[k] \in Seq(SubtaskType) /\ t.bufs[k] # <<>>
      BY <1>2, <2>1 DEF Busy
    <3>2. n \in Nat /\ n >= 1
      BY <3>1
    <3>3. t.bufs[k][1] \in SubtaskType
      BY <3>1, <3>2
    <3>4. QED
      BY <3>2, <3>3 DEF SubtaskType
  <2>3. t2.bufs[k] = Tail(t.bufs[k])
    BY <2>1 DEF TerminateActiveExecutions, Remaining
  <2>4. /\ Len(t2.bufs[k]) = n - 1
        /\ \A i \in 1 .. n - 1 : t2.bufs[k][i] = t.bufs[k][i + 1]
    BY <1>2, <2>1, <2>3 DEF Busy
  <2>5. ASSUME NEW c \in Core \ {k}
        PROVE  /\ Len(t2.bufs[c]) = Len(t.bufs[c])
               /\ \A i \in 1 .. Len(t.bufs[c]) : t2.bufs[c][i].slot = t.bufs[c][i].slot
    <3>1. CASE c \in Busy(t)
      <4>1. t2.bufs[c] = RunActive(t, c, LessExecTime(t))
        BY <2>1, <3>1 DEF TerminateActiveExecutions, Remaining
      <4>2. QED
        BY <3>1, <4>1, FinishingProperties, RunActiveType
    <3>2. CASE c \notin Busy(t)
      BY <2>1, <3>2 DEF TerminateActiveExecutions, Remaining
    <3>3. QED
      BY <3>1, <3>2
  <2>6. /\ t2.using = t.using \ {f}
        /\ t2.used[k] = f
    BY <2>1 DEF TerminateActiveExecutions, Remaining, ActiveOn
  <2>7. ASSUME NEW r \in Slot
        PROVE  r \in t2.active <=> \/ r \in t.active \ {f}
                                   \/ n > 1 /\ t.bufs[k][2].slot = r
    BY <2>1 DEF TerminateActiveExecutions, Remaining, ActiveOn, Core
  <2> HIDE DEF t2, f, n
  <2>8. ASSUME NEW c \in Core, NEW i \in 1 .. Len(t2.bufs[c])
        PROVE  /\ old(c, i) \in 1 .. Len(t.bufs[c])
               /\ t2.bufs[c][i].slot = t.bufs[c][old(c, i)].slot
    <3>1. CASE c = k
      BY <3>1, <2>2, <2>4 DEF n
    <3>2. CASE c # k
      BY <3>2, <2>5
    <3>3. QED
      BY <3>1, <3>2
  <2>9. OneAtATime(t2)
    <3>1. SUFFICES ASSUME NEW c \in Core, NEW d \in Core,
                          NEW i \in 1 .. Len(t2.bufs[c]), NEW j \in 1 .. Len(t2.bufs[d]),
                          t2.bufs[c][i].slot = t2.bufs[d][j].slot
                   PROVE  c = d /\ i = j
      BY DEF OneAtATime
    <3>2. /\ old(c, i) \in 1 .. Len(t.bufs[c]) /\ old(d, j) \in 1 .. Len(t.bufs[d])
          /\ t.bufs[c][old(c, i)].slot = t.bufs[d][old(d, j)].slot
      BY <2>8, <3>1
    <3> HIDE DEF old
    <3>3. c = d /\ old(c, i) = old(d, j)
      BY SMTT(40), <3>2 DEF OneAtATime
    <3>4. i \in Nat /\ j \in Nat
      BY <1>2 DEF t2
    <3>5. QED
      BY <3>3, <3>4 DEF old
  <2>10. ASSUME NEW c \in Core, NEW i \in 1 .. Len(t.bufs[c]), t.bufs[c][i].slot = f
         PROVE  c = k /\ i = 1
    BY <2>2, <2>10 DEF OneAtATime, f, n
  <2>11. ASSUME NEW r \in Slot
         PROVE  r \in t2.using <=> Prepares(t2, r)
    <3>1. ASSUME NEW c \in Core, NEW i \in 1 .. Len(t2.bufs[c]), t2.bufs[c][i].slot = r
          PROVE  r \in t2.using
      <4>1. old(c, i) \in 1 .. Len(t.bufs[c]) /\ t.bufs[c][old(c, i)].slot = r
        BY <2>8, <3>1
      <4>2. r \in t.using
        BY <4>1 DEF FlagsExact, Prepares
      <4>3. r # f
        BY <4>1, <2>10
      <4>4. QED
        BY <2>6, <4>2, <4>3
    <3>2. ASSUME r \in t2.using
          PROVE  \E c \in Core : \E i \in 1 .. Len(t2.bufs[c]) : t2.bufs[c][i].slot = r
      <4>1. r \in t.using /\ r # f
        BY <2>6, <3>2
      <4>2. PICK c \in Core : \E i \in 1 .. Len(t.bufs[c]) : t.bufs[c][i].slot = r
        BY <4>1 DEF FlagsExact, Prepares
      <4>3. PICK i \in 1 .. Len(t.bufs[c]) : t.bufs[c][i].slot = r
        BY <4>2
      <4>4. CASE c # k
        BY <4>3, <4>4, <2>5
      <4>5. CASE c = k
        <5>1. i \in 2 .. n
          BY <4>1, <4>3, <4>5, <2>2 DEF f, n
        <5>2. i - 1 \in 1 .. Len(t2.bufs[c]) /\ t2.bufs[c][i - 1] = t.bufs[c][i]
          BY <4>5, <5>1, <2>2, <2>4
        <5>3. QED
          BY <4>3, <5>2
      <4>6. QED
        BY <4>4, <4>5
    <3>3. QED
      BY <3>1, <3>2 DEF Prepares
  <2>12. ASSUME NEW c \in Core \ {k}
         PROVE  /\ c \in Busy(t2) <=> c \in Busy(t)
                /\ c \in Busy(t) => ActiveOn(t2, c).slot = ActiveOn(t, c).slot
    BY <1>2, <2>5 DEF Busy, ActiveOn, t2
  <2>13. /\ k \in Busy(t2) <=> n > 1
         /\ n > 1 => ActiveOn(t2, k).slot = t.bufs[k][2].slot
    <3>1. k \in Busy(t2) <=> Len(t2.bufs[k]) # 0
      BY <1>2 DEF Busy, t2
    <3>2. QED
      BY <3>1, <2>2, <2>4 DEF ActiveOn
  <2>14. ASSUME NEW r \in Slot
         PROVE  r \in t2.active <=> \E c \in Busy(t2) : ActiveOn(t2, c).slot = r
    <3>1. r \in t.active \ {f} <=> \E c \in Busy(t) \ {k} : ActiveOn(t, c).slot = r
      <4>1. ActiveOn(t, k).slot = f
        BY DEF ActiveOn, f
      <4>2. \A c \in Busy(t) \ {k} : ActiveOn(t, c).slot # f
        <5>1. \A c \in Busy(t) : c \in Core /\ 1 \in 1 .. Len(t.bufs[c])
          BY <1>2 DEF Busy
        <5>2. QED
          BY <5>1, <2>10 DEF ActiveOn
      <4>3. QED
        BY <4>1, <4>2 DEF FlagsExact, Prepares
    <3>2. (\E c \in Busy(t) \ {k} : ActiveOn(t, c).slot = r)
            <=> (\E c \in Busy(t2) \ {k} : ActiveOn(t2, c).slot = r)
      BY <2>12 DEF Busy
    <3>3. QED
      BY <2>7, <2>13, <3>1, <3>2
  <2>15. FlagsExact(t2)
    BY <2>11, <2>14 DEF FlagsExact, Prepares
  <2>16. QED
    BY <2>1, <2>6, <2>9, <2>15 DEF t2
<1>6. QED
  BY <1>4, <1>5

LEMMA OneFinishes ==
  ASSUME TypeOK, Cardinality(Finishing(tm)) <= 1
  PROVE  \A c, d \in Finishing(tm) : c = d
<1>1. IsFiniteSet(Finishing(tm))
  BY CoreFinite, FS_Subset DEF Finishing, Busy
<1>2. CASE Finishing(tm) = {}
  BY <1>2
<1>3. CASE Finishing(tm) # {}
  <2>1. Cardinality(Finishing(tm)) = 1
    BY <1>1, <1>3, FS_CardinalityType, FS_EmptySet
  <2>2. QED
    BY <1>1, <2>1, FS_Singleton
<1>4. QED
  BY <1>2, <1>3

(* The inductive invariant behind Exclusive. *)
LEMMA ExclusiveInvariant == ~Ties \/ NCores = 1 => (Spec => []ExclusiveInv)
<1> SUFFICES ASSUME ~Ties \/ NCores = 1
             PROVE  Spec => []ExclusiveInv
  OBVIOUS
<1> USE ConstantsAssumption
<1>1. Init => ExclusiveInv
  <2>1. SUFFICES ASSUME Init
                 PROVE  ExclusiveInv
    OBVIOUS
  <2>2. \A c \in Core : tm.bufs[c] = <<>>
    BY <2>1 DEF Init, NewTaskManager
  <2>3. tm.using = {} /\ tm.active = {} /\ due = {} /\ pendings = {}
    BY <2>1 DEF Init, NewTaskManager
  <2>4. \A c \in Core : 1 .. Len(tm.bufs[c]) = {}
    BY <2>2
  <2>5. Busy(tm) = {}
    BY <2>2 DEF Busy
  <2>6. QED
    BY <2>3, <2>4, <2>5 DEF ExclusiveInv, SlotExclusive, OneAtATime, FlagsExact, Prepares, FreedUnused
<1>2. TypeOK /\ ExclusiveInv /\ [Next]_vars => ExclusiveInv'
  <2> SUFFICES ASSUME TypeOK, ExclusiveInv, [Next]_vars
               PROVE  ExclusiveInv'
    OBVIOUS
  <2>0. /\ tm \in TaskManagerType /\ OneAtATime(tm) /\ FlagsExact(tm)
        /\ \A c, d \in due : c = d
        /\ \A c \in due : tm.used[c] \notin tm.using /\ tm.used[c] \in Slot
        /\ \A p \in pendings : /\ p.core \in due
                               /\ OperOf[p.slot] \in Dest[OperOf[tm.used[p.core]]]
    BY DEF TypeOK, ExclusiveInv, SlotExclusive, FreedUnused
  <2>a. ASSUME OneAtATime(tm'), FlagsExact(tm'), FreedUnused'
        PROVE  ExclusiveInv'
    BY <2>a DEF ExclusiveInv, SlotExclusive, OneAtATime, FlagsExact, Prepares, Busy, ActiveOn
  <2>1. ASSUME NEW m \in Mssg, NEW s \in Slot, NEW l \in Lapse, NEW e \in Elapsed,
               Receive(m, s, l, e)
        PROVE  ExclusiveInv'
    <3> DEFINE t == ScheduleExec(tm, m, s, l)
    <3>1. e \in Nat /\ l \in Nat
      BY ElapsedNat
    <3>2. t \in TaskManagerType /\ OneAtATime(t) /\ FlagsExact(t)
      BY <2>0, <3>1, ScheduleExecType, ScheduleExecExclusive
    <3>3. tm' = Elapse(t, e, {m})
      BY <2>1 DEF Receive
    <3> HIDE DEF t
    <3>4. OneAtATime(tm') /\ FlagsExact(tm')
      BY <3>1, <3>2, <3>3, ElapseExclusive
    <3>5. due' = {} /\ pendings' = {}
      BY <2>0, <2>1 DEF Receive, Ready
    <3>6. QED
      BY <2>a, <3>4, <3>5 DEF FreedUnused
  <2>2. ASSUME NEW m \in Mssg, NEW s \in Slot, NEW l \in Lapse,
               NEW n \in Mssg, NEW r \in Slot, NEW k \in Lapse, NEW e \in Elapsed,
               ReceiveBoth(m, s, l, n, r, k, e)
        PROVE  ExclusiveInv'
    <3> DEFINE t == ScheduleExec(tm, m, s, l)
               u == ScheduleExec(t, n, r, k)
    <3>1. e \in Nat /\ l \in Nat /\ k \in Nat
      BY ElapsedNat
    <3>2. t \in TaskManagerType /\ OneAtATime(t) /\ FlagsExact(t)
      BY <2>0, <3>1, ScheduleExecType, ScheduleExecExclusive
    <3>3. tm' = Elapse(u, e, {m, n})
      BY <2>2 DEF ReceiveBoth
    <3> HIDE DEF t
    <3>4. u \in TaskManagerType /\ OneAtATime(u) /\ FlagsExact(u)
      BY <3>1, <3>2, ScheduleExecType, ScheduleExecExclusive
    <3> HIDE DEF u
    <3>5. OneAtATime(tm') /\ FlagsExact(tm')
      BY <3>1, <3>3, <3>4, ElapseExclusive
    <3>6. due' = {} /\ pendings' = {}
      BY <2>0, <2>2 DEF ReceiveBoth, Ready
    <3>7. QED
      BY <2>a, <3>5, <3>6 DEF FreedUnused
  <2>3. ASSUME NEW e \in Elapsed, Tick(e)
        PROVE  ExclusiveInv'
    <3>1. OneAtATime(tm') /\ FlagsExact(tm')
      BY <2>0, <2>3, ElapsedNat, ElapseExclusive DEF Tick
    <3>2. due' = {} /\ pendings' = {}
      BY <2>0, <2>3 DEF Tick, Ready
    <3>3. QED
      BY <2>a, <3>1, <3>2 DEF FreedUnused
  <2>4. ASSUME NEW sent \in [Finishing(tm) -> SUBSET Slot], Terminate(sent)
        PROVE  ExclusiveInv'
    <3>1. \A c, d \in Finishing(tm) : c = d
      <4>1. CASE NCores = 1
        BY <4>1 DEF Finishing, Busy, Core
      <4>2. CASE Cardinality(Finishing(tm)) <= 1
        BY <4>2, OneFinishes
      <4>3. QED
        BY <2>4, <4>1, <4>2 DEF Terminate
    <3>2. tm' = TerminateActiveExecutions(tm) /\ due' = Finishing(tm)
      BY <2>4 DEF Terminate
    <3>3. /\ OneAtATime(tm') /\ FlagsExact(tm')
          /\ \A c \in due' : tm'.used[c] \notin tm'.using
      BY <2>0, <3>1, <3>2, TerminateExclusive
    <3>4. ASSUME NEW p \in pendings'
          PROVE  p.core \in due' /\ OperOf[p.slot] \in Dest[OperOf[tm'.used[p.core]]]
      <4>0. PICK c \in Finishing(tm) : \E s \in sent[c] : p = Pending(c, s)
        BY <2>4 DEF Terminate
      <4>1. PICK s \in sent[c] : p = Pending(c, s)
        BY <4>0
      <4>2. p.core = c /\ p.slot = s
        BY <4>1 DEF Pending
      <4>3. OperOf[s] \in Dest[OperOf[ActiveOn(tm, c).slot]]
        BY <2>4, <4>1 DEF Terminate, Chosen
      <4>4. tm'.used[c] = ActiveOn(tm, c).slot
        BY <3>2, <4>1 DEF TerminateActiveExecutions, Remaining, Finishing, Busy
      <4>5. QED
        BY <3>2, <4>1, <4>2, <4>3, <4>4
    <3>5. FreedUnused'
      BY <3>1, <3>2, <3>3, <3>4 DEF FreedUnused
    <3>6. QED
      BY <2>a, <3>3, <3>5
  <2>5. ASSUME NEW p \in pendings, NEW l \in Lapse, SchedulePending(p, l)
        PROVE  ExclusiveInv'
    <3>1. p.mssg \in Mssg /\ p.slot \in Slot
      BY DEF TypeOK
    <3>2. tm' = ScheduleExec(tm, p.mssg, p.slot, l) /\ due' = due /\ pendings' \subseteq pendings
      BY <2>5 DEF SchedulePending
    <3>3. /\ OneAtATime(tm') /\ FlagsExact(tm')
          /\ tm'.using \subseteq tm.using \cup {p.slot} /\ tm'.used = tm.used
      BY <2>0, <3>1, <3>2, ScheduleExecExclusive
    <3>4. p.core \in due /\ tm.used[p.core] # p.slot
      BY <2>0, <3>1
    <3>5. \A c \in due : tm.used[c] # p.slot
      BY <2>0, <3>4
    <3>6. FreedUnused'
      BY <2>0, <3>2, <3>3, <3>5 DEF FreedUnused
    <3>7. QED
      BY <2>a, <3>3, <3>6
  <2>6. ASSUME NEW l \in Lapse, CheckQueued(l)
        PROVE  ExclusiveInv'
    <3>1. PICK c \in due : /\ tm' = CheckQueuedExecution(tm, tm.used[c], l)
                           /\ due' = due \ {c}
      BY <2>6, LeastDue DEF CheckQueued
    <3>2. OneAtATime(tm') /\ FlagsExact(tm')
      BY <2>0, <3>1, CheckQueuedExecutionExclusive
    <3>3. due' = {} /\ pendings' = {}
      BY <2>0, <2>6, <3>1 DEF CheckQueued
    <3>4. QED
      BY <2>a, <3>2, <3>3 DEF FreedUnused
  <2>7. CASE UNCHANGED vars
    BY <2>7 DEF vars, ExclusiveInv, SlotExclusive, OneAtATime, FlagsExact, Prepares, FreedUnused, Busy, ActiveOn
  <2>8. QED
    BY <2>1, <2>2, <2>3, <2>4, <2>5, <2>6, <2>7 DEF Next
<1>3. QED
  BY <1>1, <1>2, TypeCorrect, PTL DEF Spec

(* Where the cores of a node never finish at the same instant, or the node *)
(* has one core, no message is ever started on a slot whose previous       *)
(* message is still on a core, whatever arrives in whatever order; and the *)
(* flags using_ and active_ are exact.  Without the hypothesis the         *)
(* property fails: run task_buffered.                                     *)
THEOREM Exclusive == ~Ties \/ NCores = 1 => (Spec => []SlotExclusive)
<1>1. ExclusiveInv => SlotExclusive
  BY DEF ExclusiveInv
<1>2. QED
  BY <1>1, ExclusiveInvariant, PTL
-----------------------------------------------------------------------------
(* A method that adds a subtask, or none, keeps every subtask in its place. *)
LEMMA CreateSubTaskPrepares ==
  ASSUME NEW t \in TaskManagerType, NEW m \in Mssg, NEW s \in Slot, NEW l \in Nat
  PROVE  /\ Prepares(CreateSubTask(t, m, s, l), s)
         /\ \A r \in Slot : Prepares(t, r) => Prepares(CreateSubTask(t, m, s, l), r)
         /\ CreateSubTask(t, m, s, l).tuples = t.tuples
         /\ CreateSubTask(t, m, s, l).using = t.using \cup {s}
         /\ CreateSubTask(t, m, s, l).used = t.used
<1> DEFINE core == LessLoaded(t)
           n    == Len(t.bufs[core])
           x    == Subtask(m, s, l)
           t2   == CreateSubTask(t, m, s, l)
<1>1. core \in Core
  BY LessLoadedExists
<1>2. x \in SubtaskType /\ x.slot = s
  BY DEF Subtask, SubtaskType
<1>3. \A c \in Core : t.bufs[c] \in Seq(SubtaskType) /\ Len(t.bufs[c]) \in Nat
  BY DEF TaskManagerType
<1>4. t2.bufs = [t.bufs EXCEPT ![core] = Append(t.bufs[core], x)]
  BY DEF CreateSubTask
<1>5. \A c \in Core \ {core} : t2.bufs[c] = t.bufs[c]
  BY <1>1, <1>4 DEF TaskManagerType
<1>6. t2.bufs[core] = Append(t.bufs[core], x)
  BY <1>1, <1>4 DEF TaskManagerType
<1>7. t2.tuples = t.tuples /\ t2.using = t.using \cup {s} /\ t2.used = t.used
  BY DEF CreateSubTask
<1> HIDE DEF core, x, t2
<1>8. /\ Len(t2.bufs[core]) = n + 1
      /\ t2.bufs[core][n + 1] = x
      /\ \A i \in 1 .. n : t2.bufs[core][i] = t.bufs[core][i]
  BY <1>1, <1>2, <1>3, <1>6
<1>9. Prepares(t2, s)
  BY SMTT(40), <1>1, <1>2, <1>3, <1>8 DEF Prepares
<1>10. ASSUME NEW c \in Core, NEW i \in 1 .. Len(t.bufs[c])
       PROVE  i \in 1 .. Len(t2.bufs[c]) /\ t2.bufs[c][i] = t.bufs[c][i]
  <2>1. CASE c # core
    BY <2>1, <1>5
  <2>2. CASE c = core
    <3>1. n \in Nat /\ i \in 1 .. n
      BY <2>2, <1>1, <1>3
    <3>2. QED
      BY <2>2, <3>1, <1>8
  <2>3. QED
    BY <2>1, <2>2
<1>11. \A r \in Slot : Prepares(t, r) => Prepares(t2, r)
  BY <1>10 DEF Prepares
<1>12. QED
  BY <1>7, <1>9, <1>11 DEF t2

LEMMA ElapsePrepares ==
  ASSUME NEW t \in TaskManagerType, NEW e \in Nat, NEW recent
  PROVE  /\ \A r \in Slot : Prepares(t, r) => Prepares(Elapse(t, e, recent), r)
         /\ Elapse(t, e, recent).tuples = t.tuples
         /\ Elapse(t, e, recent).using = t.using
<1> DEFINE t2 == Elapse(t, e, recent)
<1>1. t2.tuples = t.tuples /\ t2.using = t.using
  BY DEF Elapse, TaskManagerType
<1>2. \A c \in Core : /\ Len(t2.bufs[c]) = Len(t.bufs[c])
                       /\ \A i \in 1 .. Len(t.bufs[c]) : t2.bufs[c][i].slot = t.bufs[c][i].slot
  BY ElapseSlots
<1> HIDE DEF t2
<1>3. \A r \in Slot : Prepares(t, r) => Prepares(t2, r)
  BY <1>2 DEF Prepares
<1>4. QED
  BY <1>1, <1>3 DEF t2

(* A subtask outlives terminateActiveExecutions unless its slot is freed. *)
LEMMA TerminatePrepares ==
  ASSUME NEW t \in TaskManagerType, NEW r \in Slot, Prepares(t, r)
  PROVE  \/ Prepares(TerminateActiveExecutions(t), r)
         \/ \E c \in Finishing(t) : ActiveOn(t, c).slot = r
<1> DEFINE t2 == TerminateActiveExecutions(t)
<1>1. PICK c \in Core : \E i \in 1 .. Len(t.bufs[c]) : t.bufs[c][i].slot = r
  BY DEF Prepares
<1>2. PICK i \in 1 .. Len(t.bufs[c]) : t.bufs[c][i].slot = r
  BY <1>1
<1>3. t.bufs[c] \in Seq(SubtaskType) /\ c \in Busy(t)
  BY <1>2 DEF TaskManagerType, Busy
<1>4. CASE c \notin Finishing(t)
  <2>1. t2.bufs[c] = RunActive(t, c, LessExecTime(t))
    BY <1>3, <1>4 DEF TerminateActiveExecutions, Remaining
  <2>2. Len(t2.bufs[c]) = Len(t.bufs[c]) /\ t2.bufs[c][i].slot = r
    BY <1>2, <1>3, <2>1, FinishingProperties, RunActiveType
  <2> HIDE DEF t2
  <2>3. Prepares(t2, r)
    BY <1>2, <2>2 DEF Prepares
  <2>4. QED
    BY <2>3 DEF t2
<1>5. CASE c \in Finishing(t)
  <2>1. CASE i = 1
    BY <1>2, <1>5, <2>1 DEF ActiveOn
  <2>2. CASE i # 1
    <3>1. t2.bufs[c] = Tail(t.bufs[c])
      BY <1>5 DEF TerminateActiveExecutions, Remaining
    <3> HIDE DEF t2
    <3>2. i - 1 \in 1 .. Len(t2.bufs[c]) /\ t2.bufs[c][i - 1] = t.bufs[c][i]
      BY <1>2, <1>3, <2>2, <3>1 DEF Busy
    <3>3. Prepares(t2, r)
      BY <1>2, <3>2 DEF Prepares
    <3>4. QED
      BY <3>3 DEF t2
  <2>3. QED
    BY <2>1, <2>2
<1>6. QED
  BY <1>4, <1>5

LEMMA ScheduleExecPrepares ==
  ASSUME NEW t \in TaskManagerType, NEW m \in Mssg, NEW s \in Slot, NEW l \in Nat,
         \A r \in t.using : Prepares(t, r)
  PROVE  LET t2 == ScheduleExec(t, m, s, l)
         IN  /\ \A r \in Slot : Prepares(t, r) => Prepares(t2, r)
             /\ \A r \in t2.using : Prepares(t2, r)
             /\ \A r \in Slot : t2.tuples[r] = t.tuples[r] \/ Prepares(t2, r)
             /\ t2.used = t.used
<1>1. CASE s \in t.using
  <2> DEFINE t2 == [t EXCEPT !.tuples = [t.tuples EXCEPT ![s] = Append(@, m)]]
  <2>1. ScheduleExec(t, m, s, l) = t2
    BY <1>1 DEF ScheduleExec
  <2>2. t2.bufs = t.bufs /\ t2.using = t.using /\ t2.used = t.used
    BY DEF TaskManagerType
  <2>3. \A r \in Slot \ {s} : t2.tuples[r] = t.tuples[r]
    BY DEF TaskManagerType
  <2> HIDE DEF t2
  <2>4. \A r \in Slot : Prepares(t2, r) <=> Prepares(t, r)
    BY <2>2 DEF Prepares
  <2>5. t.using \subseteq Slot
    BY DEF TaskManagerType
  <2>6. QED
    BY <1>1, <2>1, <2>2, <2>3, <2>4, <2>5
<1>2. CASE s \notin t.using
  <2>1. ScheduleExec(t, m, s, l) = CreateSubTask(t, m, s, l)
    BY <1>2 DEF ScheduleExec
  <2>2. t.using \subseteq Slot
    BY DEF TaskManagerType
  <2>3. QED
    BY <2>1, <2>2, CreateSubTaskPrepares
<1>3. QED
  BY <1>1, <1>2

LEMMA CheckQueuedExecutionPrepares ==
  ASSUME NEW t \in TaskManagerType, NEW s \in Slot, NEW l \in Nat,
         \A r \in t.using : Prepares(t, r)
  PROVE  LET t2 == CheckQueuedExecution(t, s, l)
         IN  /\ \A r \in Slot : Prepares(t, r) => Prepares(t2, r)
             /\ \A r \in t2.using : Prepares(t2, r)
             /\ \A r \in Slot \ {s} : t2.tuples[r] = t.tuples[r]
             /\ t2.tuples[s] = <<>> \/ Prepares(t2, s)
             /\ t2.used = t.used
<1>1. CASE t.tuples[s] # <<>>
  <2> DEFINE u == [t EXCEPT !.tuples = [t.tuples EXCEPT ![s] = Tail(@)]]
  <2>1. [t.tuples EXCEPT ![s] = Tail(@)] \in [Slot -> Seq(Mssg)] /\ Head(t.tuples[s]) \in Mssg
    BY <1>1 DEF TaskManagerType
  <2>2. u \in TaskManagerType
    BY <2>1 DEF TaskManagerType
  <2>3. u.bufs = t.bufs /\ u.using = t.using /\ u.used = t.used
    BY DEF TaskManagerType
  <2>4. \A r \in Slot \ {s} : u.tuples[r] = t.tuples[r]
    BY DEF TaskManagerType
  <2>5. CheckQueuedExecution(t, s, l) = CreateSubTask(u, Head(t.tuples[s]), s, l)
    BY <1>1 DEF CheckQueuedExecution
  <2> HIDE DEF u
  <2>6. \A r \in Slot : Prepares(u, r) <=> Prepares(t, r)
    BY <2>3 DEF Prepares
  <2>7. t.using \subseteq Slot
    BY DEF TaskManagerType
  <2>8. QED
    BY <2>1, <2>2, <2>3, <2>4, <2>5, <2>6, <2>7, CreateSubTaskPrepares
<1>2. CASE t.tuples[s] = <<>>
  BY <1>2 DEF CheckQueuedExecution
<1>3. QED
  BY <1>1, <1>2

(* No message is ever stranded on a slot, ties or not: while messages are  *)
(* queued on a slot, the end of a subtask on a core or the internal        *)
(* transition under way will take the next of them.                        *)
THEOREM NoStranded == Spec => []NoStrandedTuple
<1> USE ConstantsAssumption
<1>1. Init => StrandInv
  BY DEF Init, NewTaskManager, StrandInv, UsingPrepared, NoStrandedTuple
<1>2. TypeOK /\ StrandInv /\ [Next]_vars => StrandInv'
  <2> SUFFICES ASSUME TypeOK, StrandInv, [Next]_vars
               PROVE  StrandInv'
    OBVIOUS
  <2>0. /\ tm \in TaskManagerType /\ tm.using \subseteq Slot
        /\ \A r \in tm.using : Prepares(tm, r)
        /\ \A r \in Slot : tm.tuples[r] # <<>> =>
             Prepares(tm, r) \/ \E c \in due : tm.used[c] = r
    BY DEF TypeOK, TaskManagerType, StrandInv, UsingPrepared, NoStrandedTuple
  <2>a. ASSUME \A r \in tm'.using : Prepares(tm', r),
               \A r \in Slot : tm'.tuples[r] # <<>> =>
                  Prepares(tm', r) \/ \E c \in due' : tm'.used[c] = r
        PROVE  StrandInv'
    BY <2>a DEF StrandInv, UsingPrepared, NoStrandedTuple, Prepares
  <2>1. ASSUME NEW m \in Mssg, NEW s \in Slot, NEW l \in Lapse, NEW e \in Elapsed,
               Receive(m, s, l, e)
        PROVE  StrandInv'
    <3> DEFINE t == ScheduleExec(tm, m, s, l)
    <3>1. e \in Nat /\ l \in Nat /\ due = {}
      BY <2>1, ElapsedNat DEF Receive, Ready
    <3>2. t \in TaskManagerType /\ t.using \subseteq Slot
      BY <2>0, <3>1, ScheduleExecType DEF TaskManagerType
    <3>3. /\ \A r \in t.using : Prepares(t, r)
          /\ \A r \in Slot : t.tuples[r] # <<>> => Prepares(t, r)
      BY <2>0, <3>1, ScheduleExecPrepares
    <3>4. tm' = Elapse(t, e, {m})
      BY <2>1 DEF Receive
    <3> HIDE DEF t
    <3>5. QED
      BY <2>a, <3>1, <3>2, <3>3, <3>4, ElapsePrepares
  <2>2. ASSUME NEW m \in Mssg, NEW s \in Slot, NEW l \in Lapse,
               NEW n \in Mssg, NEW r \in Slot, NEW k \in Lapse, NEW e \in Elapsed,
               ReceiveBoth(m, s, l, n, r, k, e)
        PROVE  StrandInv'
    <3> DEFINE t == ScheduleExec(tm, m, s, l)
               u == ScheduleExec(t, n, r, k)
    <3>1. e \in Nat /\ l \in Nat /\ k \in Nat /\ due = {}
      BY <2>2, ElapsedNat DEF ReceiveBoth, Ready
    <3>2. t \in TaskManagerType
      BY <2>0, <3>1, ScheduleExecType
    <3>3. /\ \A q \in t.using : Prepares(t, q)
          /\ \A q \in Slot : t.tuples[q] # <<>> => Prepares(t, q)
      BY <2>0, <3>1, ScheduleExecPrepares
    <3>4. tm' = Elapse(u, e, {m, n})
      BY <2>2 DEF ReceiveBoth
    <3> HIDE DEF t
    <3>5. u \in TaskManagerType /\ u.using \subseteq Slot
      BY <3>1, <3>2, ScheduleExecType DEF TaskManagerType
    <3>6. /\ \A q \in u.using : Prepares(u, q)
          /\ \A q \in Slot : u.tuples[q] # <<>> => Prepares(u, q)
      BY <3>1, <3>2, <3>3, ScheduleExecPrepares
    <3> HIDE DEF u
    <3>7. QED
      BY <2>a, <3>1, <3>4, <3>5, <3>6, ElapsePrepares
  <2>3. ASSUME NEW e \in Elapsed, Tick(e)
        PROVE  StrandInv'
    <3>1. tm' = Elapse(tm, e, {}) /\ due = {} /\ e \in Nat
      BY <2>3, ElapsedNat DEF Tick, Ready
    <3>2. QED
      BY <2>0, <2>a, <3>1, ElapsePrepares
  <2>4. ASSUME NEW sent \in [Finishing(tm) -> SUBSET Slot], Terminate(sent)
        PROVE  StrandInv'
    <3>1. tm' = TerminateActiveExecutions(tm) /\ due = {} /\ due' = Finishing(tm)
      BY <2>4 DEF Terminate, Ready
    <3>2. tm'.tuples = tm.tuples
      BY <3>1 DEF TerminateActiveExecutions, Remaining
    <3>3. tm'.using = tm.using \ {ActiveOn(tm, c).slot : c \in Finishing(tm)}
      BY <3>1 DEF TerminateActiveExecutions, Remaining
    <3>4. \A c \in Finishing(tm) : tm'.used[c] = ActiveOn(tm, c).slot
      BY <3>1 DEF TerminateActiveExecutions, Remaining, Finishing, Busy
    <3>5. \A r \in Slot : Prepares(tm, r) =>
             Prepares(tm', r) \/ \E c \in Finishing(tm) : ActiveOn(tm, c).slot = r
      BY <2>0, <3>1, TerminatePrepares
    <3>6. \A r \in tm'.using : Prepares(tm', r)
      BY <2>0, <3>3, <3>5
    <3>7. ASSUME NEW r \in Slot, tm'.tuples[r] # <<>>
          PROVE  Prepares(tm', r) \/ \E c \in due' : tm'.used[c] = r
      BY <2>0, <3>1, <3>2, <3>4, <3>5, <3>7
    <3>8. QED
      BY <2>a, <3>6, <3>7
  <2>5. ASSUME NEW p \in pendings, NEW l \in Lapse, SchedulePending(p, l)
        PROVE  StrandInv'
    <3>1. p.mssg \in Mssg /\ p.slot \in Slot /\ l \in Nat
      BY DEF TypeOK
    <3>2. tm' = ScheduleExec(tm, p.mssg, p.slot, l) /\ due' = due
      BY <2>5 DEF SchedulePending
    <3>3. /\ \A r \in Slot : Prepares(tm, r) => Prepares(tm', r)
          /\ \A r \in tm'.using : Prepares(tm', r)
          /\ \A r \in Slot : tm'.tuples[r] = tm.tuples[r] \/ Prepares(tm', r)
          /\ tm'.used = tm.used
      BY <2>0, <3>1, <3>2, ScheduleExecPrepares
    <3>4. QED
      BY <2>0, <2>a, <3>2, <3>3
  <2>6. ASSUME NEW l \in Lapse, CheckQueued(l)
        PROVE  StrandInv'
    <3>1. PICK c \in due : /\ tm' = CheckQueuedExecution(tm, tm.used[c], l)
                           /\ due' = due \ {c}
      BY <2>6, LeastDue DEF CheckQueued
    <3>2. tm.used[c] \in Slot /\ l \in Nat
      BY DEF TypeOK
    <3>3. /\ \A r \in Slot : Prepares(tm, r) => Prepares(tm', r)
          /\ \A r \in tm'.using : Prepares(tm', r)
          /\ \A r \in Slot \ {tm.used[c]} : tm'.tuples[r] = tm.tuples[r]
          /\ tm'.tuples[tm.used[c]] = <<>> \/ Prepares(tm', tm.used[c])
          /\ tm'.used = tm.used
      BY <2>0, <3>1, <3>2, CheckQueuedExecutionPrepares
    <3>4. QED
      BY <2>0, <2>a, <3>1, <3>3
  <2>7. CASE UNCHANGED vars
    BY <2>7 DEF vars, StrandInv, UsingPrepared, NoStrandedTuple, Prepares
  <2>8. QED
    BY <2>1, <2>2, <2>3, <2>4, <2>5, <2>6, <2>7 DEF Next
<1>3. StrandInv => NoStrandedTuple
  BY DEF StrandInv
<1>4. QED
  BY <1>1, <1>2, <1>3, TypeCorrect, PTL DEF Spec
-----------------------------------------------------------------------------
(* The counter that the node's time advance and load balancing depend on is   *)
(* the number of prepared subtasks in every state, ties or not: no end is     *)
(* counted twice and none is missed.                                          *)
THEOREM PendingCounts == Spec => []PendingExact
<1> USE ConstantsAssumption
<1>1. Init => Counted(tm)
  <2>1. ASSUME Init PROVE Counted(tm)
    <3>1. \A c \in Core : DOMAIN tm.bufs[c] = {}
      BY <2>1 DEF Init, NewTaskManager
    <3>2. Places(tm) = {} /\ tm.pending = 0
      BY <2>1, <3>1 DEF Places, Init, NewTaskManager
    <3>3. QED
      BY <3>2, FS_EmptySet DEF Counted
  <2>2. QED
    BY <2>1
<1>2. TypeOK /\ Counted(tm) /\ [Next]_vars => Counted(tm)'
  <2> SUFFICES ASSUME TypeOK, Counted(tm), [Next]_vars
               PROVE  Counted(tm')
    BY DEF Counted, Places
  <2>0. tm \in TaskManagerType
    BY DEF TypeOK
  <2>1. ASSUME NEW m \in Mssg, NEW s \in Slot, NEW l \in Lapse, NEW e \in Elapsed,
               Receive(m, s, l, e)
        PROVE  Counted(tm')
    <3>1. tm' = Elapse(ScheduleExec(tm, m, s, l), e, {m}) /\ e \in Nat /\ l \in Nat
      BY <2>1, ElapsedNat DEF Receive
    <3>2. ScheduleExec(tm, m, s, l) \in TaskManagerType /\ Counted(ScheduleExec(tm, m, s, l))
      BY <2>0, <3>1, ScheduleExecType, ScheduleExecCounted
    <3>3. QED
      BY <3>1, <3>2, ElapseCounted
  <2>2. ASSUME NEW m \in Mssg, NEW s \in Slot, NEW l \in Lapse,
               NEW n \in Mssg, NEW r \in Slot, NEW k \in Lapse, NEW e \in Elapsed,
               ReceiveBoth(m, s, l, n, r, k, e)
        PROVE  Counted(tm')
    <3> DEFINE t == ScheduleExec(tm, m, s, l)
               u == ScheduleExec(t, n, r, k)
    <3>1. tm' = Elapse(u, e, {m, n}) /\ e \in Nat /\ l \in Nat /\ k \in Nat
      BY <2>2, ElapsedNat DEF ReceiveBoth
    <3>2. t \in TaskManagerType /\ Counted(t)
      BY <2>0, <3>1, ScheduleExecType, ScheduleExecCounted
    <3> HIDE DEF t
    <3>3. u \in TaskManagerType /\ Counted(u)
      BY <3>1, <3>2, ScheduleExecType, ScheduleExecCounted
    <3> HIDE DEF u
    <3>4. QED
      BY <3>1, <3>3, ElapseCounted
  <2>3. ASSUME NEW e \in Elapsed, Tick(e)
        PROVE  Counted(tm')
    BY <2>0, <2>3, ElapsedNat, ElapseCounted DEF Tick
  <2>4. ASSUME NEW sent \in [Finishing(tm) -> SUBSET Slot], Terminate(sent)
        PROVE  Counted(tm')
    BY <2>0, <2>4, TerminateCounted DEF Terminate
  <2>5. ASSUME NEW p \in pendings, NEW l \in Lapse, SchedulePending(p, l)
        PROVE  Counted(tm')
    <3>1. p.mssg \in Mssg /\ p.slot \in Slot /\ l \in Nat
      BY DEF TypeOK
    <3>2. QED
      BY <2>0, <2>5, <3>1, ScheduleExecCounted DEF SchedulePending
  <2>6. ASSUME NEW l \in Lapse, CheckQueued(l)
        PROVE  Counted(tm')
    <3>1. PICK c \in due : tm' = CheckQueuedExecution(tm, tm.used[c], l)
      BY <2>6, LeastDue DEF CheckQueued
    <3>2. tm.used[c] \in Slot /\ l \in Nat
      BY DEF TypeOK
    <3>3. QED
      BY <2>0, <3>1, <3>2, CheckQueuedExecutionCounted
  <2>7. CASE UNCHANGED vars
    BY <2>7 DEF vars
  <2>8. QED
    BY <2>1, <2>2, <2>3, <2>4, <2>5, <2>6, <2>7 DEF Next
<1>3. Counted(tm) => PendingExact
  BY DEF Counted, Places, PendingExact
<1>4. QED
  BY <1>1, <1>2, <1>3, TypeCorrect, PTL DEF Spec
-----------------------------------------------------------------------------
(* Where the cores of a node never finish at the same instant, its slots are *)
(* FIFO queues.                                                               *)
(* A subtask of slot s for message m is prepared. *)
Runs(t, s, m) ==
  \E c \in Core : \E i \in 1 .. Len(t.bufs[c]) : t.bufs[c][i].slot = s /\ t.bufs[c][i].mssg = m

(* The message chosen where there is one only. *)
OneOf(S) == CHOOSE m \in S : TRUE

(* The messages of slot s: the one of its subtask, then those queued. *)
Line(t, s) ==
  (IF s \in t.using THEN <<OneOf({n \in Mssg : Runs(t, s, n)})>> ELSE <<>>)
    \o t.tuples[s]

(* What message m for slot s adds to the line of slot r. *)
Arrival(m, s, r) == IF r = s THEN <<m>> ELSE <<>>

(* What the proofs need of a task manager between two calls. *)
Sound(t) == t \in TaskManagerType /\ OneAtATime(t) /\ FlagsExact(t)

LEMMA LineOfUsed ==
  ASSUME NEW t, Sound(t), NEW s \in t.using
  PROVE  \E m \in Mssg : Runs(t, s, m) /\ Line(t, s) = <<m>> \o t.tuples[s]
<1>1. t.using \subseteq Slot /\ \A c \in Core : t.bufs[c] \in Seq(SubtaskType)
  BY DEF Sound, TaskManagerType
<1>2. PICK c \in Core : \E i \in 1 .. Len(t.bufs[c]) : t.bufs[c][i].slot = s
  BY <1>1 DEF Sound, FlagsExact, Prepares
<1>3. PICK i \in 1 .. Len(t.bufs[c]) : t.bufs[c][i].slot = s
  BY <1>2
<1>4. t.bufs[c][i] \in SubtaskType
  BY <1>1
<1>5. t.bufs[c][i].mssg \in Mssg /\ Runs(t, s, t.bufs[c][i].mssg)
  BY <1>3, <1>4 DEF SubtaskType, Runs
<1>6. OneOf({n \in Mssg : Runs(t, s, n)}) \in {n \in Mssg : Runs(t, s, n)}
  BY <1>5 DEF OneOf
<1>7. QED
  BY <1>6 DEF Line

(* The message of a slot is the only one that runs for it. *)
LEMMA OneRuns ==
  ASSUME NEW t, Sound(t), NEW s, NEW m, NEW n, Runs(t, s, m), Runs(t, s, n)
  PROVE  m = n
<1>1. PICK c \in Core : \E i \in 1 .. Len(t.bufs[c]) : t.bufs[c][i].slot = s /\ t.bufs[c][i].mssg = m
  BY DEF Runs
<1>2. PICK i \in 1 .. Len(t.bufs[c]) : t.bufs[c][i].slot = s /\ t.bufs[c][i].mssg = m
  BY <1>1
<1>3. PICK d \in Core : \E j \in 1 .. Len(t.bufs[d]) : t.bufs[d][j].slot = s /\ t.bufs[d][j].mssg = n
  BY DEF Runs
<1>4. PICK j \in 1 .. Len(t.bufs[d]) : t.bufs[d][j].slot = s /\ t.bufs[d][j].mssg = n
  BY <1>3
<1>5. c = d /\ i = j
  BY <1>2, <1>4 DEF Sound, OneAtATime
<1>6. QED
  BY <1>2, <1>4, <1>5

LEMMA LineType ==
  ASSUME NEW t, Sound(t), NEW s \in Slot
  PROVE  Line(t, s) \in Seq(Mssg)
<1>1. t.tuples[s] \in Seq(Mssg) /\ <<>> \in Seq(Mssg)
  BY EmptySeq DEF Sound, TaskManagerType
<1>2. CASE s \in t.using
  <2>1. PICK m \in Mssg : Line(t, s) = <<m>> \o t.tuples[s]
    BY <1>2, LineOfUsed
  <2>2. QED
    BY <1>1, <2>1
<1>3. CASE s \notin t.using
  BY <1>1, <1>3, ConcatProperties DEF Line
<1>4. QED
  BY <1>2, <1>3

(* A method changes nothing of a slot whose subtask, flag and queue it leaves. *)
LEMMA SameLine ==
  ASSUME NEW t, NEW t2, NEW s, \A m : Runs(t2, s, m) <=> Runs(t, s, m),
         s \in t2.using <=> s \in t.using, t2.tuples[s] = t.tuples[s]
  PROVE  Line(t2, s) = Line(t, s)
<1>1. {n \in Mssg : Runs(t2, s, n)} = {n \in Mssg : Runs(t, s, n)}
  OBVIOUS
<1>2. QED
  BY <1>1 DEF Line
-----------------------------------------------------------------------------
(* A subtask that is created runs, and so do the others. *)
LEMMA CreateSubTaskRuns ==
  ASSUME NEW t \in TaskManagerType, NEW m \in Mssg, NEW s \in Slot, NEW l \in Nat, NEW r, NEW n
  PROVE  Runs(CreateSubTask(t, m, s, l), r, n) <=> Runs(t, r, n) \/ (r = s /\ n = m)
<1> DEFINE core == LessLoaded(t)
           k    == Len(t.bufs[core])
           x    == Subtask(m, s, l)
           t2   == CreateSubTask(t, m, s, l)
<1>1. core \in Core
  BY LessLoadedExists
<1>2. x \in SubtaskType /\ x.slot = s /\ x.mssg = m
  BY DEF Subtask, SubtaskType
<1>3. \A c \in Core : t.bufs[c] \in Seq(SubtaskType) /\ Len(t.bufs[c]) \in Nat
  BY DEF TaskManagerType
<1>4. t2.bufs = [t.bufs EXCEPT ![core] = Append(t.bufs[core], x)]
  BY DEF CreateSubTask
<1>5. \A c \in Core \ {core} : t2.bufs[c] = t.bufs[c]
  BY <1>1, <1>4 DEF TaskManagerType
<1>6. t2.bufs[core] = Append(t.bufs[core], x)
  BY <1>1, <1>4 DEF TaskManagerType
<1> HIDE DEF core, x, t2
<1>7. /\ Len(t2.bufs[core]) = k + 1
      /\ t2.bufs[core][k + 1] = x
      /\ \A i \in 1 .. k : t2.bufs[core][i] = t.bufs[core][i]
  BY <1>1, <1>2, <1>3, <1>6
<1> HIDE DEF k
<1>8. k \in Nat /\ k = Len(t.bufs[core])
  BY <1>1, <1>3 DEF k
<1>9. ASSUME NEW c \in Core, NEW i \in 1 .. Len(t2.bufs[c])
      PROVE  \/ i \in 1 .. Len(t.bufs[c]) /\ t2.bufs[c][i] = t.bufs[c][i]
             \/ t2.bufs[c][i] = x
  <2>1. CASE c # core
    BY <1>5, <2>1
  <2>2. CASE c = core
    BY <1>7, <1>8, <2>2
  <2>3. QED
    BY <2>1, <2>2
<1>10. ASSUME NEW c \in Core, NEW i \in 1 .. Len(t.bufs[c])
       PROVE  i \in 1 .. Len(t2.bufs[c]) /\ t2.bufs[c][i] = t.bufs[c][i]
  <2>1. CASE c # core
    BY <1>5, <2>1
  <2>2. CASE c = core
    BY <1>7, <1>8, <2>2
  <2>3. QED
    BY <2>1, <2>2
<1>11. k + 1 \in 1 .. Len(t2.bufs[core])
  BY <1>7, <1>8
<1>12. Runs(t2, r, n) => Runs(t, r, n) \/ (r = s /\ n = m)
  BY <1>2, <1>9 DEF Runs
<1>13. Runs(t, r, n) => Runs(t2, r, n)
  BY <1>10 DEF Runs
<1>14. Runs(t2, s, m)
  BY <1>1, <1>2, <1>7, <1>11 DEF Runs
<1>15. QED
  BY <1>12, <1>13, <1>14 DEF t2

(* A message for an unused slot goes before those queued on it. *)
LEMMA CreateSubTaskLine ==
  ASSUME NEW t, Sound(t), NEW m \in Mssg, NEW s \in Slot \ t.using, NEW l \in Nat,
         NEW r \in Slot
  PROVE  Line(CreateSubTask(t, m, s, l), r) = IF r = s THEN <<m>> \o t.tuples[s] ELSE Line(t, r)
<1> DEFINE t2 == CreateSubTask(t, m, s, l)
<1>1. t \in TaskManagerType
  BY DEF Sound
<1>2. t2.tuples = t.tuples /\ t2.using = t.using \cup {s}
  BY <1>1, CreateSubTaskPrepares
<1>3. \A n : Runs(t2, r, n) <=> Runs(t, r, n) \/ (r = s /\ n = m)
  BY <1>1, CreateSubTaskRuns
<1>4. Sound(t2)
  BY <1>1, CreateSubTaskType, CreateSubTaskExclusive DEF Sound
<1> HIDE DEF t2
<1>5. CASE r = s
  <2>1. PICK n \in Mssg : Runs(t2, s, n) /\ Line(t2, s) = <<n>> \o t2.tuples[s]
    BY <1>2, <1>4, LineOfUsed
  <2>2. Runs(t2, s, m)
    BY <1>3, <1>5
  <2>3. n = m
    BY <1>4, <2>1, <2>2, OneRuns
  <2>4. QED
    BY <1>2, <1>5, <2>1, <2>3 DEF t2
<1>6. CASE r # s
  <2>1. Line(t2, r) = Line(t, r)
    BY <1>2, <1>3, <1>6, SameLine
  <2>2. QED
    BY <1>6, <2>1 DEF t2
<1>7. QED
  BY <1>5, <1>6

(* A message that is scheduled joins the line of its slot. *)
LEMMA ScheduleExecLine ==
  ASSUME NEW t, Sound(t), NEW m \in Mssg, NEW s \in Slot, NEW l \in Nat,
         s \notin t.using => t.tuples[s] = <<>>
  PROVE  /\ Sound(ScheduleExec(t, m, s, l))
         /\ \A r \in Slot : Line(ScheduleExec(t, m, s, l), r)
                              = Line(t, r) \o Arrival(m, s, r)
         /\ \A r \in Slot \ {s} : ScheduleExec(t, m, s, l).tuples[r] = t.tuples[r]
         /\ \A r \in Slot \ {s} : r \in ScheduleExec(t, m, s, l).using <=> r \in t.using
<1> DEFINE t2 == ScheduleExec(t, m, s, l)
<1>1. t \in TaskManagerType /\ OneAtATime(t) /\ FlagsExact(t)
  BY DEF Sound
<1>2. Sound(t2)
  BY <1>1, ScheduleExecType, ScheduleExecExclusive DEF Sound
<1>3. \A r \in Slot : Line(t, r) \in Seq(Mssg) /\ Line(t, r) \o <<>> = Line(t, r)
  BY LineType, ConcatEmptySeq
<1>4. CASE s \in t.using
  <2>1. t2 = [t EXCEPT !.tuples = [t.tuples EXCEPT ![s] = Append(@, m)]]
    BY <1>4 DEF ScheduleExec
  <2>2. t2.bufs = t.bufs /\ t2.using = t.using
        /\ t2.tuples = [t.tuples EXCEPT ![s] = Append(@, m)]
    BY <1>1, <2>1 DEF TaskManagerType
  <2> HIDE DEF t2
  <2>3. \A r, n : Runs(t2, r, n) <=> Runs(t, r, n)
    BY <2>2 DEF Runs
  <2>4. \A r \in Slot \ {s} : t2.tuples[r] = t.tuples[r]
    BY <1>1, <2>2 DEF TaskManagerType
  <2>5. \A r \in Slot \ {s} : Line(t2, r) = Line(t, r)
    BY <2>2, <2>3, <2>4, SameLine
  <2>6. PICK n \in Mssg : Runs(t, s, n) /\ Line(t, s) = <<n>> \o t.tuples[s]
    BY <1>4, LineOfUsed
  <2>7. PICK n2 \in Mssg : Runs(t2, s, n2) /\ Line(t2, s) = <<n2>> \o t2.tuples[s]
    BY <1>2, <1>4, <2>2, LineOfUsed DEF t2
  <2>8. n2 = n
    BY <2>3, <2>6, <2>7, OneRuns
  <2>9. t2.tuples[s] = t.tuples[s] \o <<m>> /\ t.tuples[s] \in Seq(Mssg)
    BY <1>1, <2>2, AppendIsConcat DEF TaskManagerType
  <2>10. <<n>> \in Seq(Mssg) /\ <<m>> \in Seq(Mssg)
    OBVIOUS
  <2>11. Line(t2, s) = Line(t, s) \o <<m>>
    <3>1. <<n>> \o (t.tuples[s] \o <<m>>) = (<<n>> \o t.tuples[s]) \o <<m>>
      <4> DEFINE a == <<n>>
                 b == <<m>>
                 q == t.tuples[s]
      <4>1. a \in Seq(Mssg) /\ b \in Seq(Mssg) /\ q \in Seq(Mssg)
        BY <2>9, <2>10
      <4> HIDE DEF a, b, q
      <4>2. a \o (q \o b) = (a \o q) \o b
        BY SMTT(40), <4>1, ConcatAssociative
      <4>3. QED
        BY <4>2 DEF a, b, q
    <3>2. QED
      BY <2>6, <2>7, <2>8, <2>9, <3>1
  <2>12. \A r \in Slot : Line(t2, r) = Line(t, r) \o Arrival(m, s, r)
    BY <1>3, <2>5, <2>11 DEF Arrival
  <2>13. QED
    BY <1>2, <2>2, <2>4, <2>12 DEF t2
<1>5. CASE s \notin t.using
  <2>1. t2 = CreateSubTask(t, m, s, l) /\ t.tuples[s] = <<>>
    BY <1>5 DEF ScheduleExec
  <2>2. t2.tuples = t.tuples /\ t2.using = t.using \cup {s}
    BY <1>1, <2>1, CreateSubTaskPrepares
  <2>a. s \in Slot \ t.using
    BY <1>5
  <2>b. \A r \in Slot : Line(CreateSubTask(t, m, s, l), r)
                           = IF r = s THEN <<m>> \o t.tuples[s] ELSE Line(t, r)
    BY <2>a, CreateSubTaskLine
  <2>3. \A r \in Slot : Line(t2, r) = IF r = s THEN <<m>> \o t.tuples[s] ELSE Line(t, r)
    BY <2>1, <2>b
  <2> HIDE DEF t2
  <2>4. Line(t, s) = <<>>
    BY <1>5, <2>1, ConcatEmptySeq, EmptySeq DEF Line
  <2>5. <<m>> \in Seq(Mssg) /\ <<m>> \o <<>> = <<m>> /\ <<>> \o <<m>> = <<m>>
    BY ConcatEmptySeq
  <2>6. \A r \in Slot : Line(t2, r) = Line(t, r) \o Arrival(m, s, r)
    BY <1>3, <2>1, <2>3, <2>4, <2>5 DEF Arrival
  <2>7. QED
    BY <1>2, <2>2, <2>6 DEF t2
<1>6. QED
  BY <1>4, <1>5

(* Serving the queue of a freed slot starts its first message: the line is as before. *)
LEMMA CheckQueuedLine ==
  ASSUME NEW t, Sound(t), NEW s \in Slot \ t.using, NEW l \in Nat, NEW r \in Slot
  PROVE  Line(CheckQueuedExecution(t, s, l), r) = Line(t, r)
<1>1. t \in TaskManagerType /\ OneAtATime(t) /\ FlagsExact(t) /\ t.tuples[s] \in Seq(Mssg)
  BY DEF Sound, TaskManagerType
<1>2. CASE t.tuples[s] # <<>>
  <2> DEFINE u == [t EXCEPT !.tuples = [t.tuples EXCEPT ![s] = Tail(@)]]
             m == Head(t.tuples[s])
  <2>1. /\ u.bufs = t.bufs /\ u.using = t.using /\ u.active = t.active
        /\ u.tuples = [t.tuples EXCEPT ![s] = Tail(@)]
    BY <1>1 DEF TaskManagerType
  <2>2. u.tuples[s] = Tail(t.tuples[s]) /\ \A q \in Slot \ {s} : u.tuples[q] = t.tuples[q]
    BY <1>1, <2>1 DEF TaskManagerType
  <2>3. m \in Mssg /\ Tail(t.tuples[s]) \in Seq(Mssg) /\ t.tuples[s] = <<m>> \o Tail(t.tuples[s])
    BY <1>1, <1>2
  <2>4. [t.tuples EXCEPT ![s] = Tail(@)] \in [Slot -> Seq(Mssg)]
    BY <1>1, <2>3 DEF TaskManagerType
  <2>5. u \in TaskManagerType
    BY <1>1, <2>4 DEF TaskManagerType
  <2>6. CheckQueuedExecution(t, s, l) = CreateSubTask(u, m, s, l)
    BY <1>2 DEF CheckQueuedExecution
  <2> HIDE DEF u, m
  <2>7. Sound(u) /\ s \in Slot \ u.using
    BY <1>1, <2>1, <2>5 DEF Sound, OneAtATime, FlagsExact, Prepares, Busy, ActiveOn
  <2>8. Line(CreateSubTask(u, m, s, l), r) = IF r = s THEN <<m>> \o u.tuples[s] ELSE Line(u, r)
    BY <2>3, <2>7, CreateSubTaskLine
  <2>9. \A n : Runs(u, r, n) <=> Runs(t, r, n)
    BY <2>1 DEF Runs
  <2>10. CASE r # s
    <3>1. Line(u, r) = Line(t, r)
      <4>1. (r \in u.using <=> r \in t.using) /\ u.tuples[r] = t.tuples[r]
        BY <2>1, <2>2, <2>10
      <4>2. QED
        BY <2>9, <4>1, SameLine
    <3>2. QED
      BY <2>6, <2>8, <2>10, <3>1
  <2>11. CASE r = s
    <3>1. Line(t, s) = t.tuples[s]
      BY <1>1, ConcatEmptySeq DEF Line
    <3>2. QED
      BY <2>2, <2>3, <2>6, <2>8, <2>11, <3>1
  <2>12. QED
    BY <2>10, <2>11
<1>3. CASE t.tuples[s] = <<>>
  BY <1>3 DEF CheckQueuedExecution
<1>4. QED
  BY <1>2, <1>3

LEMMA RunActiveMssg ==
  ASSUME NEW t \in TaskManagerType, NEW c \in Busy(t), NEW e
  PROVE  \A i \in 1 .. Len(t.bufs[c]) : RunActive(t, c, e)[i].mssg = t.bufs[c][i].mssg
<1> DEFINE first == t.bufs[c][1]
           ran   == [first EXCEPT !.lapse = @ - e]
<1>1. 1 \in 1 .. Len(t.bufs[c]) /\ t.bufs[c] \in Seq(SubtaskType)
  BY DEF Busy, TaskManagerType
<1>2. first \in SubtaskType
  BY <1>1
<1>3. ran.mssg = first.mssg
  BY <1>2 DEF SubtaskType
<1>4. RunActive(t, c, e) = [t.bufs[c] EXCEPT ![1] = ran]
  BY DEF RunActive, ActiveOn
<1> HIDE DEF ran
<1>5. QED
  BY <1>1, <1>3, <1>4

(* Running leaves every subtask in its place, so the lines as they are. *)
LEMMA ElapseLine ==
  ASSUME NEW t, Sound(t), NEW e \in Nat, NEW recent, NEW r \in Slot
  PROVE  Line(Elapse(t, e, recent), r) = Line(t, r)
<1> DEFINE t2 == Elapse(t, e, recent)
<1>1. t \in TaskManagerType
  BY DEF Sound
<1>2. t2.tuples = t.tuples /\ t2.using = t.using
  BY <1>1, ElapsePrepares
<1>3. ASSUME NEW c \in Core
      PROVE  /\ Len(t2.bufs[c]) = Len(t.bufs[c])
             /\ \A i \in 1 .. Len(t.bufs[c]) : /\ t2.bufs[c][i].slot = t.bufs[c][i].slot
                                              /\ t2.bufs[c][i].mssg = t.bufs[c][i].mssg
  <2>1. t2.bufs[c] = t.bufs[c] \/ (c \in Busy(t) /\ t2.bufs[c] = RunActive(t, c, e))
    BY <1>1 DEF Elapse, TaskManagerType
  <2>2. CASE c \in Busy(t) /\ t2.bufs[c] = RunActive(t, c, e)
    <3>1. \A i \in 1 .. Len(t.bufs[c]) : t2.bufs[c][i].mssg = t.bufs[c][i].mssg
      BY <1>1, <2>2, RunActiveMssg
    <3>2. QED
      BY <1>1, <3>1, ElapseSlots
  <2>3. QED
    BY <2>1, <2>2
<1> HIDE DEF t2
<1>4. ASSUME NEW m
      PROVE  Runs(t2, r, m) <=> Runs(t, r, m)
  <2>1. ASSUME NEW c \in Core, NEW i \in 1 .. Len(t.bufs[c])
        PROVE  /\ i \in 1 .. Len(t2.bufs[c])
               /\ t2.bufs[c][i].slot = t.bufs[c][i].slot
               /\ t2.bufs[c][i].mssg = t.bufs[c][i].mssg
    BY <1>3
  <2>2. \A c \in Core : Len(t2.bufs[c]) = Len(t.bufs[c])
    BY <1>3
  <2>3. ASSUME Runs(t, r, m)
        PROVE  Runs(t2, r, m)
    <3>1. PICK c \in Core : \E i \in 1 .. Len(t.bufs[c]) :
                               t.bufs[c][i].slot = r /\ t.bufs[c][i].mssg = m
      BY <2>3 DEF Runs
    <3>2. PICK i \in 1 .. Len(t.bufs[c]) : t.bufs[c][i].slot = r /\ t.bufs[c][i].mssg = m
      BY <3>1
    <3>3. i \in 1 .. Len(t2.bufs[c]) /\ t2.bufs[c][i].slot = r /\ t2.bufs[c][i].mssg = m
      BY <2>1, <3>2
    <3>4. QED
      BY <3>3 DEF Runs
  <2>4. ASSUME Runs(t2, r, m)
        PROVE  Runs(t, r, m)
    <3>1. PICK c \in Core : \E i \in 1 .. Len(t2.bufs[c]) :
                               t2.bufs[c][i].slot = r /\ t2.bufs[c][i].mssg = m
      BY <2>4 DEF Runs
    <3>2. PICK i \in 1 .. Len(t2.bufs[c]) : t2.bufs[c][i].slot = r /\ t2.bufs[c][i].mssg = m
      BY <3>1
    <3>3. i \in 1 .. Len(t.bufs[c]) /\ t.bufs[c][i].slot = r /\ t.bufs[c][i].mssg = m
      BY <2>1, <2>2, <3>2
    <3>4. QED
      BY <3>3 DEF Runs
  <2>5. QED
    BY <2>3, <2>4
<1>5. QED
  BY <1>2, <1>4, SameLine DEF t2

(* The end of a subtask takes the first message off the line of its slot.     *)
LEMMA TerminateLine ==
  ASSUME NEW t, Sound(t), NEW r \in Slot
  PROVE  LET freed == {ActiveOn(t, c).slot : c \in Finishing(t)}
         IN  /\ Line(TerminateActiveExecutions(t), r)
                   = IF r \in freed THEN Tail(Line(t, r)) ELSE Line(t, r)
             /\ r \in freed => Line(t, r) # <<>>
<1> DEFINE t2    == TerminateActiveExecutions(t)
           freed == {ActiveOn(t, c).slot : c \in Finishing(t)}
<1>1. /\ t \in TaskManagerType /\ t.tuples[r] \in Seq(Mssg)
      /\ \A c \in Core : t.bufs[c] \in Seq(SubtaskType)
  BY DEF Sound, TaskManagerType
<1>2. t2.tuples = t.tuples /\ t2.using = t.using \ freed
  BY DEF TerminateActiveExecutions
<1>3. CASE r \in freed
  <2>1. PICK c \in Finishing(t) : t.bufs[c][1].slot = r
    BY <1>3 DEF ActiveOn
  <2>2. c \in Core /\ 1 \in 1 .. Len(t.bufs[c])
    BY <1>1 DEF Finishing, Busy
  <2>3. r \in t.using
    BY <2>1, <2>2 DEF Sound, FlagsExact, Prepares
  <2>4. PICK m \in Mssg : Line(t, r) = <<m>> \o t.tuples[r]
    BY <2>3, LineOfUsed
  <2>5. Line(t, r) # <<>> /\ Tail(Line(t, r)) = t.tuples[r]
    BY <1>1, <2>4
  <2> HIDE DEF t2, freed
  <2>6. Line(t2, r) = t.tuples[r]
    BY <1>1, <1>2, <1>3, ConcatEmptySeq DEF Line
  <2>7. QED
    BY <1>3, <2>5, <2>6 DEF t2, freed
<1>4. CASE r \notin freed
  <2>1. ASSUME NEW c \in Core \ Finishing(t)
        PROVE  /\ Len(t2.bufs[c]) = Len(t.bufs[c])
               /\ \A i \in 1 .. Len(t.bufs[c]) : /\ t2.bufs[c][i].slot = t.bufs[c][i].slot
                                                /\ t2.bufs[c][i].mssg = t.bufs[c][i].mssg
    <3>1. CASE c \in Busy(t)
      <4>1. t2.bufs[c] = RunActive(t, c, LessExecTime(t))
        BY <3>1 DEF TerminateActiveExecutions
      <4>2. LessExecTime(t) \in Nat /\ LessExecTime(t) <= ActiveOn(t, c).lapse
        BY <1>1, <3>1, FinishingProperties
      <4>3. QED
        BY <1>1, <3>1, <4>1, <4>2, RunActiveType, RunActiveMssg
    <3>2. CASE c \notin Busy(t)
      BY <3>2 DEF TerminateActiveExecutions
    <3>3. QED
      BY <3>1, <3>2
  <2>2. ASSUME NEW c \in Finishing(t)
        PROVE  /\ Len(t.bufs[c]) \in Nat \ {0}
               /\ Len(t2.bufs[c]) = Len(t.bufs[c]) - 1
               /\ \A i \in 1 .. Len(t.bufs[c]) - 1 : t2.bufs[c][i] = t.bufs[c][i + 1]
               /\ t.bufs[c][1].slot # r
    <3>1. c \in Core /\ t.bufs[c] # <<>>
      BY DEF Finishing, Busy
    <3>2. t2.bufs[c] = Tail(t.bufs[c])
      BY <3>1 DEF TerminateActiveExecutions, Remaining
    <3>3. t.bufs[c][1].slot # r
      BY <1>4 DEF ActiveOn
    <3> HIDE DEF t2, freed
    <3>4. QED
      BY <1>1, <3>1, <3>2, <3>3
  <2> HIDE DEF t2, freed
  <2>3. ASSUME NEW m, Runs(t2, r, m)
        PROVE  Runs(t, r, m)
    <3>1. PICK c \in Core : \E i \in 1 .. Len(t2.bufs[c]) :
                 t2.bufs[c][i].slot = r /\ t2.bufs[c][i].mssg = m
      BY <2>3 DEF Runs
    <3>2. PICK i \in 1 .. Len(t2.bufs[c]) : t2.bufs[c][i].slot = r /\ t2.bufs[c][i].mssg = m
      BY <3>1
    <3>3. CASE c \in Finishing(t)
      <4>1. i + 1 \in 1 .. Len(t.bufs[c]) /\ t2.bufs[c][i] = t.bufs[c][i + 1]
        BY <2>2, <3>3
      <4>2. QED
        BY <3>2, <4>1 DEF Runs
    <3>4. CASE c \notin Finishing(t)
      BY <2>1, <3>2, <3>4 DEF Runs
    <3>5. QED
      BY <3>3, <3>4
  <2>4. ASSUME NEW m, Runs(t, r, m)
        PROVE  Runs(t2, r, m)
    <3>1. PICK c \in Core : \E i \in 1 .. Len(t.bufs[c]) :
                 t.bufs[c][i].slot = r /\ t.bufs[c][i].mssg = m
      BY <2>4 DEF Runs
    <3>2. PICK i \in 1 .. Len(t.bufs[c]) : t.bufs[c][i].slot = r /\ t.bufs[c][i].mssg = m
      BY <3>1
    <3>3. CASE c \in Finishing(t)
      <4>1. i # 1
        BY <2>2, <3>2, <3>3
      <4>2. i - 1 \in 1 .. Len(t2.bufs[c]) /\ i - 1 \in 1 .. Len(t.bufs[c]) - 1 /\ i - 1 + 1 = i
        BY <2>2, <3>3, <4>1
      <4>3. t2.bufs[c][i - 1] = t.bufs[c][i]
        BY <2>2, <3>3, <4>2
      <4>4. QED
        BY <3>2, <4>2, <4>3 DEF Runs
    <3>4. CASE c \notin Finishing(t)
      BY <2>1, <3>2, <3>4 DEF Runs
    <3>5. QED
      BY <3>3, <3>4
  <2>5. (r \in t2.using <=> r \in t.using) /\ t2.tuples[r] = t.tuples[r]
    BY <1>2, <1>4
  <2>6. Line(t2, r) = Line(t, r)
    BY <2>3, <2>4, <2>5, SameLine
  <2>7. QED
    BY <1>4, <2>6 DEF t2, freed
<1>5. QED
  BY <1>3, <1>4
-----------------------------------------------------------------------------
(* What TaskExecution calls the messages served are these lines. *)
LineInv == Served = [s \in Slot |-> Line(tm, s)]

LEMMA ServedIsLine ==
  ASSUME TypeOK
  PROVE  LineInv
<1>1. ASSUME NEW s \in Slot
      PROVE  InService(s) = {n \in Mssg : Runs(tm, s, n)}
  <2>1. ASSUME NEW n \in InService(s)
        PROVE  n \in Mssg /\ Runs(tm, s, n)
    <3>1. PICK c \in Core : \E i \in 1 .. Len(tm.bufs[c]) :
                 tm.bufs[c][i].slot = s /\ n = tm.bufs[c][i].mssg
      BY DEF InService, Prepared
    <3>2. PICK i \in 1 .. Len(tm.bufs[c]) : tm.bufs[c][i].slot = s /\ n = tm.bufs[c][i].mssg
      BY <3>1
    <3>3. tm.bufs[c][i] \in SubtaskType
      BY DEF TypeOK, TaskManagerType
    <3>4. QED
      BY <3>2, <3>3 DEF SubtaskType, Runs
  <2>2. ASSUME NEW n, Runs(tm, s, n)
        PROVE  n \in InService(s)
    <3>1. PICK c \in Core : \E i \in 1 .. Len(tm.bufs[c]) :
                 tm.bufs[c][i].slot = s /\ tm.bufs[c][i].mssg = n
      BY <2>2 DEF Runs
    <3>2. PICK i \in 1 .. Len(tm.bufs[c]) : tm.bufs[c][i].slot = s /\ tm.bufs[c][i].mssg = n
      BY <3>1
    <3>3. <<c, i>> \in Prepared(s)
      BY <3>2 DEF Prepared
    <3>4. QED
      BY <3>2, <3>3 DEF InService
  <2>3. QED
    BY <2>1, <2>2
<1>2. Served = [s \in Slot |-> (IF s \in tm.using THEN <<OneOf(InService(s))>> ELSE <<>>)
                                 \o tm.tuples[s]]
  BY DEF Served, OneOf
<1>3. \A s \in Slot : Served[s] = Line(tm, s)
  BY <1>1, <1>2 DEF Line
<1>4. QED
  BY <1>2, <1>3 DEF LineInv

(* A step of the slots in which those of S let a message go and t joins. *)
LEMMA SlotStep ==
  ASSUME NEW S \in SUBSET Slot, NEW t, t \in [Slot -> Seq(Mssg)], LineInv, LineInv',
         \A s \in Slot : /\ Line(tm, s) \in Seq(Mssg)
                         /\ s \in S => Line(tm, s) # <<>> /\ t[s] = <<>>
                         /\ Line(tm', s)
                              = JoinedBy(Line(tm, s), t[s], s \in S)
  PROVE  Slots!Next
<1> DEFINE left(s) == IF s \in S THEN Tail(Line(tm, s)) ELSE Line(tm, s)
<1>0. /\ \A s \in Slot : Served[s] = Line(tm, s) /\ Served'[s] = Line(tm', s)
      /\ DOMAIN Served' = Slot
  BY DEF LineInv
<1>1. ASSUME NEW s \in Slot
      PROVE  /\ Len(left(s)) <= Len(Served'[s])
             /\ SubSeq(left(s), 1, Len(left(s))) = SubSeq(Served'[s], 1, Len(left(s)))
             /\ SubSeq(Served'[s], Len(left(s)) + 1, Len(Served'[s])) = t[s]
  <2>1. left(s) \in Seq(Mssg) /\ t[s] \in Seq(Mssg) /\ Served'[s] = left(s) \o t[s]
    BY <1>0, HeadTailProperties DEF JoinedBy
  <2> HIDE DEF left
  <2>2. QED
    BY <2>1, Concatenated
<1>2. ASSUME NEW s \in Slot
      PROVE  /\ {t[s][x] : x \in DOMAIN t[s]} \subseteq Mssg
             /\ s \in S => {t[s][x] : x \in DOMAIN t[s]} = {}
  <2>1. t[s] \in Seq(Mssg)
    OBVIOUS
  <2>2. QED
    BY <2>1, LenProperties
<1>3. \A s \in Slot : Slots!Served(S)[s] = left(s)
  BY <1>0 DEF Slots!Served
<1> HIDE DEF left
<1>4. \A s \in Slot : Slots!Joins(S, s) = t[s]
  BY <1>1, <1>3 DEF Slots!Joins
<1>5. \A s \in Slot : Slots!IsPrefix(Slots!Served(S)[s], Served'[s])
  BY <1>1, <1>3 DEF Slots!IsPrefix
<1>6. \A s \in Slot : Slots!Range(Slots!Joins(S, s)) \subseteq Mssg
  BY <1>2, <1>4 DEF Slots!Range
<1>7. \A s \in S : Served[s] # <<>> /\ Head(Served[s]) \notin Slots!Range(Slots!Joins(S, s))
  BY <1>0, <1>2, <1>4 DEF Slots!Range
<1>8. Slots!Step(S)
  BY <1>0, <1>5, <1>6, <1>7 DEF Slots!Step
<1>9. QED
  BY <1>8 DEF Slots!Next

(* Where the cores of a node never finish at the same instant, or the node    *)
(* has one core, every slot serves its messages in the order they were        *)
(* scheduled on it, each once, and loses none.                                *)
THEOREM ServedInOrder == ~Ties \/ NCores = 1 => (Spec => ServesInOrder)
<1> SUFFICES ASSUME ~Ties \/ NCores = 1
             PROVE  Spec => ServesInOrder
  OBVIOUS
<1> USE ConstantsAssumption
<1>1. Init => Slots!Init
  BY DEF Init, NewTaskManager, Served, Slots!Init
<1>2. ASSUME TypeOK, ExclusiveInv, NoStrandedTuple, LineInv, LineInv', Next
      PROVE  Slots!Next
  <2> DEFINE none      == [s \in Slot |-> <<>>]
             Only(s, m) == [r \in Slot |-> Arrival(m, s, r)]
  <2>1. Sound(tm) /\ \A s \in Slot : Line(tm, s) \in Seq(Mssg)
    BY <1>2, LineType DEF TypeOK, ExclusiveInv, SlotExclusive, Sound
  <2>2. /\ none \in [Slot -> Seq(Mssg)]
        /\ \A s \in Slot, m \in Mssg : Only(s, m) \in [Slot -> Seq(Mssg)]
        /\ \A s \in Slot : none[s] = <<>>
        /\ \A s, r \in Slot, m \in Mssg : Only(s, m)[r] = Arrival(m, s, r)
    BY EmptySeq DEF Arrival
  <2>3. ASSUME NEW s \in Slot, \A c \in due : tm.used[c] # s
        PROVE  s \notin tm.using => tm.tuples[s] = <<>>
    <3>1. Prepares(tm, s) => s \in tm.using
      BY <1>2 DEF ExclusiveInv, SlotExclusive, FlagsExact
    <3>2. QED
      BY <1>2, <2>3, <3>1 DEF NoStrandedTuple
  <2> HIDE DEF none, Only
  <2>a. ASSUME \A s \in Slot : Line(tm', s) = Line(tm, s)
        PROVE  Slots!Next
    <3>1. \A s \in Slot : Line(tm', s) = JoinedBy(Line(tm, s), none[s], s \in {})
      BY <2>1, <2>2, <2>a, ConcatEmptySeq DEF JoinedBy
    <3>2. QED
      BY <1>2, <2>1, <2>2, <3>1, SlotStep
  <2>4. ASSUME NEW m \in Mssg, NEW s \in Slot, NEW l \in Lapse, NEW e \in Elapsed,
               Receive(m, s, l, e)
        PROVE  Slots!Next
    <3> DEFINE t == ScheduleExec(tm, m, s, l)
    <3>1. e \in Nat /\ l \in Nat /\ due = {}
      BY <1>2, <2>4, ElapsedNat DEF Receive, Ready
    <3>2. Sound(t) /\ \A r \in Slot : Line(t, r) = Line(tm, r) \o Arrival(m, s, r)
      BY <2>1, <2>3, <3>1, ScheduleExecLine
    <3>3. tm' = Elapse(t, e, {m})
      BY <2>4 DEF Receive
    <3> HIDE DEF t
    <3>4. \A r \in Slot : Line(tm', r) = JoinedBy(Line(tm, r), Only(s, m)[r], r \in {})
      <4>1. \A r \in Slot : Line(tm', r) = Line(t, r)
        BY <3>1, <3>2, <3>3, ElapseLine
      <4>2. QED
        BY <2>2, <3>2, <4>1 DEF JoinedBy
    <3>5. QED
      BY <1>2, <2>1, <2>2, <3>4, SlotStep
  <2>5. ASSUME NEW m \in Mssg, NEW s \in Slot, NEW l \in Lapse,
               NEW n \in Mssg, NEW r \in Slot, NEW k \in Lapse, NEW e \in Elapsed,
               ReceiveBoth(m, s, l, n, r, k, e)
        PROVE  Slots!Next
    <3> DEFINE t == ScheduleExec(tm, m, s, l)
               u == ScheduleExec(t, n, r, k)
               both == [q \in Slot |-> Only(s, m)[q] \o Only(r, n)[q]]
    <3>1. e \in Nat /\ l \in Nat /\ k \in Nat /\ due = {} /\ s # r
      BY <1>2, <2>5, ElapsedNat DEF ReceiveBoth, Ready
    <3>2. Sound(t) /\ \A q \in Slot : Line(t, q) = Line(tm, q) \o Arrival(m, s, q)
      BY SMTT(40), <2>1, <2>3, <3>1, ScheduleExecLine
    <3>3. tm' = Elapse(u, e, {m, n})
      BY <2>5 DEF ReceiveBoth
    <3>4. r \notin t.using => t.tuples[r] = <<>>
      <4>1. \A q \in Slot \ {s} : t.tuples[q] = tm.tuples[q]
        BY <2>1, <2>3, <3>1, ScheduleExecLine
      <4>2. \A q \in Slot \ {s} : q \in t.using <=> q \in tm.using
        BY <2>1, <2>3, <3>1, ScheduleExecLine
      <4>3. r \in Slot \ {s} /\ (r \notin tm.using => tm.tuples[r] = <<>>)
        BY <2>3, <3>1
      <4> HIDE DEF t
      <4>4. QED
        BY <4>1, <4>2, <4>3
    <3> HIDE DEF t
    <3>5. Sound(u) /\ \A q \in Slot : Line(u, q) = Line(t, q) \o Arrival(n, r, q)
      BY SMTT(40), <3>1, <3>2, <3>4, ScheduleExecLine
    <3> HIDE DEF u
    <3>6. ASSUME NEW q \in Slot
          PROVE  Line(tm', q) = JoinedBy(Line(tm, q), both[q], q \in {})
      <4> DEFINE x == Only(s, m)[q]
                 y == Only(r, n)[q]
                 z == Line(tm, q)
      <4>1. x \in Seq(Mssg) /\ y \in Seq(Mssg) /\ z \in Seq(Mssg)
        BY <2>1, <2>2
      <4>2. Line(tm', q) = (z \o x) \o y
        <5>1. Line(tm', q) = Line(u, q)
          BY <3>1, <3>3, <3>5, ElapseLine
        <5>2. QED
          BY <2>2, <3>2, <3>5, <5>1
      <4> HIDE DEF x, y, z
      <4>3. (z \o x) \o y = z \o (x \o y)
        BY <4>1, ConcatAssociative
      <4>4. QED
        BY <4>2, <4>3 DEF x, y, z, JoinedBy
    <3>7. both \in [Slot -> Seq(Mssg)]
      BY <2>2, ConcatProperties
    <3> HIDE DEF both
    <3>8. QED
      BY <1>2, <2>1, <3>6, <3>7, SlotStep
  <2>6. ASSUME NEW e \in Elapsed, Tick(e)
        PROVE  Slots!Next
    <3>1. \A s \in Slot : Line(tm', s) = Line(tm, s)
      BY <1>2, <2>1, <2>6, ElapsedNat, ElapseLine DEF Tick
    <3>2. QED
      BY <2>a, <3>1
  <2>7. ASSUME NEW sent \in [Finishing(tm) -> SUBSET Slot], Terminate(sent)
        PROVE  Slots!Next
    <3> DEFINE freed == {ActiveOn(tm, c).slot : c \in Finishing(tm)}
    <3>1. tm' = TerminateActiveExecutions(tm)
      BY <2>7 DEF Terminate
    <3>2. freed \in SUBSET Slot
      BY <2>1, FinishingProperties DEF Sound, SubtaskType, Finishing
    <3>3. \A s \in Slot :
             /\ Line(tm', s) = IF s \in freed THEN Tail(Line(tm, s)) ELSE Line(tm, s)
             /\ s \in freed => Line(tm, s) # <<>>
      BY <2>1, <3>1, TerminateLine
    <3> HIDE DEF freed
    <3>4. \A s \in Slot : Line(tm', s)
             = JoinedBy(Line(tm, s), none[s], s \in freed)
      BY <2>1, <2>2, <3>3, HeadTailProperties, ConcatEmptySeq DEF JoinedBy
    <3>5. QED
      BY <1>2, <2>1, <2>2, <3>2, <3>3, <3>4, SlotStep
  <2>8. ASSUME NEW p \in pendings, NEW l \in Lapse, SchedulePending(p, l)
        PROVE  Slots!Next
    <3>1. p.mssg \in Mssg /\ p.slot \in Slot /\ l \in Nat
      BY <1>2 DEF TypeOK
    <3>2. tm' = ScheduleExec(tm, p.mssg, p.slot, l)
      BY <2>8 DEF SchedulePending
    <3>3. \A c \in due : tm.used[c] # p.slot
      <4>1. /\ p.core \in due /\ \A c, d \in due : c = d
            /\ OperOf[p.slot] \in Dest[OperOf[tm.used[p.core]]]
            /\ tm.used[p.core] \in Slot
        BY <1>2 DEF ExclusiveInv, FreedUnused, TypeOK
      <4>2. tm.used[p.core] # p.slot
        BY <3>1, <4>1
      <4>3. QED
        BY <4>1, <4>2
    <3>4. p.slot \notin tm.using => tm.tuples[p.slot] = <<>>
      BY <2>3, <3>1, <3>3
    <3>5. \A r \in Slot : Line(tm', r) = Line(tm, r) \o Arrival(p.mssg, p.slot, r)
      <4> DEFINE m == p.mssg
                 s == p.slot
      <4>1. m \in Mssg /\ s \in Slot /\ (s \notin tm.using => tm.tuples[s] = <<>>)
        BY <3>1, <3>4
      <4> HIDE DEF m, s
      <4>2. \A r \in Slot : Line(ScheduleExec(tm, m, s, l), r) = Line(tm, r) \o Arrival(m, s, r)
        BY <2>1, <3>1, <4>1, ScheduleExecLine
      <4>3. QED
        BY <3>2, <4>2 DEF m, s
    <3>6. \A r \in Slot : Line(tm', r) = JoinedBy(Line(tm, r), Only(p.slot, p.mssg)[r], r \in {})
      BY <2>2, <3>1, <3>5 DEF JoinedBy
    <3>7. QED
      BY <1>2, <2>1, <2>2, <3>1, <3>6, SlotStep
  <2>9. ASSUME NEW l \in Lapse, CheckQueued(l)
        PROVE  Slots!Next
    <3>1. PICK c \in due : tm' = CheckQueuedExecution(tm, tm.used[c], l)
      BY <1>2, <2>9, LeastDue DEF CheckQueued
    <3>2. tm.used[c] \in Slot \ tm.using /\ l \in Nat
      BY <1>2 DEF ExclusiveInv, FreedUnused, TypeOK
    <3>3. \A s \in Slot : Line(tm', s) = Line(tm, s)
      BY <2>1, <3>1, <3>2, CheckQueuedLine
    <3>4. QED
      BY <2>a, <3>3
  <2>10. QED
    BY <1>2, <2>4, <2>5, <2>6, <2>7, <2>8, <2>9 DEF Next
<1>3. ASSUME LineInv, LineInv', UNCHANGED vars
      PROVE  UNCHANGED Served
  BY <1>3 DEF LineInv, vars
<1>4. TypeOK => LineInv
  BY ServedIsLine
<1>5. TypeOK /\ ExclusiveInv /\ NoStrandedTuple /\ LineInv /\ LineInv' /\ [Next]_vars
        => [Slots!Next]_Served
  BY <1>2, <1>3
<1>6. Spec => []ExclusiveInv
  BY ExclusiveInvariant
<1>7. QED
  BY <1>1, <1>4, <1>5, <1>6, TypeCorrect, NoStranded, PTL DEF Spec, ServesInOrder, Slots!Spec
=============================================================================
