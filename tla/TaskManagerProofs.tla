-------------------------- MODULE TaskManagerProofs --------------------------
(***************************************************************************)
(* Lemmas about the methods of TaskManager, for any number of cores and    *)
(* any slots and messages: what each of them returns is a task manager     *)
(* again, and its counter is that of the prepared subtasks.                *)
(***************************************************************************)
EXTENDS TaskManager, DataLemmas

(* Every nonempty set of cores has a greatest element. *)
LEMMA GreatestCore ==
  ASSUME NEW S \in SUBSET Core, S # {}
  PROVE  \E c \in S : \A d \in S : d <= c
<1> DEFINE T == {n \in Nat : NCores - 1 - n \in S}
<1>1. T # {}
  <2>1. PICK c \in S : TRUE
    OBVIOUS
  <2>2. NCores - 1 - c \in T
    BY <2>1, NCoresAssumption DEF Core
  <2>3. QED
    BY <2>2
<1>2. PICK n \in T : \A k \in T : n <= k
  BY <1>1, LeastNat
<1>3. \A d \in S : d <= NCores - 1 - n
  <2>1. TAKE d \in S
  <2>2. NCores - 1 - d \in T
    BY NCoresAssumption DEF Core
  <2>3. n <= NCores - 1 - d
    BY <1>2, <2>2
  <2>4. QED
    BY <2>3, NCoresAssumption DEF Core
<1>4. QED
  BY <1>2, <1>3

LEMMA CoreFinite == IsFiniteSet(Core)
BY FS_Interval, NCoresAssumption DEF Core

(* There is a core with least congestion, so createSubTask finds one. *)
LEMMA LessLoadedExists ==
  ASSUME NEW t \in TaskManagerType
  PROVE  /\ LessLoaded(t) \in Core
         /\ \A d \in Core : Len(t.bufs[LessLoaded(t)]) <= Len(t.bufs[d])
<1> DEFINE Lens  == {Len(t.bufs[c]) : c \in Core}
           P(c)  == \A d \in Core : \/ Len(t.bufs[c]) < Len(t.bufs[d])
                                    \/ Len(t.bufs[c]) = Len(t.bufs[d]) /\ d <= c
<1>1. \A c \in Core : Len(t.bufs[c]) \in Nat
  BY DEF TaskManagerType
<1>2. 0 \in Core
  BY NCoresAssumption DEF Core
<1>3. Lens \in SUBSET Nat /\ Lens # {}
  BY <1>1, <1>2
<1>4. PICK n \in Lens : \A k \in Lens : n <= k
  BY <1>3, LeastNat
<1> DEFINE S == {c \in Core : Len(t.bufs[c]) = n}
<1>5. S \in SUBSET Core /\ S # {}
  BY <1>4
<1>6. PICK c \in S : \A d \in S : d <= c
  BY <1>5, GreatestCore
<1>7. c \in Core /\ P(c)
  <2>1. SUFFICES ASSUME NEW d \in Core
        PROVE  \/ Len(t.bufs[c]) < Len(t.bufs[d])
               \/ Len(t.bufs[c]) = Len(t.bufs[d]) /\ d <= c
    BY <1>6
  <2>2. n <= Len(t.bufs[d]) /\ Len(t.bufs[c]) = n
    BY <1>4, <1>6
  <2>3. QED
    BY <2>2, <1>6, <1>1
<1>8. LessLoaded(t) \in Core /\ P(LessLoaded(t))
  BY <1>7 DEF LessLoaded
<1>9. QED
  BY <1>8, <1>1

(* Where some core is busy, some core finishes, and no active subtask is   *)
(* shorter than it.                                                        *)
LEMMA FinishingProperties ==
  ASSUME NEW t \in TaskManagerType, Busy(t) # {}
  PROVE  /\ Finishing(t) # {}
         /\ Finishing(t) \subseteq Busy(t)
         /\ LessExecTime(t) \in Nat
         /\ \A c \in Busy(t) : /\ ActiveOn(t, c) \in SubtaskType
                               /\ LessExecTime(t) <= ActiveOn(t, c).lapse
<1> DEFINE Lapses == {ActiveOn(t, c).lapse : c \in Busy(t)}
<1>1. \A c \in Busy(t) : ActiveOn(t, c) \in SubtaskType
  BY DEF TaskManagerType, Busy, ActiveOn
<1>2. \A c \in Busy(t) : ActiveOn(t, c).lapse \in Nat
  BY <1>1 DEF SubtaskType
<1>3. Lapses \in SUBSET Nat /\ Lapses # {}
  BY <1>2
<1>4. PICK n \in Lapses : \A k \in Lapses : n <= k
  BY <1>3, LeastNat
<1>5. PICK c \in Busy(t) : n = ActiveOn(t, c).lapse
  BY <1>4
<1>6. c \in Finishing(t)
  BY <1>4, <1>5 DEF Finishing
<1>7. PICK d \in Finishing(t) : LessExecTime(t) = ActiveOn(t, d).lapse
  BY <1>6 DEF LessExecTime
<1>8. Finishing(t) \subseteq Busy(t)
  BY DEF Finishing
<1>9. QED
  BY <1>1, <1>2, <1>6, <1>7, <1>8 DEF Finishing

-----------------------------------------------------------------------------
(* The methods preserve the type of a task manager. *)
LEMMA CreateSubTaskType ==
  ASSUME NEW t \in TaskManagerType, NEW m \in Mssg, NEW s \in Slot, NEW l \in Nat
  PROVE  CreateSubTask(t, m, s, l) \in TaskManagerType
<1>1. LessLoaded(t) \in Core
  BY LessLoadedExists
<1>2. Subtask(m, s, l) \in SubtaskType
  BY DEF Subtask, SubtaskType
<1>3. [t.bufs EXCEPT ![LessLoaded(t)] = Append(@, Subtask(m, s, l))]
        \in [Core -> Seq(SubtaskType)]
  BY <1>1, <1>2 DEF TaskManagerType
<1>4. QED
  BY <1>3 DEF CreateSubTask, TaskManagerType

LEMMA ScheduleExecType ==
  ASSUME NEW t \in TaskManagerType, NEW m \in Mssg, NEW s \in Slot, NEW l \in Nat
  PROVE  ScheduleExec(t, m, s, l) \in TaskManagerType
<1>1. [t.tuples EXCEPT ![s] = Append(@, m)] \in [Slot -> Seq(Mssg)]
  BY DEF TaskManagerType
<1>2. [t EXCEPT !.tuples = [t.tuples EXCEPT ![s] = Append(@, m)]] \in TaskManagerType
  BY <1>1 DEF TaskManagerType
<1>3. QED
  BY <1>2, CreateSubTaskType DEF ScheduleExec

LEMMA CheckQueuedExecutionType ==
  ASSUME NEW t \in TaskManagerType, NEW s \in Slot, NEW l \in Nat
  PROVE  CheckQueuedExecution(t, s, l) \in TaskManagerType
<1>1. CASE t.tuples[s] # <<>>
  <2>1. [t.tuples EXCEPT ![s] = Tail(@)] \in [Slot -> Seq(Mssg)] /\ Head(t.tuples[s]) \in Mssg
    BY <1>1 DEF TaskManagerType
  <2>2. [t EXCEPT !.tuples = [t.tuples EXCEPT ![s] = Tail(@)]] \in TaskManagerType
    BY <2>1 DEF TaskManagerType
  <2>3. QED
    BY <1>1, <2>1, <2>2, CreateSubTaskType DEF CheckQueuedExecution
<1>2. CASE t.tuples[s] = <<>>
  BY <1>2 DEF CheckQueuedExecution
<1>3. QED
  BY <1>1, <1>2

LEMMA RunActiveType ==
  ASSUME NEW t \in TaskManagerType, NEW c \in Busy(t), NEW e \in Nat,
         e <= ActiveOn(t, c).lapse
  PROVE  /\ RunActive(t, c, e) \in Seq(SubtaskType)
         /\ Len(RunActive(t, c, e)) = Len(t.bufs[c])
         /\ \A i \in 1 .. Len(t.bufs[c]) :
              /\ RunActive(t, c, e)[i].slot = t.bufs[c][i].slot
              /\ RunActive(t, c, e)[i].mssg = t.bufs[c][i].mssg
<1> DEFINE first == t.bufs[c][1]
           ran   == [first EXCEPT !.lapse = @ - e]
<1>1. 1 \in 1 .. Len(t.bufs[c]) /\ t.bufs[c] \in Seq(SubtaskType)
  BY DEF Busy, TaskManagerType
<1>2. first \in SubtaskType
  BY <1>1
<1>3. first.lapse - e \in Nat
  BY <1>2 DEF ActiveOn, SubtaskType
<1>4. ran \in SubtaskType /\ ran.slot = first.slot /\ ran.mssg = first.mssg
  BY <1>2, <1>3 DEF SubtaskType
<1>5. RunActive(t, c, e) = [t.bufs[c] EXCEPT ![1] = ran]
  BY DEF RunActive, ActiveOn
<1> HIDE DEF ran
<1>6. QED
  BY <1>1, <1>4, <1>5, ExceptSeq

LEMMA ElapseType ==
  ASSUME NEW t \in TaskManagerType, NEW e \in Nat, NEW recent
  PROVE  Elapse(t, e, recent) \in TaskManagerType
<1> DEFINE Runs(c) == /\ c \in Busy(t)
                      /\ ActiveOn(t, c).lapse >= e
                      /\ ActiveOn(t, c).mssg \notin recent
           bufs == [c \in Core |-> IF Runs(c) THEN RunActive(t, c, e) ELSE t.bufs[c]]
<1>1. ASSUME NEW c \in Core, Runs(c)
      PROVE  RunActive(t, c, e) \in Seq(SubtaskType)
  <2>1. ActiveOn(t, c) \in SubtaskType
    BY <1>1, FinishingProperties
  <2>2. e <= ActiveOn(t, c).lapse
    BY <1>1, <2>1 DEF SubtaskType
  <2>3. QED
    BY <1>1, <2>2, RunActiveType
<1>2. bufs \in [Core -> Seq(SubtaskType)]
  BY <1>1 DEF TaskManagerType
<1>3. Elapse(t, e, recent) = [t EXCEPT !.bufs = bufs]
  BY DEF Elapse
<1> HIDE DEF bufs
<1>4. QED
  BY <1>2, <1>3 DEF TaskManagerType

(* Running the active subtasks leaves every subtask in its place. *)
LEMMA ElapseSlots ==
  ASSUME NEW t \in TaskManagerType, NEW e \in Nat, NEW recent, NEW c \in Core
  PROVE  /\ Len(Elapse(t, e, recent).bufs[c]) = Len(t.bufs[c])
         /\ \A i \in 1 .. Len(t.bufs[c]) :
              /\ Elapse(t, e, recent).bufs[c][i].slot = t.bufs[c][i].slot
              /\ Elapse(t, e, recent).bufs[c][i].mssg = t.bufs[c][i].mssg
<1> DEFINE buf == Elapse(t, e, recent).bufs[c]
<1>1. \/ buf = t.bufs[c]
      \/ c \in Busy(t) /\ ActiveOn(t, c).lapse >= e /\ buf = RunActive(t, c, e)
  BY DEF Elapse, TaskManagerType
<1>2. CASE buf = t.bufs[c]
  BY <1>2
<1>3. CASE c \in Busy(t) /\ ActiveOn(t, c).lapse >= e /\ buf = RunActive(t, c, e)
  <2>1. ActiveOn(t, c) \in SubtaskType
    BY <1>3, FinishingProperties
  <2>2. e <= ActiveOn(t, c).lapse
    BY <1>3, <2>1 DEF SubtaskType
  <2>3. QED
    BY <1>3, <2>2, RunActiveType
<1>4. QED
  BY <1>1, <1>2, <1>3

LEMMA TerminateType ==
  ASSUME NEW t \in TaskManagerType
  PROVE  /\ TerminateActiveExecutions(t) \in TaskManagerType
         /\ \A c \in Finishing(t) : TerminateActiveExecutions(t).used[c] \in Slot
<1> DEFINE t2 == TerminateActiveExecutions(t)
<1>1. Finishing(t) \subseteq Busy(t) /\ Busy(t) \subseteq Core
  BY DEF Finishing, Busy
<1>2. t2.bufs \in [Core -> Seq(SubtaskType)]
  <2>1. \A c \in Busy(t) : RunActive(t, c, LessExecTime(t)) \in Seq(SubtaskType)
    BY FinishingProperties, RunActiveType
  <2>2. \A c \in Finishing(t) : Tail(t.bufs[c]) \in Seq(SubtaskType)
    BY <1>1 DEF Busy, TaskManagerType
  <2>3. QED
    BY <2>1, <2>2 DEF TerminateActiveExecutions, Remaining, TaskManagerType
<1>3. \A c \in Finishing(t) : ActiveOn(t, c).slot \in Slot
  BY <1>1, FinishingProperties DEF SubtaskType
<1>4. t2.used \in [Core -> Slot \cup {NoSlot}]
  BY <1>3 DEF TerminateActiveExecutions, Remaining
<1>5. t2.pending \in Int
  <2>1. IsFiniteSet(Finishing(t))
    BY <1>1, CoreFinite, FS_Subset
  <2>2. Cardinality(Finishing(t)) \in Nat
    BY <2>1, FS_CardinalityType
  <2>3. QED
    BY <2>2 DEF TerminateActiveExecutions, Remaining, TaskManagerType
<1>6. t2.tuples \in [Slot -> Seq(Mssg)] /\ t2.using \in SUBSET Slot /\ t2.active \in SUBSET Slot
  BY DEF TerminateActiveExecutions, Remaining, TaskManagerType
<1>7. t2 = [bufs |-> t2.bufs, tuples |-> t2.tuples, using |-> t2.using,
            active |-> t2.active, pending |-> t2.pending, used |-> t2.used]
  BY DEF TerminateActiveExecutions, Remaining
<1>8. \A c \in Finishing(t) : t2.used[c] \in Slot
  BY <1>1, <1>3 DEF TerminateActiveExecutions, Remaining
<1> HIDE DEF t2
<1>9. QED
  BY <1>2, <1>4, <1>5, <1>6, <1>7, <1>8 DEF TaskManagerType, t2
-----------------------------------------------------------------------------
(* The places of the prepared subtasks, and what pending_execs_ is to count.  *)
Places(t) == UNION {{<<c, i>> : i \in DOMAIN t.bufs[c]} : c \in Core}

Counted(t) == IsFiniteSet(Places(t)) /\ t.pending = Cardinality(Places(t))

LEMMA InPlaces ==
  ASSUME NEW t \in TaskManagerType, NEW p
  PROVE  p \in Places(t) <=> \E c \in Core : \E i \in 1 .. Len(t.bufs[c]) : p = <<c, i>>
<1>1. \A c \in Core : DOMAIN t.bufs[c] = 1 .. Len(t.bufs[c])
  BY DEF TaskManagerType
<1>2. QED
  BY <1>1 DEF Places

LEMMA SamePlaces ==
  ASSUME NEW t \in TaskManagerType, NEW u \in TaskManagerType, Counted(t),
         u.pending = t.pending,
         \A c \in Core : Len(u.bufs[c]) = Len(t.bufs[c])
  PROVE  Counted(u)
<1>1. \A p : p \in Places(u) <=> p \in Places(t)
  BY InPlaces
<1>2. Places(u) = Places(t)
  BY <1>1
<1>3. QED
  BY <1>2 DEF Counted

LEMMA CreateSubTaskCounted ==
  ASSUME NEW t \in TaskManagerType, NEW m \in Mssg, NEW s \in Slot, NEW l \in Nat, Counted(t)
  PROVE  Counted(CreateSubTask(t, m, s, l))
<1> DEFINE core == LessLoaded(t)
           n    == Len(t.bufs[core])
           x    == Subtask(m, s, l)
           u    == CreateSubTask(t, m, s, l)
<1>1. core \in Core
  BY LessLoadedExists
<1>2. x \in SubtaskType
  BY DEF Subtask, SubtaskType
<1>3. t.bufs \in [Core -> Seq(SubtaskType)] /\ t.bufs[core] \in Seq(SubtaskType) /\ n \in Nat
  BY <1>1 DEF TaskManagerType
<1>4. u.bufs = [t.bufs EXCEPT ![core] = Append(t.bufs[core], x)] /\ u.pending = t.pending + 1
  BY DEF CreateSubTask
<1>5. u \in TaskManagerType
  BY CreateSubTaskType
<1> HIDE DEF core, x, u
<1>6. Len(u.bufs[core]) = n + 1
  BY <1>1, <1>2, <1>3, <1>4
<1>7. \A c \in Core : c # core => u.bufs[c] = t.bufs[c]
  BY <1>3, <1>4
<1>8. ASSUME NEW p PROVE p \in Places(u) <=> p \in Places(t) \cup {<<core, n + 1>>}
  <2>1. ASSUME NEW c \in Core, NEW i
        PROVE  i \in 1 .. Len(u.bufs[c]) <=> i \in 1 .. Len(t.bufs[c]) \/ (c = core /\ i = n + 1)
    BY <1>3, <1>6, <1>7
  <2>2. p \in Places(u) <=> \E c \in Core : \E i \in 1 .. Len(u.bufs[c]) : p = <<c, i>>
    BY <1>5, InPlaces
  <2>3. p \in Places(t) <=> \E c \in Core : \E i \in 1 .. Len(t.bufs[c]) : p = <<c, i>>
    BY InPlaces
  <2>4. QED
    BY <1>1, <2>1, <2>2, <2>3
<1>9. Places(u) = Places(t) \cup {<<core, n + 1>>}
  BY <1>8
<1>10. <<core, n + 1>> \notin Places(t)
  BY <1>3, InPlaces
<1>11. IsFiniteSet(Places(u)) /\ Cardinality(Places(u)) = Cardinality(Places(t)) + 1
  BY <1>9, <1>10, FS_AddElement DEF Counted
<1>12. Counted(u)
  BY <1>4, <1>11 DEF Counted
<1>13. QED
  BY <1>12 DEF u

LEMMA ScheduleExecCounted ==
  ASSUME NEW t \in TaskManagerType, NEW m \in Mssg, NEW s \in Slot, NEW l \in Nat, Counted(t)
  PROVE  Counted(ScheduleExec(t, m, s, l))
<1>1. CASE s \in t.using
  <2> DEFINE u == ScheduleExec(t, m, s, l)
  <2>1. u.bufs = t.bufs /\ u.pending = t.pending
    BY <1>1 DEF ScheduleExec, TaskManagerType
  <2>2. QED
    BY <2>1 DEF Counted, Places
<1>2. CASE s \notin t.using
  BY <1>2, CreateSubTaskCounted DEF ScheduleExec
<1>3. QED
  BY <1>1, <1>2

LEMMA CheckQueuedExecutionCounted ==
  ASSUME NEW t \in TaskManagerType, NEW s \in Slot, NEW l \in Nat, Counted(t)
  PROVE  Counted(CheckQueuedExecution(t, s, l))
<1>1. CASE t.tuples[s] # <<>>
  <2> DEFINE u == [t EXCEPT !.tuples = [t.tuples EXCEPT ![s] = Tail(@)]]
  <2>1. [t.tuples EXCEPT ![s] = Tail(@)] \in [Slot -> Seq(Mssg)] /\ Head(t.tuples[s]) \in Mssg
    BY <1>1 DEF TaskManagerType
  <2>2. u \in TaskManagerType
    BY <2>1 DEF TaskManagerType
  <2>3. u.bufs = t.bufs /\ u.pending = t.pending
    BY DEF TaskManagerType
  <2>4. CheckQueuedExecution(t, s, l) = CreateSubTask(u, Head(t.tuples[s]), s, l)
    BY <1>1 DEF CheckQueuedExecution
  <2> HIDE DEF u
  <2>5. Counted(u)
    BY <2>3 DEF Counted, Places
  <2>6. QED
    BY <2>1, <2>2, <2>4, <2>5, CreateSubTaskCounted
<1>2. CASE t.tuples[s] = <<>>
  BY <1>2 DEF CheckQueuedExecution
<1>3. QED
  BY <1>1, <1>2

LEMMA ElapseCounted ==
  ASSUME NEW t \in TaskManagerType, NEW e \in Nat, NEW recent, Counted(t)
  PROVE  Counted(Elapse(t, e, recent))
<1> DEFINE u == Elapse(t, e, recent)
<1>1. u \in TaskManagerType /\ \A c \in Core : Len(u.bufs[c]) = Len(t.bufs[c])
  BY ElapseType, ElapseSlots
<1>2. u.pending = t.pending
  BY DEF Elapse, TaskManagerType
<1> HIDE DEF u
<1>3. Counted(u)
  BY <1>1, <1>2, SamePlaces
<1>4. QED
  BY <1>3 DEF u

(* Each core that finishes gives up the last of its places, and pending_execs_ *)
(* goes down once for each of them.                                            *)
LEMMA TerminateCounted ==
  ASSUME NEW t \in TaskManagerType, Counted(t)
  PROVE  Counted(TerminateActiveExecutions(t))
<1> DEFINE u    == TerminateActiveExecutions(t)
           done == Finishing(t)
           gone == {<<c, Len(t.bufs[c])>> : c \in done}
<1>1. u \in TaskManagerType
  BY TerminateType
<1>2. u.pending = t.pending - Cardinality(done)
  BY DEF TerminateActiveExecutions
<1>3. done \subseteq Core /\ \A c \in done : t.bufs[c] # <<>>
  BY DEF Finishing, Busy
<1>4. \A c \in Core : t.bufs[c] \in Seq(SubtaskType) /\ Len(t.bufs[c]) \in Nat
  BY DEF TaskManagerType
<1>5. \A c \in done : Len(t.bufs[c]) > 0 /\ Len(u.bufs[c]) = Len(t.bufs[c]) - 1
  <2>1. ASSUME NEW c \in done PROVE Len(t.bufs[c]) > 0 /\ Len(u.bufs[c]) = Len(t.bufs[c]) - 1
    <3>1. u.bufs[c] = Tail(t.bufs[c])
      BY <1>3 DEF TerminateActiveExecutions, Remaining
    <3> HIDE DEF u
    <3>2. QED
      BY <1>3, <1>4, <3>1
  <2>2. QED
    BY <2>1
<1>6. \A c \in Core : c \notin done => Len(u.bufs[c]) = Len(t.bufs[c])
  <2>1. ASSUME NEW c \in Core, c \notin done, c \in Busy(t) PROVE Len(u.bufs[c]) = Len(t.bufs[c])
    <3>1. u.bufs[c] = RunActive(t, c, LessExecTime(t))
      BY <2>1 DEF TerminateActiveExecutions
    <3> HIDE DEF u
    <3>2. QED
      BY <2>1, <3>1, FinishingProperties, RunActiveType
  <2>2. ASSUME NEW c \in Core, c \notin done, c \notin Busy(t) PROVE Len(u.bufs[c]) = Len(t.bufs[c])
    BY <2>2 DEF TerminateActiveExecutions
  <2>3. QED
    BY <2>1, <2>2
<1> HIDE DEF u, done
<1>7. ASSUME NEW p PROVE p \in Places(t) <=> p \in Places(u) \cup gone
  <2>1. ASSUME NEW c \in Core, NEW i
        PROVE  i \in 1 .. Len(t.bufs[c])
                 <=> i \in 1 .. Len(u.bufs[c]) \/ (c \in done /\ i = Len(t.bufs[c]))
    BY <1>4, <1>5, <1>6
  <2>2. p \in Places(u) <=> \E c \in Core : \E i \in 1 .. Len(u.bufs[c]) : p = <<c, i>>
    BY <1>1, InPlaces
  <2>3. p \in Places(t) <=> \E c \in Core : \E i \in 1 .. Len(t.bufs[c]) : p = <<c, i>>
    BY InPlaces
  <2>4. QED
    BY <1>3, <2>1, <2>2, <2>3
<1>8. Places(t) = Places(u) \cup gone
  BY <1>7
<1>9. Places(u) \cap gone = {}
  <2>1. ASSUME NEW c \in done, <<c, Len(t.bufs[c])>> \in Places(u) PROVE FALSE
    <3>1. PICK d \in Core : \E i \in 1 .. Len(u.bufs[d]) : <<c, Len(t.bufs[c])>> = <<d, i>>
      BY <1>1, <2>1, InPlaces
    <3>2. Len(t.bufs[c]) \in 1 .. Len(u.bufs[c])
      BY <3>1
    <3>3. QED
      BY <1>3, <1>4, <1>5, <3>2
  <2>2. QED
    BY <2>1
<1>10. IsFiniteSet(done)
  BY <1>3, CoreFinite, FS_Subset
<1>11. IsFiniteSet(gone) /\ Cardinality(gone) = Cardinality(done)
  <2> DEFINE last == [c \in done |-> <<c, Len(t.bufs[c])>>]
  <2>1. last \in Bijection(done, gone)
    BY DEF Bijection, Injection, Surjection, IsInjective
  <2>2. QED
    BY <1>10, <2>1, FS_Bijection DEF ExistsBijection
<1>12. IsFiniteSet(Places(u))
  BY <1>8, FS_Subset DEF Counted
<1> HIDE DEF gone
<1>13. Cardinality(Places(t)) = Cardinality(Places(u)) + Cardinality(gone) - Cardinality({})
  BY <1>8, <1>9, <1>11, <1>12, FS_Union
<1>14. Cardinality({}) = 0 /\ Cardinality(Places(u)) \in Nat /\ Cardinality(done) \in Nat
  BY <1>10, <1>12, FS_EmptySet, FS_CardinalityType
<1>15. Counted(u)
  BY <1>2, <1>11, <1>12, <1>13, <1>14 DEF Counted
<1>16. QED
  BY <1>15 DEF u
-----------------------------------------------------------------------------
(* The task managers of a node that uses only some of the slots, those of D: *)
(* the ones that operators were deployed to.                                 *)
SubtaskOn(D) == [mssg : Mssg, slot : D, lapse : Nat]

OnSlots(t, D) ==
  /\ t.bufs \in [Core -> Seq(SubtaskOn(D))]
  /\ \A s \in Slot : t.tuples[s] # <<>> => s \in D

Manager(D) == {t \in TaskManagerType : Counted(t) /\ OnSlots(t, D)}

LEMMA NewManager ==
  ASSUME NEW D \in SUBSET Slot
  PROVE  NewTaskManager \in Manager(D) /\ Busy(NewTaskManager) = {}
<1> DEFINE t == NewTaskManager
<1>1. t \in TaskManagerType
  BY DEF NewTaskManager, TaskManagerType
<1>2. \A c \in Core : t.bufs[c] = <<>>
  BY DEF NewTaskManager
<1>3. Counted(t)
  <2>1. Places(t) = {} /\ t.pending = 0
    BY <1>2 DEF Places, NewTaskManager
  <2>2. QED
    BY <2>1, FS_EmptySet DEF Counted
<1>4. OnSlots(t, D)
  BY DEF OnSlots, NewTaskManager
<1>5. Busy(t) = {}
  BY <1>2 DEF Busy
<1>6. QED
  BY <1>1, <1>3, <1>4, <1>5 DEF Manager

LEMMA CreateSubTaskOnSlots ==
  ASSUME NEW D \in SUBSET Slot, NEW t \in TaskManagerType, OnSlots(t, D),
         NEW m \in Mssg, NEW s \in D, NEW l \in Nat
  PROVE  OnSlots(CreateSubTask(t, m, s, l), D)
<1>1. LessLoaded(t) \in Core
  BY LessLoadedExists
<1>2. Subtask(m, s, l) \in SubtaskOn(D)
  BY DEF Subtask, SubtaskOn
<1>3. [t.bufs EXCEPT ![LessLoaded(t)] = Append(@, Subtask(m, s, l))]
        \in [Core -> Seq(SubtaskOn(D))]
  BY <1>1, <1>2 DEF OnSlots
<1>4. QED
  BY <1>3 DEF CreateSubTask, OnSlots

LEMMA ScheduleExecManager ==
  ASSUME NEW D \in SUBSET Slot, NEW t \in Manager(D), NEW m \in Mssg, NEW s \in D, NEW l \in Nat
  PROVE  ScheduleExec(t, m, s, l) \in Manager(D)
<1>1. t \in TaskManagerType /\ Counted(t) /\ OnSlots(t, D) /\ s \in Slot
  BY DEF Manager
<1>2. ScheduleExec(t, m, s, l) \in TaskManagerType /\ Counted(ScheduleExec(t, m, s, l))
  BY <1>1, ScheduleExecType, ScheduleExecCounted
<1>3. OnSlots(ScheduleExec(t, m, s, l), D)
  <2> DEFINE u == [t EXCEPT !.tuples = [t.tuples EXCEPT ![s] = Append(@, m)]]
  <2>1. CASE s \in t.using
    <3>1. u.bufs = t.bufs /\ \A r \in Slot \ {s} : u.tuples[r] = t.tuples[r]
      BY <1>1 DEF TaskManagerType
    <3>2. OnSlots(u, D)
      BY <1>1, <3>1 DEF OnSlots
    <3>3. QED
      BY <2>1, <3>2 DEF ScheduleExec
  <2>2. CASE s \notin t.using
    BY <1>1, <2>2, CreateSubTaskOnSlots DEF ScheduleExec
  <2>3. QED
    BY <2>1, <2>2
<1>4. QED
  BY <1>2, <1>3 DEF Manager

LEMMA CheckQueuedExecutionManager ==
  ASSUME NEW D \in SUBSET Slot, NEW t \in Manager(D), NEW s \in Slot, NEW l,
         t.tuples[s] # <<>> => l \in Nat
  PROVE  CheckQueuedExecution(t, s, l) \in Manager(D)
<1>1. t \in TaskManagerType /\ Counted(t) /\ OnSlots(t, D)
  BY DEF Manager
<1>2. CASE t.tuples[s] = <<>>
  BY <1>2 DEF CheckQueuedExecution
<1>3. CASE t.tuples[s] # <<>>
  <2> DEFINE u == [t EXCEPT !.tuples = [t.tuples EXCEPT ![s] = Tail(@)]]
  <2>1. l \in Nat /\ s \in D
    BY <1>1, <1>3 DEF OnSlots
  <2>2. [t.tuples EXCEPT ![s] = Tail(@)] \in [Slot -> Seq(Mssg)] /\ Head(t.tuples[s]) \in Mssg
    BY <1>1, <1>3 DEF TaskManagerType
  <2>3. u \in TaskManagerType /\ u.bufs = t.bufs
        /\ \A r \in Slot \ {s} : u.tuples[r] = t.tuples[r]
    BY <1>1, <2>2 DEF TaskManagerType
  <2>4. OnSlots(u, D)
    BY <1>1, <2>1, <2>3 DEF OnSlots
  <2>5. OnSlots(CreateSubTask(u, Head(t.tuples[s]), s, l), D)
    <3> HIDE DEF u
    <3>1. QED
      BY <2>1, <2>2, <2>3, <2>4, CreateSubTaskOnSlots
  <2>6. CheckQueuedExecution(t, s, l) = CreateSubTask(u, Head(t.tuples[s]), s, l)
    BY <1>3 DEF CheckQueuedExecution
  <2>7. QED
    BY <1>1, <2>1, <2>5, <2>6, CheckQueuedExecutionType, CheckQueuedExecutionCounted DEF Manager
<1>4. QED
  BY <1>2, <1>3

(* The buffer of a busy core that has run e further stays on those slots.    *)
LEMMA RunActiveOnSlots ==
  ASSUME NEW D \in SUBSET Slot, NEW t \in TaskManagerType, OnSlots(t, D),
         NEW c \in Busy(t), NEW e \in Nat, e <= ActiveOn(t, c).lapse
  PROVE  RunActive(t, c, e) \in Seq(SubtaskOn(D))
<1> DEFINE first == t.bufs[c][1]
           ran   == [first EXCEPT !.lapse = @ - e]
<1>1. 1 \in 1 .. Len(t.bufs[c]) /\ t.bufs[c] \in Seq(SubtaskOn(D))
  BY DEF Busy, TaskManagerType, OnSlots
<1>2. first \in SubtaskOn(D)
  BY <1>1
<1>3. first.lapse - e \in Nat
  BY <1>2 DEF ActiveOn, SubtaskOn
<1>4. ran \in SubtaskOn(D)
  BY <1>2, <1>3 DEF SubtaskOn
<1>5. RunActive(t, c, e) = [t.bufs[c] EXCEPT ![1] = ran]
  BY DEF RunActive, ActiveOn
<1> HIDE DEF ran
<1>6. QED
  BY <1>1, <1>4, <1>5, ExceptSeq

LEMMA ElapseManager ==
  ASSUME NEW D \in SUBSET Slot, NEW t \in Manager(D), NEW e \in Nat, NEW recent
  PROVE  Elapse(t, e, recent) \in Manager(D)
<1> DEFINE u == Elapse(t, e, recent)
<1>1. t \in TaskManagerType /\ Counted(t) /\ OnSlots(t, D)
  BY DEF Manager
<1>2. u \in TaskManagerType /\ Counted(u)
  BY <1>1, ElapseType, ElapseCounted
<1>3. u.tuples = t.tuples /\ DOMAIN u.bufs = Core
  BY <1>1, <1>2 DEF Elapse, TaskManagerType
<1>4. ASSUME NEW c \in Core
      PROVE  u.bufs[c] \in Seq(SubtaskOn(D))
  <2>1. \/ u.bufs[c] = t.bufs[c]
        \/ c \in Busy(t) /\ ActiveOn(t, c).lapse >= e /\ u.bufs[c] = RunActive(t, c, e)
    BY <1>1 DEF Elapse, TaskManagerType
  <2>2. CASE u.bufs[c] = t.bufs[c]
    BY <1>1, <2>2 DEF OnSlots
  <2>3. CASE c \in Busy(t) /\ ActiveOn(t, c).lapse >= e /\ u.bufs[c] = RunActive(t, c, e)
    <3>1. ActiveOn(t, c) \in SubtaskType
      BY <1>1, <2>3, FinishingProperties
    <3>2. e <= ActiveOn(t, c).lapse
      BY <2>3, <3>1 DEF SubtaskType
    <3>3. QED
      BY <1>1, <2>3, <3>2, RunActiveOnSlots
  <2>4. QED
    BY <2>1, <2>2, <2>3
<1>5. u.bufs \in [Core -> Seq(SubtaskOn(D))]
  <2>1. u.bufs \in [Core -> Seq(SubtaskType)]
    BY <1>2 DEF TaskManagerType
  <2> HIDE DEF u
  <2>2. QED
    BY <1>4, <2>1
<1> HIDE DEF u
<1>6. OnSlots(u, D)
  BY <1>1, <1>3, <1>5 DEF OnSlots
<1>7. QED
  BY <1>2, <1>6 DEF Manager, u

LEMMA TerminateManager ==
  ASSUME NEW D \in SUBSET Slot, NEW t \in Manager(D)
  PROVE  TerminateActiveExecutions(t) \in Manager(D)
<1> DEFINE u == TerminateActiveExecutions(t)
<1>1. t \in TaskManagerType /\ Counted(t) /\ OnSlots(t, D)
  BY DEF Manager
<1>2. u \in TaskManagerType /\ Counted(u)
  BY <1>1, TerminateType, TerminateCounted
<1>3. u.tuples = t.tuples
  BY DEF TerminateActiveExecutions
<1>4. ASSUME NEW c \in Core
      PROVE  u.bufs[c] \in Seq(SubtaskOn(D))
  <2>1. t.bufs[c] \in Seq(SubtaskOn(D))
    BY <1>1 DEF OnSlots
  <2>2. CASE c \in Finishing(t)
    <3>1. t.bufs[c] # <<>>
      BY <2>2 DEF Finishing, Busy
    <3>2. u.bufs[c] = Tail(t.bufs[c])
      BY <2>2 DEF TerminateActiveExecutions, Remaining
    <3>3. QED
      BY <2>1, <3>1, <3>2
  <2>3. CASE c \notin Finishing(t) /\ c \in Busy(t)
    <3>1. u.bufs[c] = RunActive(t, c, LessExecTime(t))
      BY <2>3 DEF TerminateActiveExecutions
    <3>2. LessExecTime(t) \in Nat /\ LessExecTime(t) <= ActiveOn(t, c).lapse
      BY <1>1, <2>3, FinishingProperties
    <3>3. QED
      BY <1>1, <2>3, <3>1, <3>2, RunActiveOnSlots
  <2>4. CASE c \notin Finishing(t) /\ c \notin Busy(t)
    <3>1. u.bufs[c] = t.bufs[c]
      BY <2>4 DEF TerminateActiveExecutions
    <3>2. QED
      BY <2>1, <3>1
  <2>5. QED
    BY <2>2, <2>3, <2>4
<1>5. u.bufs \in [Core -> Seq(SubtaskOn(D))]
  <2>1. u.bufs \in [Core -> Seq(SubtaskType)]
    BY <1>2 DEF TaskManagerType
  <2> HIDE DEF u
  <2>2. QED
    BY <1>4, <2>1
<1> HIDE DEF u
<1>6. OnSlots(u, D)
  BY <1>1, <1>3, <1>5 DEF OnSlots
<1>7. QED
  BY <1>2, <1>6 DEF Manager, u

(* Where no execution is pending, no core is busy. *)
LEMMA NothingPending ==
  ASSUME NEW t \in TaskManagerType, Counted(t), t.pending = 0
  PROVE  Busy(t) = {}
<1>1. Places(t) = {}
  BY FS_EmptySet DEF Counted
<1>2. ASSUME NEW c \in Busy(t)
      PROVE  FALSE
  <2>1. c \in Core /\ t.bufs[c] \in Seq(SubtaskType) /\ t.bufs[c] # <<>>
    BY DEF Busy, TaskManagerType
  <2>2. 1 \in DOMAIN t.bufs[c]
    BY <2>1
  <2>3. <<c, 1>> \in Places(t)
    BY <2>1, <2>2 DEF Places
  <2>4. QED
    BY <1>1, <2>3
<1>3. QED
  BY <1>2
=============================================================================
