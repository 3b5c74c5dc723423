----------------------------- MODULE QueueProofs -----------------------------
(***************************************************************************)
(* Theorems about the queues of the nodes and of the switch.               *)
(*                                                                         *)
(* Buffers: for any number of cores, any length of the buffers, any        *)
(* initial capacity of at least two and any core whose storage is          *)
(* followed.  The vector of the active subtasks and the storage of the     *)
(* buffer each have an invariant of their own; that the two count the same *)
(* subtasks links them.                                                    *)
(*                                                                         *)
(* SwitchEvents: for any messages, bags and transmission times, and for as *)
(* many nodes as the counter of pending sends can count.                   *)
(***************************************************************************)
EXTENDS Buffers, SwitchEvents, DataLemmas
-----------------------------------------------------------------------------
(* The vector of the active subtasks.                                      *)

(* What the removal of place i leaves at each place. *)
LEMMA RemovedElements ==
  ASSUME actives \in Seq(Core), NEW i \in 1 .. Len(actives)
  PROVE  /\ Removed(i) \in Seq(Core)
         /\ Len(Removed(i)) = Len(actives) - 1
         /\ \A j \in 1 .. Len(actives) - 1 :
              Removed(i)[j] = IF j = i THEN actives[Len(actives)] ELSE actives[j]
<1> DEFINE n == Len(actives)
           a == [actives EXCEPT ![i] = actives[n]]
<1>1. n \in Nat /\ n >= 1 /\ actives[n] \in Core
  OBVIOUS
<1>2. a \in Seq(Core) /\ Len(a) = n
  BY <1>1
<1>3. \A j \in 1 .. n : a[j] = IF j = i THEN actives[n] ELSE actives[j]
  BY <1>1
<1>4. Removed(i) = SubSeq(a, 1, n - 1)
  BY DEF Removed
<1> HIDE DEF a
<1>5. /\ SubSeq(a, 1, n - 1) \in Seq(Core)
      /\ Len(SubSeq(a, 1, n - 1)) = n - 1
      /\ \A j \in 1 .. n - 1 : SubSeq(a, 1, n - 1)[j] = a[j]
  BY <1>1, <1>2
<1>6. QED
  BY <1>3, <1>4, <1>5

(* Under its invariant, no core is twice in the vector. *)
LEMMA ActiveInjective ==
  ASSUME VectorType, IndexExact, NEW i \in 1 .. Len(actives), NEW j \in 1 .. Len(actives),
         actives[i] = actives[j]
  PROVE  i = j
<1>1. idx[actives[i]] = i - 1 /\ idx[actives[j]] = j - 1
  BY DEF IndexExact
<1>2. QED
  BY <1>1

LEMMA VectorInitInv == VectorInit => VectorType /\ ActiveInv
<1>1. SUFFICES ASSUME VectorInit
               PROVE  VectorType /\ ActiveInv
  OBVIOUS
<1>2. actives = <<>> /\ size = [c \in Core |-> 0] /\ ended = {}
  BY <1>1 DEF VectorInit
<1>3. VectorType
  BY <1>1, NCoresAssumption DEF VectorInit, VectorType
<1>4. Busy = {}
  BY <1>2 DEF Busy
<1>5. QED
  BY <1>2, <1>3, <1>4 DEF ActiveInv, IndexExact, ActiveBusy, EndedBusy

LEMMA CreateInv ==
  ASSUME VectorType, ActiveInv, NEW core \in Core, CreateSubTask(core)
  PROVE  VectorType' /\ ActiveInv'
<1>1. /\ size' = [size EXCEPT ![core] = size[core] + 1] /\ at' = at /\ ended' = ended
      /\ size \in [Core -> Nat] /\ at = NCores
  BY DEF CreateSubTask, VectorType, Idle
<1>2. EndedBusy'
  <2>1. \A c \in Core : ~(NCores <= c)
    BY NCoresAssumption DEF Core
  <2>2. ended = {}
    BY <1>1, <2>1 DEF ActiveInv, EndedBusy, VectorType
  <2>3. QED
    BY <1>1, <2>2 DEF EndedBusy
<1>3. size' \in [Core -> Nat]
  BY <1>1
<1>4. Busy' = Busy \cup {core}
  BY <1>1 DEF Busy
<1>5. CASE size[core] = 0
  <2>1. /\ idx' = [idx EXCEPT ![core] = Len(actives)]
        /\ actives' = Append(actives, core)
    BY <1>5 DEF CreateSubTask, IndexAtEnd
  <2> DEFINE n == Len(actives)
  <2>2. actives \in Seq(Core) /\ n \in Nat /\ idx \in [Core -> Nat]
    BY DEF VectorType
  <2>3. /\ actives' \in Seq(Core) /\ Len(actives') = n + 1
        /\ actives'[n + 1] = core
        /\ \A j \in 1 .. n : actives'[j] = actives[j]
    BY <2>1, <2>2
  <2>4. \A j \in 1 .. n : actives[j] # core /\ actives[j] \in Core
    BY <1>5, <2>2 DEF ActiveInv, ActiveBusy, Busy
  <2>5. IndexExact'
    <3>1. SUFFICES ASSUME NEW j \in 1 .. n + 1
                   PROVE  idx'[actives'[j]] = j - 1
      BY <2>3 DEF IndexExact
    <3>2. CASE j = n + 1
      BY <3>2, <2>1, <2>2, <2>3
    <3>3. CASE j \in 1 .. n
      BY <3>3, <2>1, <2>2, <2>3, <2>4 DEF ActiveInv, IndexExact
    <3>4. QED
      BY <2>2, <3>2, <3>3
  <2>6. ActiveBusy'
    <3>1. \A j \in 1 .. n + 1 : j = n + 1 \/ j \in 1 .. n
      BY <2>2
    <3>2. {actives'[j] : j \in 1 .. n + 1} = {actives[j] : j \in 1 .. n} \cup {core}
      BY <2>2, <2>3, <3>1
    <3>3. QED
      BY <1>4, <2>3, <3>2 DEF ActiveInv, ActiveBusy
  <2>7. QED
    BY <1>1, <1>2, <1>3, <2>1, <2>2, <2>3, <2>5, <2>6 DEF VectorType, ActiveInv
<1>6. CASE size[core] # 0
  <2>1. idx' = idx /\ actives' = actives
    BY <1>6 DEF CreateSubTask
  <2>2. core \in Busy
    BY <1>1, <1>6 DEF Busy
  <2>3. QED
    BY SMTT(40), <1>1, <1>2, <1>3, <1>4, <2>1, <2>2 DEF VectorType, ActiveInv, IndexExact, ActiveBusy
<1>7. QED
  BY <1>5, <1>6

LEMMA FinishInv ==
  ASSUME VectorType, ActiveInv, NEW core \in Core, Finish(core)
  PROVE  VectorType' /\ ActiveInv'
<1> DEFINE n    == Len(actives)
           i    == idx[core] + 1
           rest == Removed(i)
           idx1 == Reindexed(core)
<1>1. /\ actives \in Seq(Core) /\ n \in Nat /\ idx \in [Core -> Nat] /\ size \in [Core -> Nat]
      /\ at = core /\ core \in ended /\ ended' = ended \ {core} /\ at' = at + 1
      /\ ended \subseteq Core
      /\ size' = [size EXCEPT ![core] = size[core] - 1]
  BY DEF VectorType, Finish
<1>2. size[core] > 0 /\ core \in Busy
  BY <1>1, NCoresAssumption DEF ActiveInv, EndedBusy, Busy, Core
<1>3. i \in 1 .. n /\ actives[i] = core
  <2>1. PICK k \in 1 .. n : actives[k] = core
    BY <1>2 DEF ActiveInv, ActiveBusy
  <2>2. idx[core] = k - 1
    BY <2>1 DEF ActiveInv, IndexExact
  <2>3. QED
    BY <1>1, <2>1, <2>2
<1>4. n >= 1 /\ n \in 1 .. n /\ actives[n] \in Core
  BY <1>1, <1>3
<1>5. /\ rest \in Seq(Core) /\ Len(rest) = n - 1
      /\ \A j \in 1 .. n - 1 : rest[j] = IF j = i THEN actives[n] ELSE actives[j]
  BY <1>1, <1>3, RemovedElements
<1>6. idx1 \in [Core -> Nat]
  BY <1>1, <1>4 DEF Reindexed
<1>7. IF size[core] > 1
      THEN idx' = [idx1 EXCEPT ![core] = Len(rest)] /\ actives' = Append(rest, core)
      ELSE idx' = idx1 /\ actives' = rest
  BY DEF Finish, IndexAtEnd
<1> HIDE DEF rest
<1>8. \A j \in 1 .. n - 1 : rest[j] # core /\ rest[j] \in Core /\ idx1[rest[j]] = j - 1
  <2>1. SUFFICES ASSUME NEW j \in 1 .. n - 1
                 PROVE  rest[j] # core /\ rest[j] \in Core /\ idx1[rest[j]] = j - 1
    OBVIOUS
  <2>2. j \in 1 .. n /\ j # n
    BY <1>1
  <2>3. CASE j = i
    <3>1. rest[j] = actives[n] /\ i # n
      BY <1>5, <2>2, <2>3
    <3>2. actives[n] # core
      BY <1>3, <1>4, <3>1, ActiveInjective DEF ActiveInv
    <3>3. idx1[actives[n]] = idx[core]
      BY <1>1, <1>4, <3>1 DEF Reindexed
    <3>4. QED
      BY SMTT(40), <1>1, <1>4, <2>3, <3>1, <3>2, <3>3
  <2>4. CASE j # i
    <3>1. rest[j] = actives[j] /\ actives[j] \in Core
      BY <1>1, <1>5, <2>2, <2>4
    <3>2. actives[j] # core
      BY <1>3, <2>2, <2>4, ActiveInjective DEF ActiveInv
    <3>3. actives[j] # actives[n]
      BY <1>4, <2>2, ActiveInjective DEF ActiveInv
    <3>4. idx1[actives[j]] = idx[actives[j]]
      BY <1>1, <3>1, <3>3 DEF Reindexed
    <3>5. idx[actives[j]] = j - 1
      BY <2>2 DEF ActiveInv, IndexExact
    <3>6. QED
      BY <3>1, <3>2, <3>4, <3>5
  <2>5. QED
    BY <2>3, <2>4
<1>9. {rest[j] : j \in 1 .. n - 1} = Busy \ {core}
  <2>1. \A j \in 1 .. n - 1 : rest[j] \in Busy \ {core}
    <3>1. \A j \in 1 .. n : actives[j] \in Busy
      BY DEF ActiveInv, ActiveBusy
    <3>2. \A j \in 1 .. n - 1 : j \in 1 .. n
      BY <1>1
    <3>3. QED
      BY <1>4, <1>5, <1>8, <3>1, <3>2
  <2>2. ASSUME NEW c \in Busy \ {core}
        PROVE  \E j \in 1 .. n - 1 : rest[j] = c
    <3>1. PICK k \in 1 .. n : actives[k] = c
      BY DEF ActiveInv, ActiveBusy
    <3>2. k # i
      BY <1>3, <3>1
    <3>3. CASE k = n
      <4>1. i \in 1 .. n - 1
        BY <1>1, <1>3, <3>2, <3>3
      <4>2. rest[i] = c
        BY <1>5, <3>1, <3>3, <4>1
      <4>3. QED
        BY <4>1, <4>2
    <3>4. CASE k # n
      <4>1. k \in 1 .. n - 1
        BY <1>1, <3>4
      <4>2. rest[k] = c
        BY <1>5, <3>1, <3>2, <4>1
      <4>3. QED
        BY <4>1, <4>2
    <3>5. QED
      BY <3>3, <3>4
  <2>3. QED
    BY <2>1, <2>2
<1>10. EndedBusy' /\ at' \in 0 .. NCores /\ size' \in [Core -> Nat]
  <2>1. \A c \in ended' : c \in Core \ {core} /\ at + 1 <= c /\ size[c] > 0
    BY <1>1, NCoresAssumption DEF ActiveInv, EndedBusy, Core
  <2>2. \A c \in Core \ {core} : size'[c] = size[c]
    BY <1>1
  <2>3. size' \in [Core -> Nat]
    BY <1>1, <1>2
  <2>4. at + 1 \in 0 .. NCores
    BY <1>1, NCoresAssumption DEF Core
  <2>5. EndedBusy'
    BY <1>1, <2>1, <2>2 DEF EndedBusy
  <2>6. QED
    BY <1>1, <2>3, <2>4, <2>5
<1> HIDE DEF idx1
<1>11. CASE size[core] > 1
  <2>1. idx' = [idx1 EXCEPT ![core] = n - 1] /\ actives' = Append(rest, core)
    BY <1>5, <1>7, <1>11
  <2>2. /\ actives' \in Seq(Core) /\ Len(actives') = n
        /\ actives'[n] = core
        /\ \A j \in 1 .. n - 1 : actives'[j] = rest[j]
    BY <1>1, <1>4, <1>5, <2>1
  <2>3. idx' \in [Core -> Nat]
    BY <1>1, <1>4, <1>6, <2>1
  <2>4. IndexExact'
    <3>1. SUFFICES ASSUME NEW j \in 1 .. n
                   PROVE  idx'[actives'[j]] = j - 1
      BY <2>2 DEF IndexExact
    <3>2. CASE j = n
      BY <3>2, <1>6, <2>1, <2>2
    <3>3. CASE j \in 1 .. n - 1
      BY <3>3, <1>6, <1>8, <2>1, <2>2
    <3>4. QED
      BY <1>1, <3>2, <3>3
  <2>5. Busy' = Busy
    BY <1>1, <1>2, <1>11 DEF Busy
  <2>6. {actives'[j] : j \in 1 .. n} = {rest[j] : j \in 1 .. n - 1} \cup {core}
    <3>1. \A j \in 1 .. n : j = n \/ j \in 1 .. n - 1
      BY <1>1
    <3>2. \A j \in 1 .. n - 1 : j \in 1 .. n
      BY <1>1
    <3>3. QED
      BY <1>4, <2>2, <3>1, <3>2
  <2>7. ActiveBusy'
    BY <1>2, <1>9, <2>2, <2>5, <2>6 DEF ActiveBusy
  <2>8. QED
    BY <1>1, <1>10, <2>2, <2>3, <2>4, <2>7 DEF VectorType, ActiveInv
<1>12. CASE ~(size[core] > 1)
  <2>1. idx' = idx1 /\ actives' = rest
    BY <1>7, <1>12
  <2>2. IndexExact'
    BY <1>5, <1>8, <2>1 DEF IndexExact
  <2>3. Busy' = Busy \ {core}
    BY <1>1, <1>2, <1>12 DEF Busy
  <2>4. ActiveBusy'
    BY <1>5, <1>9, <2>1, <2>3 DEF ActiveBusy
  <2>5. QED
    BY <1>1, <1>5, <1>6, <1>10, <2>1, <2>2, <2>4 DEF VectorType, ActiveInv
<1>13. QED
  BY <1>11, <1>12

LEMMA BeginInv ==
  ASSUME VectorType, ActiveInv, NEW S \in SUBSET Busy, Begin(S)
  PROVE  VectorType' /\ ActiveInv'
<1>1. /\ size' = size /\ actives' = actives /\ idx' = idx /\ at' = 0 /\ ended' = S
  BY DEF Begin
<1>2. S \subseteq Core /\ \A c \in S : 0 <= c /\ size[c] > 0
  BY NCoresAssumption DEF Busy, Core
<1>3. QED
  BY <1>1, <1>2, NCoresAssumption DEF VectorType, ActiveInv, IndexExact, ActiveBusy, EndedBusy, Busy

LEMMA SkipInv ==
  ASSUME VectorType, ActiveInv, NEW core \in Core, Skip(core)
  PROVE  VectorType' /\ ActiveInv'
<1>1. /\ size' = size /\ actives' = actives /\ idx' = idx /\ ended' = ended
      /\ at = core /\ at' = at + 1 /\ core \notin ended
  BY DEF Skip
<1>2. at' \in 0 .. NCores
  BY <1>1, NCoresAssumption DEF Core
<1>3. EndedBusy'
  BY <1>1, NCoresAssumption DEF VectorType, ActiveInv, EndedBusy, Core
<1>4. QED
  BY <1>1, <1>2, <1>3 DEF VectorType, ActiveInv, IndexExact, ActiveBusy, Busy
-----------------------------------------------------------------------------
(* The storage of a buffer.                                                *)

QueueInv == StorageType /\ ActiveAtFront /\ BoundedCapacity

(* An element added to a vector that has room preserves the invariant. *)
LEMMA AddInv ==
  ASSUME NEW m \in Element, NEW v \in Seq(Element), NEW c \in Nat, NEW h \in 0 .. Len(v), NEW p \in Int,
         StorageType, Len(v) < c, c >= 2, Len(v) - h = Size,
         Size > 0 => p = h,
         p \in Nat \cup {Dangling},
         c = Capacity \/ c <= 6 * (peak - 1) \/ c <= 6 * Size,
         Add(m, v, c, h, p)
  PROVE  QueueInv'
<1>1. /\ prepared' = Append(v, m) /\ cap' = c /\ head' = h
      /\ active' = IF Len(v) = h THEN h ELSE p
      /\ peak' = IF Size + 1 > peak THEN Size + 1 ELSE peak
  <2>1. Len(v) \in Nat /\ ~Moves(v, c)
    BY DEF Moves
  <2>2. CapacityAfter(v, c) = c
    BY <2>1 DEF CapacityAfter
  <2>3. QED
    BY <2>1, <2>2 DEF Add
<1>2. /\ prepared' \in Seq(Element) /\ Len(prepared') = Len(v) + 1
      /\ Size' = Size + 1 /\ Size \in Nat /\ peak \in Nat
  BY SMTT(40), <1>1 DEF Size, StorageType
<1>3. StorageType'
  BY <1>1, <1>2 DEF StorageType
<1>4. ActiveAtFront'
  BY <1>1, <1>2 DEF ActiveAtFront
<1>5. peak' \in Nat /\ peak' >= peak /\ peak' - 1 >= Size
  BY <1>1, <1>2
<1>6. BoundedCapacity'
  BY <1>1, <1>2, <1>5, CapacityAssumption DEF BoundedCapacity
<1>7. QED
  BY <1>3, <1>4, <1>6 DEF QueueInv

(* A subtask that is put in the buffer. *)
Stored(m) == Emplace(m) \/ EmplaceCompacting(m) \/ EmplaceGrowing(m)

(* Whatever an operation does to the storage, the parts of its invariant   *)
(* hold together.                                                          *)
LEMMA StorageInv ==
  ASSUME QueueInv, (\E m \in Element : Stored(m)) \/ Pop \/ UNCHANGED storageVars
  PROVE  QueueInv'
<1> USE CapacityAssumption
<1> USE DEF QueueInv
<1>0. /\ prepared \in Seq(Element) /\ cap \in Nat /\ cap >= 2 /\ head \in 0 .. Len(prepared)
      /\ active \in Nat \cup {Dangling} /\ peak \in Nat /\ Len(prepared) <= cap
      /\ Len(prepared) \in Nat /\ Size = Len(prepared) - head /\ Dangling \in Int
  BY DEF StorageType, Size, Dangling
<1>1. ASSUME NEW m \in Element, Emplace(m)
      PROVE  QueueInv'
  <2>1. Len(prepared) < cap
    BY <1>1, <1>0 DEF Emplace, Full
  <2>2. QED
    BY <1>1, <1>0, <2>1, AddInv DEF Emplace, ActiveAtFront, BoundedCapacity
<1>2. ASSUME NEW m \in Element, EmplaceCompacting(m)
      PROVE  QueueInv'
  <2>1. head > 0
    BY <1>2, <1>0 DEF EmplaceCompacting, Consumed
  <2>2. Rest \in Seq(Element) /\ Len(Rest) = Len(prepared) - head
    BY <1>0 DEF Rest
  <2>3. Len(Rest) < cap
    BY <1>0, <2>1, <2>2
  <2>4. Add(m, Rest, cap, 0, 0)
    BY <1>2 DEF EmplaceCompacting, Renewed
  <2> HIDE DEF Rest
  <2>5. /\ StorageType /\ 0 \in 0 .. Len(Rest) /\ 0 \in Int /\ 0 \in Nat \cup {Dangling}
        /\ Len(Rest) - 0 = Size
        /\ cap = Capacity \/ cap <= 6 * (peak - 1)
    BY <1>0, <2>2 DEF BoundedCapacity
  <2> HIDE DEF QueueInv
  <2>6. QED
    BY <1>0, <2>2, <2>3, <2>4, <2>5, AddInv
<1>3. ASSUME NEW m \in Element, EmplaceGrowing(m)
      PROVE  QueueInv'
  <2> DEFINE c == (3 * cap) \div 2
  <2>1. Len(prepared) = cap /\ 4 * head <= 3 * cap
    BY <1>3, <1>0 DEF EmplaceGrowing, Full, Consumed
  <2>2. c \in Nat /\ c > cap /\ 2 * c <= 3 * cap
    BY <1>0
  <2>3. Add(m, prepared, c, head, head)
    BY <1>3 DEF EmplaceGrowing, Renewed
  <2> HIDE DEF c
  <2>4. c <= 6 * Size
    BY <1>0, <2>1, <2>2
  <2>5. QED
    BY <1>0, <2>1, <2>2, <2>3, <2>4, AddInv
<1>4. CASE Pop
  BY <1>4, <1>0 DEF Pop, StorageType, ActiveAtFront, BoundedCapacity, Size
<1>5. CASE UNCHANGED storageVars
  BY <1>5 DEF storageVars, StorageType, ActiveAtFront, BoundedCapacity, Size
<1>6. QED
  BY <1>1, <1>2, <1>3, <1>4, <1>5 DEF Stored

(* What an operation makes of the number of the elements. *)
LEMMA SizeAfter ==
  ASSUME StorageType
  PROVE  /\ \A m \in Element : Stored(m) => Size' = Size + 1
         /\ Pop => Size' = Size - 1 /\ Size > 0
         /\ UNCHANGED storageVars => Size' = Size
<1>1. prepared \in Seq(Element) /\ head \in 0 .. Len(prepared) /\ Len(prepared) \in Nat
  BY DEF StorageType
<1>2. ASSUME NEW m \in Element, Emplace(m) \/ EmplaceGrowing(m)
      PROVE  Size' = Size + 1
  <2>1. prepared' = Append(prepared, m) /\ head' = head
    BY <1>2 DEF Emplace, EmplaceGrowing, Add
  <2>2. Len(prepared') = Len(prepared) + 1
    BY <1>1, <2>1, AppendProperties
  <2>3. QED
    BY <1>1, <2>1, <2>2 DEF Size
<1>3. ASSUME NEW m \in Element, EmplaceCompacting(m)
      PROVE  Size' = Size + 1
  <2>1. Rest \in Seq(Element) /\ Len(Rest) = Len(prepared) - head
    BY <1>1 DEF Rest
  <2>2. prepared' = Append(Rest, m) /\ head' = 0
    BY <1>3 DEF EmplaceCompacting, Add
  <2>3. Len(prepared') = Len(Rest) + 1
    BY <2>1, <2>2, AppendProperties
  <2>4. QED
    BY <1>1, <2>1, <2>2, <2>3 DEF Size
<1>4. Pop => Size' = Size - 1 /\ Size > 0
  BY <1>1 DEF Pop, Size
<1>5. UNCHANGED storageVars => Size' = Size
  BY DEF storageVars, Size
<1>6. QED
  BY <1>2, <1>3, <1>4, <1>5 DEF Stored
-----------------------------------------------------------------------------
(* The two together.                                                       *)
BuffersInv == VectorType /\ ActiveInv /\ QueueInv /\ SizesAgree

LEMMA InitInv == Init => BuffersInv
<1>1. VectorInit => VectorType /\ ActiveInv
  BY VectorInitInv
<1>2. StorageInit => QueueInv /\ Size = 0
  BY CapacityAssumption
  DEF StorageInit, QueueInv, StorageType, ActiveAtFront, BoundedCapacity, Size
<1>3. VectorInit => size[Watched] = 0
  BY WatchedAssumption DEF VectorInit
<1>4. QED
  BY <1>1, <1>2, <1>3 DEF Init, BuffersInv, SizesAgree

(* What a step makes of the storage. *)
LEMMA StorageStep ==
  ASSUME [Next]_vars
  PROVE  (\E m \in Element : Stored(m)) \/ Pop \/ UNCHANGED storageVars
BY DEF Next, Create, End, Pass, Start, Stored, vars

LEMMA StepInv ==
  ASSUME BuffersInv, [Next]_vars
  PROVE  BuffersInv'
<1>1. QueueInv'
  BY StorageInv, StorageStep DEF BuffersInv
<1>2. VectorType /\ ActiveInv /\ SizesAgree /\ StorageType /\ size \in [Core -> Nat]
  BY DEF BuffersInv, QueueInv, VectorType
<1>3. ASSUME NEW core \in Core, NEW m \in Element, Create(core, m)
      PROVE  BuffersInv'
  <2>1. VectorType' /\ ActiveInv'
    BY <1>2, <1>3, CreateInv DEF Create
  <2>2. size' = [size EXCEPT ![core] = size[core] + 1]
    BY <1>3 DEF Create, CreateSubTask
  <2>3. IF core = Watched THEN Size' = Size + 1 ELSE Size' = Size
    BY <1>2, <1>3, SizeAfter DEF Create, Stored
  <2>4. SizesAgree'
    BY <1>2, <2>2, <2>3, WatchedAssumption DEF SizesAgree
  <2>5. QED
    BY <1>1, <2>1, <2>4 DEF BuffersInv
<1>4. ASSUME NEW core \in Core, End(core)
      PROVE  BuffersInv'
  <2>1. VectorType' /\ ActiveInv'
    BY <1>2, <1>4, FinishInv DEF End
  <2>2. size' = [size EXCEPT ![core] = size[core] - 1]
    BY <1>4 DEF End, Finish
  <2>3. IF core = Watched THEN Size' = Size - 1 ELSE Size' = Size
    BY <1>2, <1>4, SizeAfter DEF End
  <2>4. SizesAgree'
    BY <1>2, <2>2, <2>3, WatchedAssumption DEF SizesAgree
  <2>5. QED
    BY <1>1, <2>1, <2>4 DEF BuffersInv
<1>5. ASSUME size' = size, UNCHANGED storageVars
      PROVE  SizesAgree'
  BY <1>2, <1>5, SizeAfter DEF SizesAgree
<1>6. ASSUME NEW core \in Core, Pass(core)
      PROVE  BuffersInv'
  <2>1. VectorType' /\ ActiveInv'
    BY <1>2, <1>6, SkipInv DEF Pass
  <2>2. SizesAgree'
    BY <1>5, <1>6 DEF Pass, Skip
  <2>3. QED
    BY <1>1, <2>1, <2>2 DEF BuffersInv
<1>7. ASSUME NEW S \in SUBSET Busy, Start(S)
      PROVE  BuffersInv'
  <2>1. VectorType' /\ ActiveInv'
    BY <1>2, <1>7, BeginInv DEF Start
  <2>2. SizesAgree'
    BY <1>5, <1>7 DEF Start, Begin
  <2>3. QED
    BY <1>1, <2>1, <2>2 DEF BuffersInv
<1>8. CASE UNCHANGED vars
  <2>1. UNCHANGED vectorVars /\ UNCHANGED storageVars
    BY <1>8 DEF vars
  <2>2. VectorType' /\ ActiveInv'
    BY SMTT(40), <1>2, <2>1 DEF vectorVars, VectorType, ActiveInv, IndexExact, ActiveBusy, EndedBusy, Busy
  <2>3. SizesAgree'
    BY <1>5, <2>1 DEF vectorVars
  <2>4. QED
    BY <1>1, <2>2, <2>3 DEF BuffersInv
<1>9. QED
  BY <1>3, <1>4, <1>6, <1>7, <1>8 DEF Next

LEMMA BuffersInvariant == Spec => []BuffersInv
<1>1. BuffersInv /\ [Next]_vars => BuffersInv'
  BY StepInv
<1>2. QED
  BY <1>1, InitInv, PTL DEF Spec
-----------------------------------------------------------------------------
(* Whatever the core that is watched, the steps of the loop and the choice *)
(* of a core count in its buffer the subtasks that its storage holds, so   *)
(* no storage is popped when it is empty.                                  *)
THEOREM StorageCounted == Spec => []SizesAgree
BY BuffersInvariant, PTL DEF BuffersInv

(* At every iteration of the loop and between the calls, the index of each *)
(* core is its place in active_subtasks_: the swap removal never moves or  *)
(* drops the entry of another core.                                        *)
THEOREM IndexCorrect == Spec => []IndexExact
BY BuffersInvariant, PTL DEF BuffersInv, ActiveInv

(* Whatever cores end together, active_subtasks_ is the set of the busy    *)
(* cores, which TaskManager takes it to be.                                *)
THEOREM ActiveIsBusy == Spec => []ActiveBusy
BY BuffersInvariant, PTL DEF BuffersInv, ActiveInv

(* The pointer through which a node reads and shortens the lapse of the    *)
(* active subtask of a core is that of the front of its buffer, whatever   *)
(* the sequence of insertions, removals, compactions and growths.          *)
THEOREM PointerExact == Spec => []ActiveAtFront
BY BuffersInvariant, PTL DEF BuffersInv, QueueInv

(* A queue never takes more than six times the room it needed, or what it  *)
(* was given at the start, however many messages pass through it.          *)
THEOREM CapacityBounded == Spec => []BoundedCapacity
BY BuffersInvariant, PTL DEF BuffersInv, QueueInv
-----------------------------------------------------------------------------
(* What each operation makes of the elements that are not consumed.          *)
LEMMA LiveType ==
  ASSUME StorageType
  PROVE  Live \in Seq(Element) /\ (Size > 0 => Live # <<>>)
<1>1. prepared \in Seq(Element) /\ head \in 0 .. Len(prepared) /\ Len(prepared) \in Nat
  BY DEF StorageType
<1>2. head + 1 \in Int /\ \A i \in head + 1 .. Len(prepared) : prepared[i] \in Element
  BY <1>1, ElementOfSeq
<1>3. /\ Live \in Seq(Element)
      /\ Len(Live) = IF head + 1 <= Len(prepared) THEN Len(prepared) - (head + 1) + 1 ELSE 0
  BY <1>1, <1>2, SubSeqProperties DEF Live
<1> HIDE DEF Live
<1>4. Size > 0 => Len(Live) > 0
  BY <1>1, <1>3 DEF Size
<1>5. QED
  BY <1>3, <1>4, EmptySeq

LEMMA LiveEmplaced ==
  ASSUME StorageType, NEW m \in Element, Stored(m)
  PROVE  Live' = Live \o <<m>>
<1>1. prepared \in Seq(Element) /\ head \in 0 .. Len(prepared) /\ Len(prepared) \in Nat
  BY DEF StorageType
<1>2. CASE Emplace(m) \/ EmplaceGrowing(m)
  <2>1. prepared' = Append(prepared, m) /\ head' = head
    BY <1>2 DEF Emplace, EmplaceGrowing, Add
  <2>2. Len(prepared') = Len(prepared) + 1
    BY <1>1, <2>1, AppendProperties
  <2>3. QED
    BY <1>1, <2>1, <2>2, AppendedBehind DEF Live
<1>3. CASE EmplaceCompacting(m)
  <2>1. Rest = Live /\ Live \in Seq(Element)
    BY LiveType DEF Rest, Live
  <2>2. prepared' = Append(Live, m) /\ head' = 0
    BY <1>3, <2>1 DEF EmplaceCompacting, Add
  <2>3. prepared' \in Seq(Element)
    BY <2>1, <2>2, AppendProperties
  <2>4. Live' = prepared'
    BY SMTT(40), <2>2, <2>3, SubSeqFull DEF Live
  <2>5. QED
    BY <2>1, <2>2, <2>4, AppendIsConcat
<1>4. QED
  BY <1>2, <1>3 DEF Stored

LEMMA LivePopped ==
  ASSUME StorageType, Pop
  PROVE  Live # <<>> /\ Live' = Tail(Live)
<1>1. prepared \in Seq(Element) /\ head \in 0 .. Len(prepared) /\ Len(prepared) \in Nat
  BY DEF StorageType
<1>2. Len(prepared) - head > 0 /\ head' = head + 1 /\ prepared' = prepared
  BY DEF Pop, Size
<1>3. /\ head + 1 \in 1 .. Len(prepared) /\ Len(prepared) \in head + 1 .. Len(prepared)
  BY <1>1, <1>2
<1>4. Tail(SubSeq(prepared, head + 1, Len(prepared))) = SubSeq(prepared, head + 1 + 1, Len(prepared))
  BY <1>1, <1>3, HeadTailOfSubSeq
<1>5. QED
  BY <1>2, <1>4, LiveType DEF Live, Size

(* An operation on the storage is a step of the queue, or changes none of  *)
(* what it holds.                                                          *)
LEMMA QueueStep ==
  ASSUME StorageType, (\E m \in Element : Stored(m)) \/ Pop \/ UNCHANGED storageVars
  PROVE  [Queue!Next]_([k \in {"core"} |-> Live])
<1>1. ASSUME NEW m \in Element, Stored(m)
      PROVE  Queue!Step({})
  <2>1. Live' = Live \o <<m>> /\ Live \in Seq(Element) /\ <<m>> \in Seq(Element)
    BY <1>1, LiveEmplaced, LiveType
  <2>2. /\ Len(Live) <= Len(Live')
        /\ SubSeq(Live, 1, Len(Live)) = SubSeq(Live', 1, Len(Live))
        /\ SubSeq(Live', Len(Live) + 1, Len(Live')) = <<m>>
    BY <2>1, Concatenated
  <2>3. {<<m>>[x] : x \in DOMAIN <<m>>} \subseteq Element
    OBVIOUS
  <2> HIDE DEF Live
  <2>4. QED
    BY <2>2, <2>3 DEF Queue!Step, Queue!Served, Queue!Joins, Queue!IsPrefix, Queue!Range
<1>2. ASSUME Pop
      PROVE  Queue!Step({"core"})
  <2>1. Live # <<>> /\ Live' = Tail(Live) /\ Live' \in Seq(Element)
    BY <1>2, LivePopped, LiveType, HeadTailProperties
  <2>2. SubSeq(Live', Len(Live') + 1, Len(Live')) = <<>>
    BY <2>1, SubSeqEmpty
  <2>3. {<<>>[x] : x \in DOMAIN <<>>} = {}
    OBVIOUS
  <2> HIDE DEF Live
  <2>4. QED
    BY <2>1, <2>2, <2>3 DEF Queue!Step, Queue!Served, Queue!Joins, Queue!IsPrefix, Queue!Range
<1>3. CASE UNCHANGED storageVars
  BY <1>3 DEF storageVars, Live
<1>4. QED
  BY <1>1, <1>2, <1>3 DEF Queue!Next

(* The storage is a queue: whatever is emplaced comes out once, in its     *)
(* order, through any compactions and growths.                             *)
THEOREM ImplementsQueue == Spec => IsQueue
<1>1. Init => Queue!Init
  BY EmptySeq, SubSeqEmpty DEF Init, StorageInit, Live, Queue!Init
<1>2. BuffersInv /\ [Next]_vars => [Queue!Next]_([k \in {"core"} |-> Live])
  BY StorageStep, QueueStep DEF BuffersInv, QueueInv
<1>3. QED
  BY <1>1, <1>2, BuffersInvariant, PTL DEF Spec, IsQueue, Queue!Spec

-----------------------------------------------------------------------------
(* The switch.                                                              *)
(* With fewer nodes than the counter has values, it is zero only if no     *)
(* buffer has a message.                                                   *)
LEMMA PendingSendsExact ==
  ASSUME IsFiniteSet(Node), Cardinality(Node) < CountMod, NEW s
  PROVE  PendingSends(s) # 0 <=> Waiting(s) # {}
<1> DEFINE n == Cardinality(Waiting(s))
<1>1. Waiting(s) \subseteq Node /\ IsFiniteSet(Waiting(s))
  BY FS_Subset DEF Waiting
<1>2. n \in Nat /\ n <= Cardinality(Node) /\ Cardinality(Node) \in Nat
  BY <1>1, FS_Subset, FS_CardinalityType
<1>3. n = 0 <=> Waiting(s) = {}
  BY <1>1, FS_EmptySet
<1> HIDE DEF n
<1>4. n % CountMod = n
  BY <1>2, CountModAssumption
<1>5. QED
  BY <1>3, <1>4 DEF PendingSends, n

(* The invariant of a state of the switch. *)
Consistent(s) ==
  /\ s \in SwitchType(Mssg)
  /\ s.active \subseteq Waiting(s)
  /\ ~s.transmitting => Waiting(s) = {}
  /\ s.transmitting <=> s.active # {}

LEMMA AfterOutputType ==
  ASSUME NEW s, Consistent(s)
  PROVE  /\ AfterOutput(s) \in SwitchType(Mssg)
         /\ AfterOutput(s).active = {}
<1>1. \A n \in s.active : Tail(s.buffers[n]) \in Seq(Mssg)
  BY DEF Consistent, SwitchType, Waiting
<1>2. QED
  BY <1>1 DEF AfterOutput, Consistent, SwitchType

LEMMA InternalConsistent ==
  ASSUME IsFiniteSet(Node), Cardinality(Node) < CountMod,
         NEW s \in SwitchType(Mssg), s.active = {}, NEW lapse \in Nat
  PROVE  Consistent(InternalTransition(s, lapse))
<1> DEFINE t == InternalTransition(s, lapse)
<1>1. /\ t.buffers = s.buffers /\ t.active = Waiting(s)
      /\ t.transmitting <=> Waiting(s) # {}
  BY PendingSendsExact DEF InternalTransition
<1>2. Waiting(t) = Waiting(s) /\ Waiting(s) \subseteq Node
  BY <1>1 DEF Waiting
<1>3. t \in SwitchType(Mssg)
  BY <1>2 DEF InternalTransition, SwitchType
<1> HIDE DEF t
<1>4. QED
  BY <1>1, <1>2, <1>3 DEF Consistent, t

LEMMA ExternalConsistent ==
  ASSUME NEW s, Consistent(s), NEW bag \in Bags, NEW e \in Nat, NEW lapse \in Nat,
         s.transmitting => e <= s.send_time
  PROVE  Consistent(ExternalTransition(s, bag, e, lapse))
<1> DEFINE t       == ExternalTransition(s, bag, e, lapse)
           arrived == {n \in Node : bag[n] # <<>>}
<1>1. bag \in [Node -> Seq(Mssg)] /\ arrived # {}
  BY SwitchConstants
<1>2. s \in SwitchType(Mssg) /\ s.active \subseteq Node
  BY DEF Consistent, SwitchType
<1>3. \A n \in Node : t.buffers[n] = s.buffers[n] \o bag[n]
  BY DEF ExternalTransition, Queued
<1>4. \A n \in Node : t.buffers[n] # <<>> <=> n \in Waiting(s) \cup arrived
  BY SMTT(40), <1>1, <1>2, <1>3 DEF SwitchType, Waiting
<1>5. Waiting(t) = Waiting(s) \cup arrived
  BY <1>4 DEF Waiting
<1>6. t.transmitting = TRUE
      /\ t.active = IF s.transmitting THEN s.active ELSE s.active \cup arrived
  BY DEF ExternalTransition, Activated
<1>7. t \in SwitchType(Mssg)
  BY <1>1, <1>2 DEF ExternalTransition, Queued, Activated, SwitchType
<1> HIDE DEF t, arrived
<1>8. t.active \subseteq Waiting(t) /\ t.active # {}
  BY <1>1, <1>5, <1>6 DEF Consistent
<1>9. QED
  BY <1>6, <1>7, <1>8 DEF Consistent, t

(* The state of the switch stays consistent in a cluster of fewer nodes    *)
(* than the counter of pending sends has values.                           *)
LEMMA SwitchConsistent ==
  IsFiniteSet(Node) /\ Cardinality(Node) < CountMod => (SwitchSpec => [](SwitchTypeOK /\ SwitchInv))
<1> SUFFICES ASSUME IsFiniteSet(Node), Cardinality(Node) < CountMod
             PROVE  SwitchSpec => [](SwitchTypeOK /\ SwitchInv)
  OBVIOUS
<1>1. SwitchInit => Consistent(sw)
  BY DEF SwitchInit, NewSwitch, Consistent, SwitchType, Waiting
<1>2. Consistent(sw) /\ SwitchNext => Consistent(sw')
  <2> SUFFICES ASSUME Consistent(sw), SwitchNext
               PROVE  Consistent(sw')
    OBVIOUS
  <2>1. AfterOutput(sw) \in SwitchType(Mssg) /\ AfterOutput(sw).active = {}
    BY AfterOutputType
  <2>2. ASSUME NEW lapse \in Lapse, Transmit(lapse)
        PROVE  Consistent(sw')
    BY <2>1, <2>2, InternalConsistent, SwitchConstants DEF Transmit
  <2>3. ASSUME NEW bag \in Bags, NEW lapse \in Lapse, NEW lapse2 \in Lapse,
               TransmitAndReceive(bag, lapse, lapse2)
        PROVE  Consistent(sw')
    <3> DEFINE t == InternalTransition(AfterOutput(sw), lapse)
    <3>1. lapse \in Nat /\ lapse2 \in Nat
      BY SwitchConstants
    <3>2. Consistent(t)
      BY <2>1, <3>1, InternalConsistent
    <3>3. sw' = ExternalTransition(t, bag, 0, lapse2)
      BY <2>3 DEF TransmitAndReceive, ConfluenceTransition
    <3> HIDE DEF t
    <3>4. t.send_time \in Nat
      BY <3>2 DEF Consistent, SwitchType
    <3>5. QED
      BY <3>1, <3>2, <3>3, <3>4, ExternalConsistent
  <2>4. ASSUME NEW bag \in Bags, NEW lapse \in Lapse, NEW e \in 0 .. sw.send_time,
               Receive(bag, e, lapse)
        PROVE  Consistent(sw')
    <3>1. sw.send_time \in Nat
      BY DEF Consistent, SwitchType
    <3>2. e \in Nat /\ e <= sw.send_time /\ lapse \in Nat
      BY <3>1, SwitchConstants
    <3>3. QED
      BY <2>4, <3>2, ExternalConsistent DEF Receive
  <2>5. QED
    BY <2>2, <2>3, <2>4 DEF SwitchNext, EndTransmission
<1>3. SwitchInit => SwitchTypeOK /\ SwitchInv
  BY <1>1 DEF Consistent, SwitchTypeOK, SwitchInv, ActiveWaiting, IdleEmpty, TransmittingActive
<1>4. SwitchTypeOK /\ SwitchInv /\ [SwitchNext]_sw => (SwitchTypeOK /\ SwitchInv)'
  <2>1. SwitchTypeOK /\ SwitchInv /\ SwitchNext => (SwitchTypeOK /\ SwitchInv)'
    BY <1>2 DEF Consistent, SwitchTypeOK, SwitchInv, ActiveWaiting, IdleEmpty, TransmittingActive, Waiting
  <2>2. SwitchTypeOK /\ SwitchInv /\ UNCHANGED sw => (SwitchTypeOK /\ SwitchInv)'
    BY DEF SwitchTypeOK, SwitchInv, ActiveWaiting, IdleEmpty, TransmittingActive, Waiting
  <2>3. QED
    BY <2>1, <2>2
<1>5. QED
  BY <1>3, <1>4, PTL DEF SwitchSpec

(* In such a cluster the switch never passivates with a message waiting.   *)
(* With as many nodes as the counter has values it does: run switch_256.   *)
THEOREM PassivatesEmpty ==
  IsFiniteSet(Node) /\ Cardinality(Node) < CountMod => (SwitchSpec => []IdleEmpty)
<1>1. SwitchInv => IdleEmpty
  BY DEF SwitchInv
<1>2. QED
  BY <1>1, SwitchConsistent, PTL

(* Nor does its output take a message out of an empty buffer.              *)
THEOREM OutputHasMessages ==
  IsFiniteSet(Node) /\ Cardinality(Node) < CountMod => (SwitchSpec => []ActiveWaiting)
<1>1. SwitchInv => ActiveWaiting
  BY DEF SwitchInv
<1>2. QED
  BY <1>1, SwitchConsistent, PTL
-----------------------------------------------------------------------------
(* What a transmission leaves in the buffers, and what messages that arrive   *)
(* make of them.                                                              *)
LEMMA OutputServes ==
  ASSUME NEW s, Consistent(s), NEW n \in Node
  PROVE  /\ s.active \subseteq Node /\ s.buffers[n] \in Seq(Mssg)
         /\ n \in s.active => s.buffers[n] # <<>>
         /\ AfterOutput(s).buffers[n] = IF n \in s.active THEN Tail(s.buffers[n]) ELSE s.buffers[n]
         /\ AfterOutput(s).buffers[n] \in Seq(Mssg)
<1>1. /\ s.active \subseteq Node /\ s.buffers[n] \in Seq(Mssg)
      /\ n \in s.active => s.buffers[n] # <<>>
  BY DEF Consistent, SwitchType, Waiting
<1>2. AfterOutput(s).buffers[n] = IF n \in s.active THEN Tail(s.buffers[n]) ELSE s.buffers[n]
  BY DEF AfterOutput
<1>3. QED
  BY <1>1, <1>2, HeadTailProperties

(* A step of the links in which those of S let a message go and t joins.      *)
LEMMA LinkStep ==
  ASSUME NEW S \in SUBSET Node, DOMAIN sw'.buffers = Node,
         NEW t, t \in [Node -> Seq(Mssg)],
         \A n \in Node : /\ sw.buffers[n] \in Seq(Mssg)
                         /\ n \in S => sw.buffers[n] # <<>> /\ Head(sw.buffers[n]) \notin In(t[n])
                         /\ sw'.buffers[n] = JoinedBy(sw.buffers[n], t[n], n \in S)
  PROVE  Links!Next
<1> DEFINE left(n) == IF n \in S THEN Tail(sw.buffers[n]) ELSE sw.buffers[n]
<1>1. ASSUME NEW n \in Node
      PROVE  /\ Len(left(n)) <= Len(sw'.buffers[n])
             /\ SubSeq(left(n), 1, Len(left(n))) = SubSeq(sw'.buffers[n], 1, Len(left(n)))
             /\ SubSeq(sw'.buffers[n], Len(left(n)) + 1, Len(sw'.buffers[n])) = t[n]
  <2>1. left(n) \in Seq(Mssg) /\ t[n] \in Seq(Mssg) /\ sw'.buffers[n] = left(n) \o t[n]
    BY HeadTailProperties DEF JoinedBy
  <2> HIDE DEF left
  <2>2. QED
    BY <2>1, Concatenated
<1>2. ASSUME NEW n \in Node
      PROVE  /\ {t[n][x] : x \in DOMAIN t[n]} \subseteq Mssg
             /\ {t[n][x] : x \in DOMAIN t[n]} = In(t[n])
  <2>1. t[n] \in Seq(Mssg)
    OBVIOUS
  <2>2. QED
    BY <2>1, LenProperties DEF In
<1>3. \A n \in Node : Links!Served(S)[n] = left(n)
  BY DEF Links!Served
<1> HIDE DEF left
<1>4. \A n \in Node : Links!Joins(S, n) = t[n]
  BY <1>1, <1>3 DEF Links!Joins
<1>5. \A n \in Node : Links!IsPrefix(Links!Served(S)[n], sw'.buffers[n])
  BY <1>1, <1>3 DEF Links!IsPrefix
<1>6. \A n \in Node : Links!Range(Links!Joins(S, n)) \subseteq Mssg
  BY <1>2, <1>4 DEF Links!Range
<1>7. \A n \in S : Head(sw.buffers[n]) \notin Links!Range(Links!Joins(S, n))
  BY <1>2, <1>4 DEF Links!Range
<1>8. Links!Step(S)
  BY <1>5, <1>6, <1>7 DEF Links!Step
<1>9. QED
  BY <1>8 DEF Links!Next

(* In such a cluster every destination gets its messages in the order they    *)
(* arrived at the switch, and each once.                                      *)
THEOREM DeliversInOrder ==
  IsFiniteSet(Node) /\ Cardinality(Node) < CountMod => (SwitchSpec => InOrder)
<1>1. SwitchInit => Links!Init
  BY DEF SwitchInit, NewSwitch, Links!Init
<1>2. ASSUME SwitchTypeOK, SwitchInv, SwitchNext
      PROVE  Links!Next
  <2> DEFINE none == [n \in Node |-> <<>>]
  <2>1. Consistent(sw)
    BY <1>2 DEF Consistent, SwitchTypeOK, SwitchInv, ActiveWaiting, IdleEmpty, TransmittingActive
  <2>2. \A n \in Node : /\ sw.buffers[n] \in Seq(Mssg)
                        /\ n \in sw.active => sw.buffers[n] # <<>>
                        /\ AfterOutput(sw).buffers[n]
                             = IF n \in sw.active THEN Tail(sw.buffers[n]) ELSE sw.buffers[n]
                        /\ AfterOutput(sw).buffers[n] \in Seq(Mssg)
    BY <2>1, OutputServes
  <2>3. sw.active \in SUBSET Node
    BY <2>1 DEF Consistent, SwitchType
  <2>4. none \in [Node -> Seq(Mssg)] /\ \A n \in Node : In(none[n]) = {}
    BY EmptySeq DEF In
  <2>5. ASSUME NEW bag \in Bags, Fresh(bag), NEW n \in Node, sw.buffers[n] # <<>>
        PROVE  Head(sw.buffers[n]) \notin In(bag[n])
    <3>1. Head(sw.buffers[n]) = sw.buffers[n][1] /\ Len(sw.buffers[n]) \in Nat \ {0}
      BY <2>2, <2>5, EmptySeq
    <3>2. Head(sw.buffers[n]) \in In(sw.buffers[n])
      BY <3>1 DEF In
    <3>3. QED
      BY <2>5, <3>2 DEF Fresh, Among
  <2>6. ASSUME NEW lapse \in Lapse, Transmit(lapse)
        PROVE  Links!Next
    <3>1. sw'.buffers = AfterOutput(sw).buffers
      BY <2>6 DEF Transmit, InternalTransition
    <3>2. DOMAIN sw'.buffers = Node
      BY <3>1 DEF AfterOutput
    <3>3. \A n \in Node : sw'.buffers[n] = JoinedBy(sw.buffers[n], none[n], n \in sw.active)
      BY <2>2, <3>1, ConcatEmptySeq DEF JoinedBy
    <3> HIDE DEF none
    <3>4. QED
      BY <2>2, <2>3, <2>4, <3>2, <3>3, LinkStep
  <2>7. ASSUME NEW bag \in Bags, NEW lapse \in Lapse, NEW lapse2 \in Lapse,
               TransmitAndReceive(bag, lapse, lapse2)
        PROVE  Links!Next
    <3>1. Fresh(bag) /\ bag \in [Node -> Seq(Mssg)]
      BY <2>7, SwitchConstants DEF TransmitAndReceive
    <3>2. sw'.buffers = [n \in Node |-> AfterOutput(sw).buffers[n] \o bag[n]]
      BY <2>7 DEF TransmitAndReceive, ConfluenceTransition, ExternalTransition, InternalTransition, Queued
    <3>3. \A n \in Node : sw'.buffers[n] = JoinedBy(sw.buffers[n], bag[n], n \in sw.active)
      BY <2>2, <3>2 DEF JoinedBy
    <3>4. QED
      BY <2>2, <2>3, <2>5, <3>1, <3>2, <3>3, LinkStep
  <2>8. ASSUME NEW bag \in Bags, NEW lapse \in Lapse, NEW e \in 0 .. sw.send_time,
               Receive(bag, e, lapse)
        PROVE  Links!Next
    <3>1. bag \in [Node -> Seq(Mssg)]
      BY SwitchConstants
    <3>2. sw'.buffers = [n \in Node |-> sw.buffers[n] \o bag[n]]
      BY <2>8 DEF Receive, ExternalTransition, Queued
    <3>3. \A n \in Node : sw'.buffers[n] = JoinedBy(sw.buffers[n], bag[n], n \in {})
      BY <3>2 DEF JoinedBy
    <3>4. QED
      BY <2>2, <3>1, <3>2, <3>3, LinkStep
  <2>9. QED
    BY <1>2, <2>6, <2>7, <2>8 DEF SwitchNext, EndTransmission
<1>3. UNCHANGED sw => UNCHANGED sw.buffers
  OBVIOUS
<1>4. SwitchTypeOK /\ SwitchInv /\ [SwitchNext]_sw => [Links!Next]_(sw.buffers)
  BY <1>2, <1>3
<1>5. QED
  BY <1>1, <1>4, SwitchConsistent, PTL DEF SwitchSpec, InOrder, Links!Spec
=============================================================================
