-------------------------- MODULE CompactingQueue --------------------------
(***************************************************************************)
(* The storage of the subtasks prepared for a core (ExecutionBuffer_t) and *)
(* of the messages queued on a slot (TaskSlot_t, which is the same without *)
(* the pointer): a vector that is consumed by advancing a head index.      *)
(* When it is full it drops what was consumed, if that is most of it, or   *)
(* grows; both move its elements, and the pointer to the active subtask    *)
(* has to follow.                                                          *)
(***************************************************************************)
EXTENDS Integers, Sequences

CONSTANTS
  Element,   \* subtasks, or messages
  Capacity   \* SUBTASKS_CAPACITY_, TUPLES_CAPACITY

(* A capacity of one would not grow by half. *)
ASSUME CapacityAssumption == Capacity \in Nat /\ Capacity >= 2

Dangling == -1

VARIABLES
  prepared,  \* prepared_subtasks_, with those already consumed
  cap,       \* its capacity
  head,      \* head_index_
  active,    \* the index that subtask_ points at, or Dangling
  peak       \* history: the most elements it ever held

storageVars == <<prepared, cap, head, active, peak>>

Size == Len(prepared) - head

Full == Len(prepared) = cap

(* Is more than COMPACT_RATIO_ of the vector consumed? *)
Consumed == 4 * head > 3 * cap
-----------------------------------------------------------------------------
StorageInit ==
  /\ prepared = <<>>
  /\ cap = Capacity
  /\ head = 0
  /\ active = Dangling
  /\ peak = 0

(* What emplace_back makes of the vector v of capacity c, and whether it   *)
(* moves the elements: the library doubles a vector that has no room.      *)
Moves(v, c) == Len(v) = c
CapacityAfter(v, c) == IF Moves(v, c) THEN 2 * c ELSE c

(* The pointer once the vector was compacted or has grown. *)
NotRenewed(newHead) == active   \* faulty variant

Renewed(newHead) == newHead

(* emplace when there is room, or after the vector was compacted or grown, *)
(* to v with capacity c, head h and pointer p.  If the element is the only *)
(* one it is activated.                                                    *)
Add(m, v, c, h, p) ==
  /\ prepared' = Append(v, m)
  /\ cap' = CapacityAfter(v, c)
  /\ head' = h
  /\ active' = IF Len(v) = h THEN h ELSE IF Moves(v, c) THEN Dangling ELSE p
  /\ peak' = IF Len(v) - h + 1 > peak THEN Len(v) - h + 1 ELSE peak

Emplace(m) ==
  /\ ~Full
  /\ Add(m, prepared, cap, head, active)

(* The vector without its consumed part. *)
RestWithLast == SubSeq(prepared, head, Len(prepared))   \* faulty variant: keeps one element

Rest == SubSeq(prepared, head + 1, Len(prepared))

EmplaceCompacting(m) ==
  /\ Full /\ Consumed
  /\ Add(m, Rest, cap, 0, Renewed(0))

(* Faulty variant: a vector that was consumed grows, too. *)
EmplaceGrowingAlways(m) ==
  /\ Full
  /\ Add(m, prepared, (3 * cap) \div 2, head, Renewed(head))

EmplaceGrowing(m) ==
  /\ Full /\ ~Consumed
  /\ Add(m, prepared, (3 * cap) \div 2, head, Renewed(head))

(* The active subtask has ended; the next one is activated. *)
Pop ==
  /\ Size > 0
  /\ head' = head + 1
  /\ active' = IF Size > 1 THEN head + 1 ELSE active
  /\ UNCHANGED <<prepared, cap, peak>>

-----------------------------------------------------------------------------
StorageType ==
  /\ prepared \in Seq(Element)
  /\ cap \in Nat /\ cap >= 2
  /\ head \in 0 .. Len(prepared)
  /\ active \in Nat \cup {Dangling}
  /\ peak \in Nat
  /\ Len(prepared) <= cap
  /\ Size <= peak

(* The pointer to the active subtask, through which the nodes read and     *)
(* shorten its lapse, is that of the front of the buffer: moving the       *)
(* elements never leaves it dangling or at another subtask.                *)
ActiveAtFront == Size > 0 => active = head

(* The capacity is bounded by what the queue ever held at once, not by     *)
(* what passed through it.                                                 *)
BoundedCapacity == cap = Capacity \/ cap <= 6 * (peak - 1)

-----------------------------------------------------------------------------
(* What is not consumed is a queue: nothing is lost, repeated or overtaken *)
(* when the storage is compacted.                                          *)
Live == SubSeq(prepared, head + 1, Len(prepared))

Queue == INSTANCE FifoQueues WITH Mssg <- Element, Key <- {"core"}, queue <- [k \in {"core"} |-> Live]
=============================================================================
