--------------------------- MODULE ActiveSubtasks ---------------------------
(***************************************************************************)
(* active_subtasks_, the vector of the subtasks that run on the cores of a *)
(* node, and the index idx_priority_ that each core keeps of its place in  *)
(* it.  TaskManager uses the vector as the set of the busy cores; here it  *)
(* is the code's vector, from which an element is removed by moving the    *)
(* last one into its place.  A pointer in the vector is the core whose     *)
(* buffer it points into; of a buffer only the size is kept.               *)
(*                                                                         *)
(* createSubTask is one action.  terminateActiveExecutions visits the      *)
(* cores in order, one iteration of its loop per action.                   *)
(***************************************************************************)
EXTENDS Integers, Sequences

CONSTANTS
  NCores,   \* number of cores
  MaxSize   \* bound: subtasks in one buffer

ASSUME NCoresAssumption == NCores \in Nat \ {0}

Core == 0 .. NCores - 1

VARIABLES
  size,     \* size of each execution buffer
  actives,  \* active_subtasks_
  idx,      \* idx_priority_ of each core (0-based, as in the code)
  at,       \* the core that the loop visits next; NCores outside the loop
  ended     \* the cores whose active subtask has no time left and is not ended yet

vectorVars == <<size, actives, idx, at, ended>>

Idle == at = NCores

Busy == {c \in Core : size[c] > 0}

LessLoaded ==
  CHOOSE c \in Core : \A d \in Core : size[c] < size[d] \/ (size[c] = size[d] /\ d <= c)
-----------------------------------------------------------------------------
VectorInit ==
  /\ size = [c \in Core |-> 0]
  /\ actives = <<>>
  /\ idx = [c \in Core |-> 0]
  /\ at = NCores
  /\ ended = {}

(* The index of an element that is appended to the vector v. *)
IndexAtEnd(v) == Len(v)

(* createSubTask: the buffer of the core gets a subtask, which starts at   *)
(* once if it is alone.                                                    *)
CreateSubTask(core) ==
  /\ Idle
  /\ core = LessLoaded
  /\ size[core] < MaxSize
  /\ size' = [size EXCEPT ![core] = @ + 1]
  /\ IF size[core] = 0
     THEN /\ idx' = [idx EXCEPT ![core] = IndexAtEnd(actives)]
          /\ actives' = Append(actives, core)
     ELSE UNCHANGED <<idx, actives>>
  /\ UNCHANGED <<at, ended>>

(* terminateActiveExecutions begins: some of the active subtasks, if there *)
(* are any, are found to have the least lapse.                             *)
Begin(S) ==
  /\ Idle
  /\ S = {} <=> Busy = {}
  /\ at' = 0
  /\ ended' = S
  /\ UNCHANGED <<size, actives, idx>>

(* Faulty variant: the last element is dropped, whichever has ended. *)
RemovedLast(i) == SubSeq(actives, 1, Len(actives) - 1)

(* The vector once the element at place i is overwritten by the last one   *)
(* and the last one dropped.                                               *)
Removed(i) == SubSeq([actives EXCEPT ![i] = actives[Len(actives)]], 1, Len(actives) - 1)

(* The indices once the last element takes the place of the core's. *)
NotReindexed(core) == idx   \* faulty variant: the moved element keeps its index

Reindexed(core) ==
  IF idx[core] + 1 # Len(actives) THEN [idx EXCEPT ![actives[Len(actives)]] = idx[core]] ELSE idx

(* One iteration on a core whose active subtask has ended: it leaves the   *)
(* vector and the buffer, and the next one of the buffer is activated.     *)
Finish(core) ==
  LET rest == Removed(idx[core] + 1)
      idx1 == Reindexed(core)
  IN  /\ at = core /\ core \in ended
      /\ size' = [size EXCEPT ![core] = @ - 1]
      /\ IF size[core] > 1
         THEN /\ idx' = [idx1 EXCEPT ![core] = IndexAtEnd(rest)]
              /\ actives' = Append(rest, core)
         ELSE idx' = idx1 /\ actives' = rest
      /\ at' = at + 1
      /\ ended' = ended \ {core}

(* One iteration on any other core. *)
Skip(core) ==
  /\ at = core /\ core \notin ended
  /\ at' = at + 1
  /\ UNCHANGED <<size, actives, idx, ended>>

-----------------------------------------------------------------------------
VectorType ==
  /\ size \in [Core -> Nat]
  /\ actives \in Seq(Core)
  /\ idx \in [Core -> Nat]
  /\ at \in 0 .. NCores
  /\ ended \subseteq Core

(* Each core's index is its place in the vector: the removal by swapping   *)
(* overwrites the entry of the core that ended and of no other, also when  *)
(* several cores end in one loop and each moves another's entry.           *)
IndexExact == \A i \in 1 .. Len(actives) : idx[actives[i]] = i - 1

(* The vector holds exactly the busy cores, so the least lapse that the    *)
(* loops over it compute is the least over all cores, and no core is       *)
(* forgotten or run twice.                                                 *)
ActiveBusy == {actives[i] : i \in 1 .. Len(actives)} = Busy

(* What the loop still has to end is running. *)
EndedBusy == \A c \in ended : at <= c /\ size[c] > 0

ActiveInv == IndexExact /\ ActiveBusy /\ EndedBusy
=============================================================================
