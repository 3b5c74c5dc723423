------------------------------ MODULE Buffers ------------------------------
(***************************************************************************)
(* The execution buffers of a node and the vector of the active subtasks.  *)
(* Of every core the size of its buffer is kept (ActiveSubtasks), of the   *)
(* core Watched the storage of its buffer too (CompactingQueue): which     *)
(* core is chosen for a subtask, and when a core may end one, decides      *)
(* what sequences of insertions and removals a storage meets.              *)
(***************************************************************************)
EXTENDS ActiveSubtasks, CompactingQueue

CONSTANT Watched  \* the core whose storage is followed

ASSUME WatchedAssumption == Watched \in Core

vars == <<vectorVars, storageVars>>

Init == VectorInit /\ StorageInit

(* createSubTask puts the subtask m in the buffer of the core. *)
Create(core, m) ==
  /\ CreateSubTask(core)
  /\ IF core = Watched
     THEN Emplace(m) \/ EmplaceCompacting(m) \/ EmplaceGrowing(m)
     ELSE UNCHANGED storageVars

(* The loop of terminateActiveExecutions ends the subtask of the core. *)
End(core) ==
  /\ Finish(core)
  /\ IF core = Watched THEN Pop ELSE UNCHANGED storageVars

Pass(core) == Skip(core) /\ UNCHANGED storageVars

Start(S) == Begin(S) /\ UNCHANGED storageVars

Next ==
  \/ \E core \in Core, m \in Element : Create(core, m)
  \/ \E core \in Core : End(core) \/ Pass(core)
  \/ \E S \in SUBSET Busy : Start(S)

Spec == Init /\ [][Next]_vars
-----------------------------------------------------------------------------
TypeOK == VectorType /\ StorageType

(* The storage holds as many subtasks as the loop and the choice of a core *)
(* count in it; with ActiveAtFront, whatever entry the vector has for the  *)
(* core leads to the subtask at the front of its buffer.                   *)
SizesAgree == size[Watched] = Size

(* The storage is a queue: the subtasks prepared for the core run in their *)
(* order, none of them lost or twice.                                      *)
IsQueue == Queue!Spec
=============================================================================
