-------------------------- MODULE MCTaskExecution --------------------------
(* Instances of TaskExecution: one slot of a source operator, the others   *)
(* of the operator it feeds.  In a node of three slots, whose queues are   *)
(* short, no cores end together.  In one of two slots, whose queues are    *)
(* longer, they do or they do not.                                         *)
EXTENDS TaskExecution, TLC

CONSTANTS s1, s2, s3, src, snk, m1, m2

VARIABLES node, tm2, pendings2, due2

Long(t) == INSTANCE TaskExecution WITH
  tm <- tm2, pendings <- pendings2, due <- due2,
  Ties <- t, Slot <- {s1, s2}, MaxQueue <- 3, Lapse <- {1, 2}

vars2 == <<tm2, pendings2, due2>>

MCInit == Init /\ Long(TRUE)!Init /\ node \in {"short", "long", "together"}
MCNext ==
  \/ node = "short"    /\ Next             /\ UNCHANGED <<node, vars2>>
  \/ node = "long"     /\ Long(FALSE)!Next /\ UNCHANGED <<node, vars>>
  \/ node = "together" /\ Long(TRUE)!Next  /\ UNCHANGED <<node, vars>>

MCSpec == MCInit /\ [][MCNext]_<<node, vars, vars2>>

MCOperOf == [s \in Slot |-> IF s = s1 THEN src ELSE snk]
MCDest   == src :> {snk} @@ snk :> {}

MCSymmetry == Permutations({m1, m2})

(* Where cores end together no message is stranded either, although the    *)
(* queues of the slots they free are checked one after the other and the   *)
(* first may take a slot that the second has, and the counter of the       *)
(* prepared subtasks is still exact.                                       *)
TiedNoneStranded == Long(TRUE)!NoStrandedTuple /\ Long(TRUE)!PendingExact

(* Where they do not, every slot serves its messages in order and loses    *)
(* none.                                                                   *)
LongQueues == INSTANCE FifoQueues WITH
  Key   <- {s1, s2},
  queue <- IF node = "together" THEN [s \in {s1, s2} |-> <<>>] ELSE Long(FALSE)!Served

LongServesInOrder == LongQueues!Spec
=============================================================================
