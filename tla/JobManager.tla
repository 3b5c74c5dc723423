----------------------------- MODULE JobManager -----------------------------
(***************************************************************************)
(* The job manager (data_structures/flink/jobmanager.cpp): which locations *)
(* load balancing may choose for an operator, and what it tells the nodes  *)
(* about the job.  A location is a slot of a node; the slots' state is in  *)
(* the nodes' task managers, which the resource manager points at.         *)
(***************************************************************************)
EXTENDS TaskManager

CONSTANTS
  NNodes,     \* number of nodes
  Oper,       \* operators of the job
  Locations,  \* the locations each operator was deployed to
  Dest,       \* the operators each operator sends its output to, in order
  First,      \* the operator the producer's messages go to
  EndOps      \* the last operators

NodeId == 0 .. NNodes - 1

Location(node, slot) == [node |-> node, slot |-> slot]

ASSUME JobAssumption ==
  /\ NNodes \in Nat \ {0}
  /\ IsFiniteSet(Slot) /\ IsFiniteSet(Oper)
  /\ First \in Oper /\ EndOps \subseteq Oper
  /\ Dest \in [Oper -> Seq(Oper)]
  /\ Locations \in [Oper -> (SUBSET [node : NodeId, slot : Slot]) \ {{}}]
  /\ \A o, p \in Oper : o # p => Locations[o] \cap Locations[p] = {}

OperatorAt(node, slot) == CHOOSE o \in Oper : Location(node, slot) \in Locations[o]

LastOperator(o) == o \in EndOps

(* The messages queued on a location, where tms is every node's task manager. *)
NTuples(tms, loc) == Len(tms[loc.node].tuples[loc.slot])

ShorterQueue(tms, locs) == {l \in locs : \A k \in locs : NTuples(tms, l) <= NTuples(tms, k)}

(* One of the free locations at random, or of those with the shortest queue. *)
OperLocationLessload(tms, o) ==
  LET free == {l \in Locations[o] : l.slot \notin tms[l.node].active}
  IN  IF free # {} THEN free ELSE ShorterQueue(tms, Locations[o])
=============================================================================
