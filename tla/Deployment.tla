----------------------------- MODULE Deployment -----------------------------
(***************************************************************************)
(* The deployment of a job (deployJob in data_structures/flink/            *)
(* jobmanager.tpp): every replica of every operator reserves a slot on the *)
(* next node, round robin across operators, and the job master records the *)
(* location.  A step is one turn of the inner loop.  Slots and nodes are   *)
(* numbered from zero, operators too.                                      *)
(***************************************************************************)
EXTENDS Integers, Sequences

CONSTANTS
  NNodes,         \* number of nodes
  NOperators,     \* number of operators
  MaxReplication  \* bound: the replicas of an operator

ASSUME DeploymentAssumption ==
  /\ NNodes \in Nat \ {0}
  /\ NOperators \in Nat \ {0}
  /\ MaxReplication \in Nat

NodeId == 0 .. NNodes - 1
OperId == 0 .. NOperators - 1

VARIABLES
  replication,  \* the replicas of each operator
  slots,        \* slots[n]: the operators that the slots of node n are for
  locations,    \* locations[o]: where operator o is, in order
  oper,         \* the operator being deployed; NOperators at the end
  i,            \* its replicas already deployed
  node          \* the node that takes the next one

vars == <<replication, slots, locations, oper, i, node>>
-----------------------------------------------------------------------------
Init ==
  /\ replication \in [OperId -> 0 .. MaxReplication]
  /\ slots = [n \in NodeId |-> <<>>]
  /\ locations = [o \in OperId |-> <<>>]
  /\ oper = 0
  /\ i = 0
  /\ node = 0

(* The new slot's identifier is the number of slots before it. *)
ReserveSlot(n, o) == slots' = [slots EXCEPT ![n] = Append(@, o)]
NextSlotId(n) == Len(slots[n])

(* Faulty variants: each operator starts over at the first node, or every   *)
(* second node is left out.                                                 *)
NextNodeOfOperator == IF i + 1 = replication[oper] \/ node + 1 = NNodes THEN 0 ELSE node + 1
NextNodeSkipping == IF node + 2 >= NNodes THEN 0 ELSE node + 2
NextNode == IF node + 1 = NNodes THEN 0 ELSE node + 1

(* Faulty variant: the location is recorded after the slot's identifier has *)
(* moved on.                                                                *)
LocationAfter(n) == [node |-> n, slot |-> NextSlotId(n) + 1]
LocationOn(n)    == [node |-> n, slot |-> NextSlotId(n)]

Assign ==
  /\ oper < NOperators /\ i < replication[oper]
  /\ ReserveSlot(node, oper)
  /\ locations' = [locations EXCEPT ![oper] = Append(@, LocationOn(node))]
  /\ node' = NextNode
  /\ i' = i + 1
  /\ UNCHANGED <<replication, oper>>

NextOperator ==
  /\ oper < NOperators /\ i = replication[oper]
  /\ oper' = oper + 1
  /\ i' = 0
  /\ UNCHANGED <<replication, slots, locations, node>>

Next == Assign \/ NextOperator

Spec == Init /\ [][Next]_vars
-----------------------------------------------------------------------------
TypeOK ==
  /\ replication \in [OperId -> 0 .. MaxReplication]
  /\ slots \in [NodeId -> Seq(OperId)]
  /\ locations \in [OperId -> Seq([node : NodeId, slot : Nat])]
  /\ oper \in 0 .. NOperators
  /\ i \in Nat
  /\ node \in NodeId

(* The nodes before the next one have one slot more than the others: no node *)
(* has two more than another, however the replicas divide among operators.   *)
Balanced ==
  \A n, k \in NodeId : Len(slots[n]) = Len(slots[k]) + (IF n < node /\ node <= k THEN 1 ELSE
                                                        IF k < node /\ node <= n THEN -1 ELSE 0)

(* A location that load balancing may choose for an operator is a slot       *)
(* reserved for it.                                                          *)
LocationsReserved ==
  \A o \in OperId : \A k \in 1 .. Len(locations[o]) :
    LET l == locations[o][k]
    IN  l.slot < Len(slots[l.node]) /\ slots[l.node][l.slot + 1] = o

(* Conversely every slot is the location of its operator, once.              *)
SlotsLocated ==
  \A n \in NodeId : \A s \in 1 .. Len(slots[n]) :
    LET at == locations[slots[n][s]]
    IN  \E k \in 1 .. Len(at) : \A j \in 1 .. Len(at) : at[j] = [node |-> n, slot |-> s - 1] <=> j = k

(* The job master and the task managers agree: each location recorded is a   *)
(* slot reserved for that operator, and each slot reserved is recorded once. *)
LocationsExact == LocationsReserved /\ SlotsLocated

(* An operator's replicas are spread: with no more of them than nodes, no    *)
(* two share a node.                                                         *)
Spread ==
  \A o \in OperId : replication[o] <= NNodes =>
    \A j, k \in 1 .. Len(locations[o]) : locations[o][j].node = locations[o][k].node => j = k
=============================================================================
