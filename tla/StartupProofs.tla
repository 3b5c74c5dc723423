---------------------------- MODULE StartupProofs ----------------------------
(***************************************************************************)
(* Theorems about Startup.  Of the deployment (Spec), for any number of    *)
(* nodes, operators and replicas: the nodes are balanced, and the          *)
(* locations that the job master records are exactly the slots that the    *)
(* task managers reserve.  Of the parts (StartupSpec), for any workloads   *)
(* and any files: the producer changes to a line neither late nor early,   *)
(* what the files say of an operator is stored under its number, and the   *)
(* captures are reported under the rate that was in force.                 *)
(***************************************************************************)
EXTENDS Startup, DataLemmas

LEMMA InitType == Init => TypeOK
BY DeploymentAssumption DEF Init, TypeOK, OperId, NodeId

(* The node of the next replica is one of them, and what its assignment       *)
(* leaves in the slots and the locations.                                     *)
LEMMA NextNodeType ==
  ASSUME TypeOK
  PROVE  NextNode \in NodeId
BY DeploymentAssumption DEF TypeOK, NextNode, NodeId

LEMMA AssignSlots ==
  ASSUME TypeOK, Assign
  PROVE  /\ oper \in OperId
         /\ slots' \in [NodeId -> Seq(OperId)]
         /\ Len(slots'[node]) = Len(slots[node]) + 1
         /\ slots'[node][Len(slots[node]) + 1] = oper
         /\ \A k \in 1 .. Len(slots[node]) : slots'[node][k] = slots[node][k]
         /\ \A n \in NodeId : n # node => slots'[n] = slots[n]
<1>1. oper \in OperId
  BY DeploymentAssumption DEF TypeOK, Assign, OperId
<1>2. slots' = [slots EXCEPT ![node] = Append(slots[node], oper)]
  BY DEF Assign, ReserveSlot
<1>3. node \in NodeId /\ slots \in [NodeId -> Seq(OperId)] /\ slots[node] \in Seq(OperId)
  BY DEF TypeOK
<1>4. slots'[node] = Append(slots[node], oper)
  BY <1>2, <1>3
<1>5. /\ Append(slots[node], oper) \in Seq(OperId)
      /\ Len(Append(slots[node], oper)) = Len(slots[node]) + 1
      /\ Append(slots[node], oper)[Len(slots[node]) + 1] = oper
      /\ \A k \in 1 .. Len(slots[node]) : Append(slots[node], oper)[k] = slots[node][k]
  BY <1>1, <1>3
<1>6. slots' \in [NodeId -> Seq(OperId)] /\ \A n \in NodeId : n # node => slots'[n] = slots[n]
  BY <1>2, <1>3, <1>5
<1>7. QED
  BY <1>1, <1>4, <1>5, <1>6

LEMMA AssignLocations ==
  ASSUME TypeOK, Assign
  PROVE  /\ locations' \in [OperId -> Seq([node : NodeId, slot : Nat])]
         /\ Len(locations'[oper]) = Len(locations[oper]) + 1
         /\ locations'[oper][Len(locations[oper]) + 1] = [node |-> node, slot |-> Len(slots[node])]
         /\ \A k \in 1 .. Len(locations[oper]) : locations'[oper][k] = locations[oper][k]
         /\ \A o \in OperId : o # oper => locations'[o] = locations[o]
<1> DEFINE Loc == [node : NodeId, slot : Nat]
           new == [node |-> node, slot |-> Len(slots[node])]
<1>1. oper \in OperId
  BY AssignSlots
<1>2. new \in Loc
  BY DEF TypeOK
<1>3. locations' = [locations EXCEPT ![oper] = Append(locations[oper], new)]
  BY DEF Assign, LocationOn, NextSlotId
<1>4. locations \in [OperId -> Seq(Loc)] /\ locations[oper] \in Seq(Loc)
  BY <1>1 DEF TypeOK
<1> HIDE DEF Loc, new
<1>5. locations'[oper] = Append(locations[oper], new)
  BY <1>1, <1>3, <1>4
<1>6. /\ Append(locations[oper], new) \in Seq(Loc)
      /\ Len(Append(locations[oper], new)) = Len(locations[oper]) + 1
      /\ Append(locations[oper], new)[Len(locations[oper]) + 1] = new
      /\ \A k \in 1 .. Len(locations[oper]) : Append(locations[oper], new)[k] = locations[oper][k]
  BY <1>2, <1>4
<1>7. locations' \in [OperId -> Seq(Loc)] /\ \A o \in OperId : o # oper => locations'[o] = locations[o]
  BY <1>1, <1>3, <1>4, <1>6
<1>8. QED
  BY <1>5, <1>6, <1>7 DEF Loc, new

LEMMA NextType == TypeOK /\ [Next]_vars => TypeOK'
<1>1. ASSUME TypeOK, Assign PROVE TypeOK'
  <2>1. slots' \in [NodeId -> Seq(OperId)]
    BY <1>1, AssignSlots
  <2>2. locations' \in [OperId -> Seq([node : NodeId, slot : Nat])]
    BY <1>1, AssignLocations
  <2>3. node' \in NodeId
    BY <1>1, NextNodeType DEF Assign
  <2>4. i' \in Nat /\ oper' \in 0 .. NOperators /\ replication' \in [OperId -> 0 .. MaxReplication]
    BY <1>1 DEF Assign, TypeOK
  <2>5. QED
    BY <2>1, <2>2, <2>3, <2>4 DEF TypeOK
<1>2. ASSUME TypeOK, NextOperator PROVE TypeOK'
  <2>1. oper' \in 0 .. NOperators
    <3>1. oper \in 0 .. NOperators /\ oper < NOperators /\ oper' = oper + 1
      BY <1>2 DEF NextOperator, TypeOK
    <3>2. QED
      BY <3>1, DeploymentAssumption
  <2>2. i' \in Nat
    BY <1>2 DEF NextOperator
  <2>3. /\ replication' = replication /\ slots' = slots
        /\ locations' = locations /\ node' = node
    BY <1>2 DEF NextOperator
  <2>4. QED
    BY <1>2, <2>1, <2>2, <2>3 DEF TypeOK
<1>3. ASSUME TypeOK, UNCHANGED vars PROVE TypeOK'
  BY <1>3 DEF vars, TypeOK
<1>4. QED
  BY <1>1, <1>2, <1>3 DEF Next

(* The deployment keeps its types: the next node is always one of the nodes.  *)
THEOREM TypeCorrect == Spec => []TypeOK
<1>1. QED
  BY InitType, NextType, PTL DEF Spec
-----------------------------------------------------------------------------
(* Only the next node gets a slot, and the next one after it is the first of  *)
(* those that have fewer, or the first of all when every node has as many.    *)
LEMMA NextBalanced == TypeOK /\ Balanced /\ [Next]_vars => Balanced'
<1>1. ASSUME TypeOK, Balanced, Assign, NEW n \in NodeId, NEW k \in NodeId
      PROVE  Len(slots'[n]) = Len(slots'[k]) + (IF n < node' /\ node' <= k THEN 1 ELSE
                                                IF k < node' /\ node' <= n THEN -1 ELSE 0)
  <2>1. node \in Nat /\ node <= NNodes - 1 /\ n \in Nat /\ k \in Nat /\ n <= NNodes - 1 /\ k <= NNodes - 1
    BY <1>1, DeploymentAssumption DEF TypeOK, NodeId
  <2>2. \A m \in NodeId : Len(slots[m]) \in Nat
    BY <1>1 DEF TypeOK
  <2>3. \A m \in NodeId : Len(slots'[m]) = IF m = node THEN Len(slots[m]) + 1 ELSE Len(slots[m])
    BY <1>1, AssignSlots
  <2>4. Len(slots[n]) = Len(slots[k]) + (IF n < node /\ node <= k THEN 1 ELSE
                                         IF k < node /\ node <= n THEN -1 ELSE 0)
    BY <1>1 DEF Balanced
  <2>5. node' = IF node + 1 = NNodes THEN 0 ELSE node + 1
    BY <1>1 DEF Assign, NextNode
  <2> DEFINE ln == Len(slots[n])
             lk == Len(slots[k])
  <2>6. ln \in Nat /\ lk \in Nat
    BY <2>2
  <2>7. /\ Len(slots'[n]) = IF n = node THEN ln + 1 ELSE ln
        /\ Len(slots'[k]) = IF k = node THEN lk + 1 ELSE lk
    BY <2>3
  <2>8. ln = lk + (IF n < node /\ node <= k THEN 1 ELSE IF k < node /\ node <= n THEN -1 ELSE 0)
    BY <2>4
  <2> HIDE DEF ln, lk
  <2>9. CASE node + 1 = NNodes
    BY <2>1, <2>5, <2>6, <2>7, <2>8, <2>9, DeploymentAssumption
  <2>10. CASE node + 1 # NNodes
    BY <2>1, <2>5, <2>6, <2>7, <2>8, <2>10, DeploymentAssumption
  <2>11. QED
    BY <2>9, <2>10
<1>2. ASSUME Balanced, slots' = slots, node' = node PROVE Balanced'
  BY <1>2 DEF Balanced
<1>3. QED
  BY <1>1, <1>2 DEF Next, NextOperator, vars, Balanced

(* The nodes' numbers of slots never differ by more than one, and which have  *)
(* one more is told by the cursor that runs on from operator to operator.     *)
THEOREM BalancedAlways == Spec => []Balanced
<1>1. Init => Balanced
  <2>1. ASSUME Init, NEW n \in NodeId, NEW k \in NodeId
        PROVE  Len(slots[n]) = Len(slots[k]) + (IF n < node /\ node <= k THEN 1 ELSE
                                                IF k < node /\ node <= n THEN -1 ELSE 0)
    BY <2>1, DeploymentAssumption DEF Init, NodeId
  <2>2. QED
    BY <2>1 DEF Balanced
<1>2. QED
  BY <1>1, TypeCorrect, NextBalanced, PTL DEF Spec
-----------------------------------------------------------------------------
(* A recorded location stays a slot of its operator: slots are only added, at *)
(* the end, and the new location is the place of the new slot.                *)
LEMMA AssignReserved ==
  ASSUME TypeOK, LocationsReserved, Assign
  PROVE  LocationsReserved'
<1> SUFFICES ASSUME NEW o \in OperId, NEW k \in 1 .. Len(locations'[o])
             PROVE  /\ locations'[o][k].slot < Len(slots'[locations'[o][k].node])
                    /\ slots'[locations'[o][k].node][locations'[o][k].slot + 1] = o
  BY DEF LocationsReserved
<1>1. CASE o = oper /\ k = Len(locations[oper]) + 1
  <2>1. locations'[o][k] = [node |-> node, slot |-> Len(slots[node])]
    BY <1>1, AssignLocations
  <2>2. /\ Len(slots'[node]) = Len(slots[node]) + 1
        /\ slots'[node][Len(slots[node]) + 1] = oper
    BY AssignSlots
  <2>3. Len(slots[node]) \in Nat
    BY DEF TypeOK
  <2>4. QED
    BY <1>1, <2>1, <2>2, <2>3
<1>2. CASE ~(o = oper /\ k = Len(locations[oper]) + 1)
  <2> DEFINE l == locations[o][k]
  <2>1. Len(locations[o]) \in Nat
    BY DEF TypeOK
  <2>2. k \in 1 .. Len(locations[o]) /\ locations'[o][k] = l
    <3>1. CASE o = oper
      BY SMTT(40), <1>2, <2>1, <3>1, AssignLocations
    <3>2. CASE o # oper
      BY <3>2, AssignLocations
    <3>3. QED
      BY <3>1, <3>2
  <2>3. l.slot < Len(slots[l.node]) /\ slots[l.node][l.slot + 1] = o
    BY <2>2 DEF LocationsReserved
  <2>4. l.node \in NodeId /\ l.slot \in Nat
    <3> DEFINE Place == [node : NodeId, slot : Nat]
    <3>1. locations[o] \in Seq(Place)
      BY DEF TypeOK
    <3>2. l \in Place
      <4> HIDE DEF Place
      <4>1. QED
        BY <2>2, <3>1
    <3>3. QED
      BY <3>2
  <2> HIDE DEF l
  <2>5. Len(slots[l.node]) \in Nat
    BY <2>4 DEF TypeOK
  <2>6. CASE l.node = node
    <3>1. l.slot + 1 \in 1 .. Len(slots[node])
      BY <2>3, <2>4, <2>5, <2>6
    <3>2. /\ Len(slots'[node]) = Len(slots[node]) + 1
          /\ slots'[node][l.slot + 1] = slots[node][l.slot + 1]
      BY <3>1, AssignSlots
    <3>3. QED
      BY <2>2, <2>3, <2>4, <2>5, <2>6, <3>2
  <2>7. CASE l.node # node
    <3>1. slots'[l.node] = slots[l.node]
      BY <2>4, <2>7, AssignSlots
    <3>2. QED
      BY <2>2, <2>3, <3>1
  <2>8. QED
    BY <2>6, <2>7
<1>3. QED
  BY <1>1, <1>2

(* A slot keeps its one location, and the new slot gets one: no location was  *)
(* recorded for it before, since every location is a slot already reserved.   *)
LEMMA AssignLocated ==
  ASSUME TypeOK, LocationsReserved, SlotsLocated, Assign
  PROVE  SlotsLocated'
<1> DEFINE Loc(n, s) == [node |-> n, slot |-> s - 1]
<1> SUFFICES ASSUME NEW n \in NodeId, NEW s \in 1 .. Len(slots'[n])
             PROVE  \E k \in 1 .. Len(locations'[slots'[n][s]]) :
                      \A j \in 1 .. Len(locations'[slots'[n][s]]) :
                        locations'[slots'[n][s]][j] = Loc(n, s) <=> j = k
  BY DEF SlotsLocated
<1>0. /\ node \in NodeId
      /\ \A m \in NodeId : Len(slots[m]) \in Nat
      /\ \A o \in OperId : Len(locations[o]) \in Nat
  BY DEF TypeOK
<1>1. CASE n = node /\ s = Len(slots[node]) + 1
  <2> DEFINE last == Len(locations[oper]) + 1
  <2>1. slots'[n][s] = oper /\ oper \in OperId
    BY <1>1, AssignSlots
  <2>2. Len(locations'[oper]) = last /\ last \in 1 .. last
    BY <1>0, <2>1, AssignLocations
  <2>3. locations'[oper][last] = Loc(n, s)
    BY <1>0, <1>1, AssignLocations
  <2>4. ASSUME NEW j \in 1 .. last, j # last
        PROVE  locations'[oper][j] # Loc(n, s)
    <3>1. j \in 1 .. Len(locations[oper])
      BY <1>0, <2>1, <2>4
    <3>2. locations'[oper][j] = locations[oper][j]
      BY <3>1, AssignLocations
    <3>3. locations[oper][j].slot < Len(slots[locations[oper][j].node])
      BY <2>1, <3>1 DEF LocationsReserved
    <3>4. ASSUME locations[oper][j] = Loc(n, s) PROVE FALSE
      <4>1. locations[oper][j].slot = s - 1 /\ locations[oper][j].node = n
        BY <3>4
      <4>2. QED
        BY <1>0, <1>1, <3>3, <4>1
    <3>5. QED
      BY <3>2, <3>4
  <2>5. QED
    BY <2>1, <2>2, <2>3, <2>4
<1>2. CASE ~(n = node /\ s = Len(slots[node]) + 1)
  <2> DEFINE o == slots[n][s]
  <2>1. s \in 1 .. Len(slots[n]) /\ slots'[n][s] = o
    <3>1. CASE n = node
      BY <1>0, <1>2, <3>1, AssignSlots
    <3>2. CASE n # node
      BY <3>2, AssignSlots
    <3>3. QED
      BY <3>1, <3>2
  <2>2. o \in OperId
    <3>1. slots[n] \in Seq(OperId)
      BY DEF TypeOK
    <3>2. QED
      BY <2>1, <3>1
  <2>3. PICK k \in 1 .. Len(locations[o]) :
          \A j \in 1 .. Len(locations[o]) : locations[o][j] = Loc(n, s) <=> j = k
    BY <2>1 DEF SlotsLocated
  <2> HIDE DEF o
  <2>4. CASE o # oper
    <3>1. locations'[o] = locations[o]
      BY <2>2, <2>4, AssignLocations
    <3> HIDE DEF Loc
    <3>2. \A j \in 1 .. Len(locations'[o]) : locations'[o][j] = Loc(n, s) <=> j = k
      BY <2>3, <3>1
    <3>3. k \in 1 .. Len(locations'[o])
      BY <2>3, <3>1
    <3>4. QED
      BY <2>1, <3>2, <3>3
  <2>5. CASE o = oper
    <3> DEFINE last == Len(locations[oper]) + 1
    <3>1. /\ Len(locations'[o]) = last
          /\ locations'[o][last] = [node |-> node, slot |-> Len(slots[node])]
          /\ \A j \in 1 .. Len(locations[o]) : locations'[o][j] = locations[o][j]
      BY <2>5, AssignLocations
    <3>2. k \in 1 .. last /\ k # last
      BY <1>0, <2>2, <2>3, <2>5
    <3>3. locations'[o][last] # Loc(n, s)
      <4>1. ASSUME [node |-> node, slot |-> Len(slots[node])] = [node |-> n, slot |-> s - 1] PROVE FALSE
        <5>1. node = n /\ Len(slots[node]) = s - 1
          BY <4>1
        <5>2. QED
          BY <1>0, <1>2, <2>1, <5>1
      <4>2. QED
        BY <3>1, <4>1
    <3>4. ASSUME NEW j \in 1 .. last PROVE locations'[o][j] = Loc(n, s) <=> j = k
      <4>1. CASE j = last
        BY <3>2, <3>3, <4>1
      <4>2. CASE j # last
        <5>1. j \in 1 .. Len(locations[o])
          BY <1>0, <2>2, <2>5, <4>2
        <5>2. QED
          BY <2>3, <3>1, <5>1
      <4>3. QED
        BY <4>1, <4>2
    <3> HIDE DEF Loc, last
    <3>5. \A j \in 1 .. Len(locations'[o]) : locations'[o][j] = Loc(n, s) <=> j = k
      BY <3>1, <3>4
    <3>6. k \in 1 .. Len(locations'[o])
      BY <3>1, <3>2
    <3>7. QED
      BY <2>1, <3>5, <3>6
  <2>6. QED
    BY <2>4, <2>5
<1>3. QED
  BY <1>1, <1>2

LEMMA NextExact == TypeOK /\ LocationsExact /\ [Next]_vars => LocationsExact'
<1>1. ASSUME TypeOK, LocationsExact, Assign PROVE LocationsExact'
  <2>1. LocationsReserved'
    BY <1>1, AssignReserved DEF LocationsExact
  <2>2. SlotsLocated'
    BY <1>1, AssignLocated DEF LocationsExact
  <2>3. QED
    BY <2>1, <2>2 DEF LocationsExact
<1>2. ASSUME LocationsExact, slots' = slots, locations' = locations PROVE LocationsExact'
  BY <1>2 DEF LocationsExact, LocationsReserved, SlotsLocated
<1>3. QED
  BY <1>1, <1>2 DEF Next, NextOperator, vars

(* What the job master may choose for an operator is a slot that a node       *)
(* reserved for it, and every slot is the operator's location exactly once.   *)
THEOREM LocationsExactAlways == Spec => []LocationsExact
<1>1. Init => LocationsExact
  <2>1. ASSUME Init, NEW o \in OperId PROVE Len(locations[o]) = 0
    BY <2>1 DEF Init
  <2>2. ASSUME Init, NEW n \in NodeId PROVE Len(slots[n]) = 0
    BY <2>2 DEF Init
  <2>3. QED
    BY <2>1, <2>2 DEF LocationsExact, LocationsReserved, SlotsLocated
<1>2. QED
  BY <1>1, TypeCorrect, NextExact, PTL DEF Spec
-----------------------------------------------------------------------------
(* The nodes of an operator's replicas follow one another: d replicas on, the *)
(* node is d on, or has wrapped around once.  The cursor is where the next    *)
(* replica of the present operator goes.                                      *)
After(n, k, d) == k - n = d \/ k - n = d - NNodes

At(l, k) == l[k].node

Following ==
  \A o \in OperId : replication[o] <= NNodes =>
    \A j, k \in 1 .. Len(locations[o]) : j < k => After(At(locations[o], j), At(locations[o], k), k - j)

CursorFollows ==
  oper < NOperators /\ replication[oper] <= NNodes =>
    \A k \in 1 .. i : After(At(locations[oper], k), node, i + 1 - k)

Counts ==
  /\ \A o \in OperId : Len(locations[o]) <= replication[o] /\ (o > oper => Len(locations[o]) = 0)
  /\ oper < NOperators => Len(locations[oper]) = i /\ i <= replication[oper]

SpreadInv == TypeOK /\ Counts /\ Following /\ CursorFollows

LEMMA NodesType ==
  ASSUME TypeOK, NEW o \in OperId
  PROVE  /\ Len(locations[o]) \in Nat /\ replication[o] \in Nat
         /\ \A k \in 1 .. Len(locations[o]) : At(locations[o], k) \in NodeId
<1> DEFINE Place == [node : NodeId, slot : Nat]
<1>1. locations[o] \in Seq(Place) /\ replication[o] \in 0 .. MaxReplication
  BY DEF TypeOK
<1>2. \A k \in 1 .. Len(locations[o]) : locations[o][k] \in Place
  <2> HIDE DEF Place
  <2>1. QED
    BY <1>1
<1>3. QED
  BY <1>1, <1>2, DeploymentAssumption DEF At

LEMMA AssignSpread ==
  ASSUME SpreadInv, Assign
  PROVE  SpreadInv'
<1>1. /\ TypeOK /\ TypeOK' /\ oper \in OperId /\ oper < NOperators
      /\ i \in Nat /\ node \in NodeId /\ node' \in NodeId
      /\ NNodes \in Nat \ {0} /\ oper \in Nat
  <2>1. TypeOK /\ TypeOK'
    BY NextType DEF SpreadInv, Next
  <2>2. oper \in OperId
    BY <2>1, AssignSlots
  <2>3. i \in Nat /\ node \in NodeId /\ node' \in NodeId
    BY <2>1 DEF TypeOK
  <2>4. oper < NOperators /\ oper \in Nat /\ NNodes \in Nat \ {0}
    BY <2>2, DeploymentAssumption DEF Assign, OperId
  <2>5. QED
    BY <2>1, <2>2, <2>3, <2>4
<1>2. /\ i < replication[oper] /\ i' = i + 1 /\ oper' = oper /\ replication' = replication
      /\ node' = IF node + 1 = NNodes THEN 0 ELSE node + 1
  BY DEF Assign, NextNode
<1>3. Len(locations[oper]) = i
  BY <1>1 DEF SpreadInv, Counts
<1>4. /\ Len(locations'[oper]) = i + 1
      /\ At(locations'[oper], i + 1) = node
      /\ \A k \in 1 .. i : At(locations'[oper], k) = At(locations[oper], k)
  <2>1. /\ Len(locations'[oper]) = i + 1
        /\ locations'[oper][i + 1] = [node |-> node, slot |-> Len(slots[node])]
        /\ \A k \in 1 .. i : locations'[oper][k] = locations[oper][k]
    BY <1>1, <1>3, AssignLocations
  <2>2. QED
    BY <2>1 DEF At
<1>5. \A o \in OperId : o # oper => /\ Len(locations'[o]) = Len(locations[o])
                                    /\ \A k : At(locations'[o], k) = At(locations[o], k)
  BY <1>1, AssignLocations DEF At
<1>6. Counts'
  <2>1. ASSUME NEW o \in OperId
        PROVE  Len(locations'[o]) <= replication'[o] /\ (o > oper' => Len(locations'[o]) = 0)
    <3>1. CASE o = oper
      BY <1>1, <1>2, <1>4, <3>1, NodesType
    <3>2. CASE o # oper
      BY <1>2, <1>5, <3>2 DEF SpreadInv, Counts
    <3>3. QED
      BY <3>1, <3>2
  <2>2. QED
    BY <1>1, <1>2, <1>4, <2>1, NodesType DEF Counts
<1>7. \A k \in 1 .. i : At(locations[oper], k) \in NodeId
  BY <1>1, <1>3, NodesType
<1>8. Following'
  <2>1. ASSUME NEW o \in OperId, replication'[o] <= NNodes,
               NEW j \in 1 .. Len(locations'[o]), NEW k \in 1 .. Len(locations'[o]), j < k
        PROVE  After(At(locations'[o], j), At(locations'[o], k), k - j)
    <3>1. CASE o # oper
      BY <1>2, <1>5, <2>1, <3>1 DEF SpreadInv, Following
    <3>2. CASE o = oper /\ k # i + 1
      <4>1. j \in 1 .. i /\ k \in 1 .. i
        BY <1>1, <1>4, <2>1, <3>2
      <4>2. After(At(locations[oper], j), At(locations[oper], k), k - j)
        BY <1>1, <1>2, <1>3, <2>1, <3>2, <4>1 DEF SpreadInv, Following
      <4>3. QED
        BY <1>4, <3>2, <4>1, <4>2
    <3>3. CASE o = oper /\ k = i + 1
      <4>1. j \in 1 .. i
        BY <1>1, <1>4, <2>1, <3>3
      <4>2. After(At(locations[oper], j), node, i + 1 - j)
        BY <1>1, <1>2, <2>1, <3>3, <4>1 DEF SpreadInv, CursorFollows
      <4>3. QED
        BY <1>1, <1>4, <3>3, <4>1, <4>2 DEF After
    <3>4. QED
      BY <3>1, <3>2, <3>3
  <2>2. QED
    BY <2>1 DEF Following, After
<1>9. CursorFollows'
  <2>1. ASSUME replication[oper] <= NNodes, NEW k \in 1 .. i + 1
        PROVE  After(At(locations'[oper], k), node', i + 2 - k)
    <3>1. CASE k = i + 1
      <4>1. node' - node = 1 \/ node' - node = 1 - NNodes
        BY <1>1, <1>2 DEF NodeId
      <4>2. At(locations'[oper], k) = node
        BY <1>4, <3>1
      <4>3. i + 2 - k = 1
        BY <1>1, <3>1
      <4>4. QED
        BY <4>1, <4>2, <4>3 DEF After
    <3>2. CASE k # i + 1
      <4> DEFINE prior == At(locations[oper], k)
      <4>1. k \in 1 .. i /\ prior \in NodeId
        BY <1>1, <1>7, <2>1, <3>2
      <4>2. node - prior = i + 1 - k \/ node - prior = i + 1 - k - NNodes
        BY <1>1, <2>1, <4>1 DEF SpreadInv, CursorFollows, After
      <4>3. replication[oper] \in Nat
        BY <1>1, NodesType
      <4>4. At(locations'[oper], k) = prior
        BY <1>4, <4>1
      <4> HIDE DEF prior
      <4>5. node' - prior = i + 2 - k \/ node' - prior = i + 2 - k - NNodes
        BY <1>1, <1>2, <2>1, <4>1, <4>2, <4>3 DEF NodeId
      <4>6. QED
        BY <1>1, <1>2, <4>1, <4>4, <4>5 DEF After, NodeId
    <3>3. QED
      BY <3>1, <3>2
  <2>2. \A k \in Int : i' + 1 - k = i + 2 - k
    BY <1>1, <1>2
  <2>3. ASSUME replication[oper] <= NNodes, NEW k \in 1 .. i'
        PROVE  After(At(locations'[oper], k), node', i' + 1 - k)
    BY <1>1, <1>2, <2>1, <2>2, <2>3
  <2>4. QED
    BY <1>2, <2>3 DEF CursorFollows, After, At
<1>10. QED
  BY <1>1, <1>6, <1>8, <1>9 DEF SpreadInv

LEMMA NextSpread == SpreadInv /\ [Next]_vars => SpreadInv'
<1>1. ASSUME SpreadInv, NextOperator PROVE SpreadInv'
  <2>1. TypeOK'
    BY <1>1, NextType DEF SpreadInv, Next
  <2>2. /\ oper' = oper + 1 /\ i' = 0 /\ oper \in Nat /\ oper < NOperators
        /\ locations' = locations /\ replication' = replication
    BY <1>1, DeploymentAssumption DEF NextOperator, SpreadInv, TypeOK
  <2>3. Counts'
    <3>1. \A o \in OperId : Len(locations[o]) <= replication[o] /\ (o > oper' => Len(locations[o]) = 0)
      BY <1>1, <2>2 DEF SpreadInv, Counts, OperId
    <3>2. ASSUME oper' < NOperators
          PROVE  Len(locations[oper']) = 0 /\ 0 <= replication[oper']
      <4>1. oper' \in OperId /\ oper' > oper
        BY <2>2, <3>2, DeploymentAssumption DEF OperId
      <4>2. QED
        BY <1>1, <4>1, NodesType DEF SpreadInv, Counts
    <3>3. QED
      BY <2>2, <3>1, <3>2 DEF Counts
  <2>4. Following'
    BY <1>1, <2>2 DEF SpreadInv, Following, After, At
  <2>5. CursorFollows'
    BY <2>2 DEF CursorFollows
  <2>6. QED
    BY <2>1, <2>3, <2>4, <2>5 DEF SpreadInv
<1>2. ASSUME SpreadInv, UNCHANGED vars PROVE SpreadInv'
  BY <1>2 DEF vars, SpreadInv, TypeOK, Counts, Following, CursorFollows, After, At
<1>3. QED
  BY <1>1, <1>2, AssignSpread DEF Next

(* An operator with no more replicas than there are nodes never has two of    *)
(* them on one node, wherever the operators before it left the cursor.        *)
THEOREM SpreadAlways == Spec => []Spread
<1>1. Init => SpreadInv
  <2>1. ASSUME Init PROVE SpreadInv
    <3>1. TypeOK /\ oper = 0 /\ i = 0 /\ \A o \in OperId : Len(locations[o]) = 0
      BY <2>1, InitType DEF Init
    <3>2. Counts
      <4>1. 0 \in OperId
        BY DeploymentAssumption DEF OperId
      <4>2. QED
        BY <3>1, <4>1, NodesType DEF Counts
    <3>3. QED
      BY <3>1, <3>2 DEF SpreadInv, Following, CursorFollows
  <2>2. QED
    BY <2>1
<1>2. SpreadInv => Spread
  <2>1. ASSUME SpreadInv, NEW o \in OperId, replication[o] <= NNodes,
               NEW j \in 1 .. Len(locations[o]), NEW k \in 1 .. Len(locations[o]), j < k
        PROVE  At(locations[o], j) # At(locations[o], k)
    <3>1. /\ Len(locations[o]) \in Nat /\ replication[o] \in Nat
          /\ At(locations[o], j) \in NodeId /\ At(locations[o], k) \in NodeId
      BY <2>1, NodesType DEF SpreadInv
    <3>2. Len(locations[o]) <= replication[o] /\ After(At(locations[o], j), At(locations[o], k), k - j)
      BY <2>1 DEF SpreadInv, Counts, Following
    <3>3. QED
      BY <2>1, <3>1, <3>2, DeploymentAssumption DEF After, NodeId
  <2>2. ASSUME SpreadInv, NEW o \in OperId, replication[o] <= NNodes,
               NEW j \in 1 .. Len(locations[o]), NEW k \in 1 .. Len(locations[o]),
               At(locations[o], j) = At(locations[o], k)
        PROVE  j = k
    <3>1. Len(locations[o]) \in Nat
      BY <2>2, NodesType DEF SpreadInv
    <3>2. ~(j < k) /\ ~(k < j)
      BY <2>1, <2>2
    <3>3. QED
      BY <3>1, <3>2
  <2>3. QED
    BY <2>2 DEF Spread, At
<1>3. QED
  BY <1>1, <1>2, NextSpread, PTL DEF Spec
-----------------------------------------------------------------------------
(* The producer.                                                             *)

(* The number of requests up to each line. *)
LEMMA RequestsToLine ==
  /\ ByReq!RequestsTo[0] = 0
  /\ \A l \in 1 .. Len(Requests) :
       /\ Requests[l].first \in Nat \ {0}
       /\ ByReq!RequestsTo[l - 1] \in Nat /\ ByReq!RequestsTo[l] \in Nat
       /\ ByReq!RequestsTo[l] = ByReq!RequestsTo[l - 1] + Requests[l].first
<1> DEFINE N == Len(Requests)
           First(l) == Requests[l].first
           to == ByReq!RequestsTo
           F == [l \in 1 .. N |-> [q \in Nat |-> q + First(l)]]
           Step(f) == [l \in 0 .. N |-> IF l = 0 THEN 0 ELSE f[l - 1] + First(l)]
<1>1. N \in Nat /\ \A l \in 1 .. N : First(l) \in Nat \ {0}
  <2> DEFINE Line == [first : Nat, rate : Nat]
  <2>1. Requests \in Seq(Line)
    BY StartupAssumption DEF ByReq!ProducerAssumption
  <2>2. N \in Nat /\ \A l \in 1 .. N : Requests[l] \in Line /\ l \in DOMAIN Requests
    <3> HIDE DEF Line
    <3>1. QED
      BY <2>1
  <2>3. \A l \in 1 .. N : Requests[l].first \in Nat
    BY <2>2
  <2>4. QED
    BY <2>2, <2>3, StartupAssumption
<1>2. to = CHOOSE f : f = Step(f)
  BY DEF ByReq!RequestsTo
<1> HIDE DEF N, First, to
<1>3. F \in [1 .. N -> [Nat -> Nat]]
  BY <1>1
<1>4. \E f : f = Step(f)
  <2>1. PICK r \in [0 .. N -> Nat] : Steps(r, 0, F, N)
    <3> HIDE DEF F
    <3>1. QED
      BY <1>1, <1>3, RecursionExists
  <2>2. ASSUME NEW k \in 0 .. N
        PROVE  r[k] = Step(r)[k]
    <3>1. CASE k = 0
      BY <2>1, <3>1 DEF Steps
    <3>2. CASE k # 0
      <4>1. k \in 1 .. N /\ k - 1 \in 0 .. N
        BY <1>1, <3>2
      <4>2. r[k] = F[k][r[k - 1]] /\ r[k - 1] \in Nat
        BY <2>1, <4>1 DEF Steps
      <4>3. QED
        BY <3>2, <4>1, <4>2
    <3>3. QED
      BY <3>1, <3>2
  <2>3. r = Step(r)
    BY <2>1, <2>2
  <2>4. QED
    BY <2>3
<1>5. to = Step(to)
  BY <1>2, <1>4
<1>6. to[0] = 0 /\ \A l \in 1 .. N : to[l] = to[l - 1] + First(l)
  <2>1. 0 \in 0 .. N /\ \A l \in 1 .. N : l \in 0 .. N /\ l # 0
    BY <1>1
  <2>2. QED
    BY <1>5, <2>1
<1>7. \A l \in 0 .. N : to[l] \in Nat
  <2>1. \A l \in 1 .. N : to[l - 1] \in Nat => to[l] \in Nat
    BY <1>1, <1>6
  <2>2. to[0] \in Nat
    BY <1>6
  <2>3. QED
    BY <1>1, <2>1, <2>2, StaysIn
<1>8. \A l \in 1 .. N : l \in 0 .. N /\ l - 1 \in 0 .. N
  BY <1>1
<1>9. QED
  BY <1>1, <1>6, <1>7, <1>8 DEF N, First, to

ProducerRecord(ls) ==
  [ state : Nat, mssg : Nat, arrival : Nat, now : Nat, line : ls, reqs : Nat,
    generating : BOOLEAN, last_reqs : Nat, capture_time : Nat ]

(* What the producer's operations make of its state. *)
LEMMA ProducerUpdates ==
  ASSUME NEW ls, NEW q \in ProducerRecord(ls), NEW time \in Nat
  PROVE  /\ ByReq!Generate(q, time) \in ProducerRecord(ls)
         /\ ByReq!KeepCapturing(q, time) \in ProducerRecord(ls)
         /\ ByReq!Passivate(q) \in ProducerRecord(ls)
         /\ [q EXCEPT !.capture_time = q.capture_time + time] \in ProducerRecord(ls)
         /\ \A line \in ls, reqs \in Nat :
              [q EXCEPT !.line = line, !.reqs = reqs] \in ProducerRecord(ls)
<1>1. /\ q.state + 1 \in Nat /\ q.now + time \in Nat /\ q.state \in Nat
      /\ q.capture_time + time \in Nat
  BY DEF ProducerRecord
<1>2. ByReq!Generate(q, time) \in ProducerRecord(ls)
  <2>1. ByReq!Generate(q, time)
          = [q EXCEPT !.arrival = time, !.now = q.now + time, !.state = q.state + 1,
                      !.mssg = q.state + 1]
    BY DEF ByReq!Generate
  <2>2. QED
    BY <1>1, <2>1 DEF ProducerRecord
<1>3. ByReq!KeepCapturing(q, time) \in ProducerRecord(ls)
  <2>1. ByReq!KeepCapturing(q, time)
          = [q EXCEPT !.now = q.now + time, !.arrival = time, !.mssg = 0]
    BY DEF ByReq!KeepCapturing
  <2>2. [q EXCEPT !.now = q.now + time, !.arrival = time] \in ProducerRecord(ls)
    BY <1>1 DEF ProducerRecord
  <2>3. \A r \in ProducerRecord(ls) : [r EXCEPT !.mssg = 0] \in ProducerRecord(ls)
    BY DEF ProducerRecord
  <2>4. QED
    BY <2>1, <2>2, <2>3
<1>4. ByReq!Passivate(q) \in ProducerRecord(ls)
  BY <1>1 DEF ByReq!Passivate, ProducerRecord
<1>5. [q EXCEPT !.capture_time = q.capture_time + time] \in ProducerRecord(ls)
  BY <1>1 DEF ProducerRecord
<1>6. ASSUME NEW line \in ls, NEW reqs \in Nat
      PROVE  [q EXCEPT !.line = line, !.reqs = reqs] \in ProducerRecord(ls)
  BY DEF ProducerRecord
<1>7. QED
  BY <1>2, <1>3, <1>4, <1>5, <1>6

(* The message generated last is one of the present line's, whose last one is *)
(* the number that the producer waits for.                                    *)
RequestsInv ==
  /\ p \in ProducerRecord(1 .. Len(Requests))
  /\ p.reqs = ByReq!RequestsTo[p.line]
  /\ ByReq!RequestsTo[p.line - 1] < p.state
  /\ p.state <= p.reqs
  /\ ~p.generating => p.last_reqs = ByReq!RequestsTo[Len(Requests)]

LEMMA RequestsInit == ByReq!Init => RequestsInv
<1> SUFFICES ASSUME ByReq!Init
             PROVE  RequestsInv
  OBVIOUS
<1>1. Len(Requests) \in Nat /\ Len(Requests) >= 1
  BY StartupAssumption DEF ByReq!ProducerAssumption
<1>2. StepTime \in Nat
  BY StartupAssumption DEF ByReq!ProducerAssumption
<1>3. p = [ state |-> 1, mssg |-> 1, arrival |-> 0, now |-> 0, line |-> 1,
            reqs |-> Requests[1].first,
            generating |-> TRUE, last_reqs |-> 0, capture_time |-> StepTime ]
  BY DEF ByReq!Init, ByReq!NewProducer
<1>4. /\ Requests[1].first \in Nat \ {0} /\ ByReq!RequestsTo[0] = 0
      /\ ByReq!RequestsTo[1] = ByReq!RequestsTo[1 - 1] + Requests[1].first
  BY <1>1, RequestsToLine
<1>5. p \in ProducerRecord(1 .. Len(Requests))
  BY <1>1, <1>2, <1>3, <1>4 DEF ProducerRecord
<1>6. ByReq!RequestsTo[1] = Requests[1].first
  BY <1>4
<1>7. QED
  BY <1>3, <1>4, <1>5, <1>6 DEF RequestsInv

LEMMA RequestsProduce ==
  ASSUME RequestsInv, NEW min \in Advances \cup {Infinity}, NEW lapse \in Lapses,
         ByReq!Produce(min, lapse)
  PROVE  RequestsInv'
<1> DEFINE N == Len(Requests)
           to == ByReq!RequestsTo
           made == ByReq!Produced(p, min, lapse)
           Inv(q) == /\ q \in ProducerRecord(1 .. N)
                     /\ q.reqs = to[q.line] /\ to[q.line - 1] < q.state /\ q.state <= q.reqs
                     /\ ~q.generating => q.last_reqs = to[N]
<1>1. /\ min \in Nat /\ lapse \in Nat /\ N \in Nat /\ N >= 1 /\ StepTime \in Nat
  BY StartupAssumption DEF ByReq!ProducerAssumption
<1>2. /\ p \in ProducerRecord(1 .. N) /\ p.line \in 1 .. N /\ p.state \in Nat /\ p.reqs \in Nat
      /\ p.reqs = to[p.line] /\ to[p.line - 1] < p.state /\ p.state <= p.reqs
      /\ p.now \in Nat /\ p.arrival \in Nat /\ p.generating \in BOOLEAN /\ p.last_reqs \in Nat
      /\ p.capture_time \in Nat /\ p.mssg \in Nat
  BY DEF RequestsInv, ProducerRecord
<1>3. p.generating /\ p' = ByReq!Captured(made)
  BY DEF ByReq!Produce, ByReq!ProducerInternal
<1>4. ASSUME NEW q \in ProducerRecord(1 .. N), NEW time \in Nat, q.generating, q.reqs = to[q.line],
             to[q.line - 1] < q.state + 1, q.state + 1 <= q.reqs
      PROVE  Inv(ByReq!Generate(q, time))
  <2> DEFINE g == [q EXCEPT !.arrival = time, !.now = q.now + time, !.state = q.state + 1,
                            !.mssg = q.state + 1]
  <2>1. g = ByReq!Generate(q, time)
    BY DEF ByReq!Generate
  <2>2. g \in ProducerRecord(1 .. N)
    <3> HIDE DEF g, N
    <3>1. QED
      BY <2>1, ProducerUpdates
  <2>3. /\ g.reqs = q.reqs /\ g.line = q.line /\ g.state = q.state + 1
        /\ g.generating = q.generating /\ g.last_reqs = q.last_reqs
    BY DEF ProducerRecord
  <2> HIDE DEF g, to
  <2>4. Inv(g)
    BY <1>4, <2>2, <2>3
  <2>5. QED
    BY <2>1, <2>4
<1>5. Inv(made)
  <2>1. CASE ByReq!LineOver(p) /\ ByReq!FinalLine(p)
    <3>1. p.state = to[N] /\ p.line = N
      BY SMTT(40), <1>1, <1>2, <2>1 DEF ByReq!LineOver, ByReq!FinalLine
    <3>2. CASE min = Infinity
      <4> DEFINE g == [p EXCEPT !.last_reqs = p.state, !.generating = FALSE]
      <4>1. made = g
        BY <2>1, <3>2 DEF ByReq!Produced, ByReq!Passivate
      <4>2. g \in ProducerRecord(1 .. N)
        BY <1>2, ProducerUpdates DEF ByReq!Passivate
      <4>3. /\ g.reqs = p.reqs /\ g.line = p.line /\ g.state = p.state
            /\ g.generating = FALSE /\ g.last_reqs = p.state
        BY <1>2 DEF ProducerRecord
      <4> HIDE DEF g, to, made
      <4>4. QED
        BY <1>2, <3>1, <4>1, <4>2, <4>3
    <3>3. CASE min # Infinity
      <4> DEFINE g == [p EXCEPT !.now = p.now + min, !.arrival = min, !.mssg = 0]
      <4>1. made = g
        BY SMTT(40), <2>1, <3>3 DEF ByReq!Produced, ByReq!KeepCapturing
      <4>2. g \in ProducerRecord(1 .. N)
        BY <1>1, <1>2, ProducerUpdates DEF ByReq!KeepCapturing
      <4>3. /\ g.reqs = p.reqs /\ g.line = p.line /\ g.state = p.state
            /\ g.generating = p.generating /\ g.last_reqs = p.last_reqs
        BY <1>2 DEF ProducerRecord
      <4> HIDE DEF g, to, made
      <4>4. QED
        BY <1>2, <1>3, <4>1, <4>2, <4>3
    <3>4. QED
      BY <3>2, <3>3
  <2>2. CASE ByReq!LineOver(p) /\ ~ByReq!FinalLine(p)
    <3> DEFINE g == [p EXCEPT !.line = p.line + 1, !.reqs = p.reqs + Requests[p.line + 1].first]
    <3>1. p.state = to[p.line] /\ p.line + 1 \in 1 .. N
      BY SMTT(40), <1>1, <1>2, <2>2 DEF ByReq!LineOver, ByReq!FinalLine
    <3>2. /\ Requests[p.line + 1].first \in Nat \ {0}
          /\ to[p.line + 1] = to[p.line] + Requests[p.line + 1].first
      <4> DEFINE l == p.line + 1
      <4>1. l - 1 = p.line /\ l \in 1 .. N
        BY <1>2, <3>1
      <4>2. Requests[l].first \in Nat \ {0} /\ to[l] = to[l - 1] + Requests[l].first
        <5> HIDE DEF l
        <5>1. QED
          BY <4>1, RequestsToLine
      <4> HIDE DEF to
      <4>3. QED
        BY <4>1, <4>2
    <3>3. made = ByReq!Generate(g, lapse)
      BY <2>2 DEF ByReq!Produced, ByReq!NextLine
    <3>4. g \in ProducerRecord(1 .. N)
      <4>1. p.reqs + Requests[p.line + 1].first \in Nat
        BY <1>2, <3>2
      <4>2. QED
        BY <1>2, <3>1, <4>1, ProducerUpdates
    <3>5. /\ g.reqs = p.reqs + Requests[p.line + 1].first /\ g.line = p.line + 1
          /\ g.state = p.state /\ g.generating = p.generating
      BY <1>2 DEF ProducerRecord
    <3> HIDE DEF g, to, made
    <3>6. /\ g.generating /\ g.reqs = to[g.line]
          /\ to[g.line - 1] < g.state + 1 /\ g.state + 1 <= g.reqs
      <4>1. g.line - 1 = p.line
        BY <1>2, <3>5
      <4>2. QED
        BY SMTT(40), <1>2, <1>3, <3>1, <3>2, <3>5, <4>1
    <3> HIDE DEF Inv
    <3>7. QED
      BY <1>1, <1>4, <3>3, <3>4, <3>6
  <2>3. CASE ~ByReq!LineOver(p)
    <3>1. made = ByReq!Generate(p, lapse)
      BY <2>3 DEF ByReq!Produced
    <3>2. p.state < p.reqs
      BY <1>2, <2>3 DEF ByReq!LineOver
    <3> DEFINE f == to[p.line - 1]
    <3>3. f \in Nat /\ f < p.state + 1 /\ p.state + 1 <= p.reqs
      <4>1. f \in Nat
        BY <1>2, RequestsToLine
      <4>2. f < p.state
        BY <1>2
      <4> HIDE DEF f
      <4>3. QED
        BY <1>2, <3>2, <4>1, <4>2
    <3> HIDE DEF Inv, made
    <3>4. QED
      BY <1>1, <1>2, <1>3, <1>4, <3>1, <3>3
  <2>4. QED
    BY <2>1, <2>2, <2>3
<1> HIDE DEF made
<1>6. Inv(ByReq!Captured(made))
  <2> DEFINE g == [made EXCEPT !.capture_time = made.capture_time + StepTime]
  <2>1. ByReq!Captured(made) = made \/ ByReq!Captured(made) = g
    BY DEF ByReq!Captured
  <2>2. made \in ProducerRecord(1 .. N)
    BY <1>5
  <2>3. g \in ProducerRecord(1 .. N)
    BY <1>1, <2>2, ProducerUpdates
  <2>4. /\ g.reqs = made.reqs /\ g.line = made.line /\ g.state = made.state
        /\ g.generating = made.generating /\ g.last_reqs = made.last_reqs
    BY <2>2 DEF ProducerRecord
  <2> HIDE DEF g, to
  <2>5. Inv(g)
    BY <1>5, <2>3, <2>4
  <2> HIDE DEF Inv
  <2>6. QED
    BY <1>5, <2>1, <2>5
<1>7. Inv(p')
  <2> HIDE DEF Inv
  <2>1. QED
    BY <1>3, <1>6
<1>8. QED
  BY <1>7 DEF RequestsInv

LEMMA RequestsNext ==
  ASSUME RequestsInv, ByReq!Next \/ p' = p
  PROVE  RequestsInv'
<1>1. CASE p' = p
  BY <1>1 DEF RequestsInv
<1>2. CASE ByReq!Next
  <2>1. ASSUME NEW o \in Operator, ByReq!Execute(o)
        PROVE  p' = p
    BY <2>1 DEF ByReq!Execute
  <2>2. ASSUME NEW time, ByReq!Finish(time)
        PROVE  p' = p
    BY <2>2 DEF ByReq!Finish
  <2>3. QED
    BY <1>1, <1>2, <2>1, <2>2, RequestsProduce DEF ByReq!Next
<1>3. QED
  BY <1>1, <1>2

(* The line after the present one exists, since the last one ends the         *)
(* execution, and the present one is not in force before its time.            *)
TimesInv ==
  /\ p \in ProducerRecord(1 .. Len(Times) - 1)
  /\ ByTime!NeverEarly

LEMMA TimesLines ==
  /\ Len(Times) \in Nat /\ Len(Times) >= 2 /\ Times[Len(Times)].rate = 0
  /\ \A l \in 1 .. Len(Times) : Times[l].first \in Nat
<1> DEFINE Line == [first : Nat, rate : Nat]
<1>1. /\ Times \in Seq(Line) /\ Times # <<>>
      /\ Times[Len(Times)].rate = 0 /\ Times[1].rate # 0
  BY StartupAssumption DEF ByTime!ProducerAssumption
<1>2. Len(Times) \in Nat /\ Len(Times) >= 1 /\ \A l \in 1 .. Len(Times) : Times[l] \in Line
  <2> HIDE DEF Line
  <2>1. QED
    BY <1>1
<1>3. \A l \in 1 .. Len(Times) : Times[l].first \in Nat
  BY <1>2
<1>4. Len(Times) # 1
  BY <1>1
<1>5. QED
  BY <1>1, <1>2, <1>3, <1>4

LEMMA TimesInit == ByTime!Init => TimesInv
<1> SUFFICES ASSUME ByTime!Init
             PROVE  TimesInv
  OBVIOUS
<1>1. p = [ state |-> 1, mssg |-> 1, arrival |-> 0, now |-> 0, line |-> 1, reqs |-> 0,
            generating |-> TRUE, last_reqs |-> 0, capture_time |-> StepTime ]
  BY DEF ByTime!Init, ByTime!NewProducer
<1>2. StepTime \in Nat /\ 1 \in 1 .. Len(Times) - 1
  BY StartupAssumption, TimesLines DEF ByTime!ProducerAssumption
<1>3. p \in ProducerRecord(1 .. Len(Times) - 1)
  BY <1>1, <1>2 DEF ProducerRecord
<1>4. QED
  BY <1>1, <1>3 DEF TimesInv, ByTime!NeverEarly

LEMMA TimesProduce ==
  ASSUME TimesInv, NEW min \in Advances \cup {Infinity}, NEW lapse \in Lapses,
         ByTime!Produce(min, lapse)
  PROVE  TimesInv'
<1> DEFINE L == 1 .. Len(Times) - 1
           made == ByTime!Produced(p, min, lapse)
           InForce(q) == q.now - q.arrival >= Times[q.line].first \/ q.line = 1
<1>1. min \in Nat /\ lapse \in Nat /\ StepTime \in Nat
  BY StartupAssumption DEF ByTime!ProducerAssumption
<1>2. /\ p \in ProducerRecord(L) /\ p.line \in L /\ p.now \in Nat /\ p.arrival \in Nat
      /\ p.line \in Nat /\ p.line < Len(Times) /\ Times[p.line].first \in Nat /\ InForce(p)
  <2>1. p \in ProducerRecord(L) /\ InForce(p)
    BY DEF TimesInv, ByTime!NeverEarly
  <2>2. p.line \in L /\ p.now \in Nat /\ p.arrival \in Nat
    BY <2>1 DEF ProducerRecord
  <2>3. QED
    BY <2>1, <2>2, TimesLines
<1>3. p' = ByTime!Captured(made)
  BY DEF ByTime!Produce, ByTime!ProducerInternal
<1>4. ASSUME NEW q \in ProducerRecord(L), Times[q.line].first \in Nat,
             q.now >= Times[q.line].first \/ q.line = 1
      PROVE  ByTime!Generate(q, lapse) \in ProducerRecord(L) /\ InForce(ByTime!Generate(q, lapse))
  <2> DEFINE g == ByTime!Generate(q, lapse)
  <2>1. g = ByReq!Generate(q, lapse)
    BY DEF ByTime!Generate, ByReq!Generate
  <2>2. g.now = q.now + lapse /\ g.arrival = lapse /\ g.line = q.line /\ q.now \in Nat
    BY DEF ByTime!Generate, ProducerRecord
  <2> HIDE DEF g, L
  <2>3. g \in ProducerRecord(L)
    BY <1>1, <2>1, ProducerUpdates
  <2>4. g.now - g.arrival = q.now
    BY <1>1, <2>2
  <2>5. InForce(g)
    BY <1>4, <2>2, <2>4
  <2>6. QED
    BY <2>3, <2>5 DEF g
<1>5. made \in ProducerRecord(L) /\ InForce(made)
  <2>1. CASE ByTime!LineOver(p) /\ ByTime!FinalLine(p)
    <3>1. CASE min = Infinity
      <4>1. made = ByReq!Passivate(p)
        BY <2>1, <3>1 DEF ByTime!Produced, ByTime!Passivate, ByReq!Passivate
      <4>2. /\ made.now = p.now /\ made.arrival = p.arrival /\ made.line = p.line
        BY <1>2, <4>1 DEF ByReq!Passivate, ProducerRecord
      <4> HIDE DEF made, L
      <4>3. QED
        BY <1>1, <1>2, <4>1, <4>2, ProducerUpdates
    <3>2. CASE min # Infinity
      <4>1. made = ByReq!KeepCapturing(p, min)
        BY <2>1, <3>2 DEF ByTime!Produced, ByTime!KeepCapturing, ByReq!KeepCapturing
      <4>2. made.now = p.now + min /\ made.arrival = min /\ made.line = p.line
        BY <1>2, <4>1 DEF ByReq!KeepCapturing, ProducerRecord
      <4> HIDE DEF made, L
      <4>3. made \in ProducerRecord(L)
        BY <1>1, <1>2, <4>1, ProducerUpdates
      <4>4. made.now - made.arrival = p.now
        BY <1>1, <1>2, <4>2
      <4>5. p.now >= Times[p.line].first \/ p.line = 1
        BY <1>2
      <4>6. QED
        BY <4>2, <4>3, <4>4, <4>5
    <3>3. QED
      BY <3>1, <3>2
  <2>2. CASE ByTime!LineOver(p) /\ ~ByTime!FinalLine(p)
    <3> DEFINE g == [p EXCEPT !.line = p.line + 1, !.reqs = 0]
    <3>1. made = ByTime!Generate(g, lapse)
      BY <2>2 DEF ByTime!Produced, ByTime!NextLine
    <3>2. p.line + 1 \in L
      <4>1. p.line + 1 # Len(Times)
        BY <2>2, TimesLines DEF ByTime!FinalLine
      <4>2. QED
        BY <1>2, <4>1, TimesLines
    <3>3. g.line = p.line + 1 /\ g.now = p.now
      BY <1>2 DEF ProducerRecord
    <3>4. Times[p.line + 1].first \in Nat /\ p.now >= Times[p.line + 1].first
      BY <2>2, <3>2, TimesLines DEF ByTime!LineOver
    <3> HIDE DEF made, L
    <3>5. g \in ProducerRecord(L)
      BY <1>1, <1>2, <3>2, ProducerUpdates
    <3> HIDE DEF g, InForce
    <3>6. QED
      BY <1>4, <3>1, <3>3, <3>4, <3>5
  <2>3. CASE ~ByTime!LineOver(p)
    <3>1. made = ByTime!Generate(p, lapse)
      BY <2>3 DEF ByTime!Produced
    <3>2. p.now >= Times[p.line].first \/ p.line = 1
      BY <1>2
    <3> HIDE DEF made, L, InForce
    <3>3. QED
      BY <1>2, <1>4, <3>1, <3>2
  <2>4. QED
    BY <2>1, <2>2, <2>3
<1> HIDE DEF made, L
<1>6. p' \in ProducerRecord(L) /\ InForce(p')
  <2> DEFINE g == [made EXCEPT !.capture_time = made.capture_time + StepTime]
  <2>1. p' = made \/ p' = g
    BY <1>3 DEF ByTime!Captured
  <2>2. g \in ProducerRecord(L)
    BY <1>1, <1>5, ProducerUpdates
  <2>3. g.now = made.now /\ g.arrival = made.arrival /\ g.line = made.line
    BY <1>5 DEF ProducerRecord
  <2>4. QED
    BY <1>5, <2>1, <2>2, <2>3
<1>7. QED
  BY <1>6 DEF TimesInv, ByTime!NeverEarly, L

LEMMA TimesNext ==
  ASSUME TimesInv, ByTime!Next \/ p' = p
  PROVE  TimesInv'
<1>1. CASE p' = p
  BY <1>1 DEF TimesInv, ByTime!NeverEarly
<1>2. CASE ByTime!Next
  <2>1. ASSUME NEW o \in Operator, ByTime!Execute(o)
        PROVE  p' = p
    BY <2>1 DEF ByTime!Execute
  <2>2. ASSUME NEW time, ByTime!Finish(time)
        PROVE  p' = p
    BY <2>2 DEF ByTime!Finish
  <2>3. QED
    BY <1>1, <1>2, <2>1, <2>2, TimesProduce DEF ByTime!Next
<1>3. QED
  BY <1>1, <1>2

ProducerInv == (part = "by_req" => RequestsInv) /\ (part = "by_time" => TimesInv)

LEMMA ProducerInvariant == StartupSpec => []ProducerInv
<1>1. StartupInit => ProducerInv
  BY RequestsInit, TimesInit DEF StartupInit, ProducerInv
<1>2. ProducerInv /\ [StartupNext]_<<part, vars, configVars, workloadVars>> => ProducerInv'
  <2> SUFFICES ASSUME ProducerInv, [StartupNext]_<<part, vars, configVars, workloadVars>>
               PROVE  ProducerInv'
    OBVIOUS
  <2>1. part' = part
    BY DEF StartupNext
  <2>2. part = "by_req" => ByReq!Next \/ p' = p
    BY DEF StartupNext, workloadVars
  <2>3. part = "by_time" => ByTime!Next \/ p' = p
    BY DEF StartupNext, workloadVars
  <2>4. QED
    BY <2>1, <2>2, <2>3, RequestsNext, TimesNext DEF ProducerInv
<1>3. QED
  BY <1>1, <1>2, PTL DEF StartupSpec

(* For any workload whose lines all have requests, whatever the other models  *)
(* do meanwhile: the producer changes to the next line exactly when it has    *)
(* generated those of the present one, and passivates with all of them.       *)
THEOREM RequestsOfLineAlways == StartupSpec => []RequestsOfLine
<1>1. ProducerInv => RequestsOfLine
  BY DEF ProducerInv, RequestsInv, RequestsOfLine, ByReq!RequestsOfLine, ByReq!AllRequested
<1>2. QED
  BY <1>1, ProducerInvariant, PTL

(* For any workload by time no message is generated at a rate before the time *)
(* of its line.                                                               *)
THEOREM NeverEarlyAlways == StartupSpec => []NeverEarly
<1>1. ProducerInv => NeverEarly
  BY DEF ProducerInv, TimesInv, NeverEarly
<1>2. QED
  BY <1>1, ProducerInvariant, PTL
-----------------------------------------------------------------------------
(* The cluster configuration.                                                *)
File == {"operators", "topology", "by_req", "by_time", "factors"}

PropRecord == [name : Name, replication : Nat, factor : Factor \cup {0}]
LinesRecord ==
  [ topology : Seq(Name \X Name), by_req : Seq(Load), by_time : Seq(Load),
    factors : Seq(Name \X Factor) ]

(* Numbers and names are one to one.                                         *)
NamesInv ==
  /\ props \in Seq(PropRecord)
  /\ oper_ids \in [DOMAIN oper_ids -> Config!OperId] /\ DOMAIN oper_ids \subseteq Name
  /\ \A n \in DOMAIN oper_ids : Config!NameOf(oper_ids[n]) = n
  /\ \A o \in Config!OperId :
       Config!NameOf(o) \in DOMAIN oper_ids /\ oper_ids[Config!NameOf(o)] = o

(* Nothing but the operators is stored before their file is over.            *)
StageInv ==
  /\ reading \in File \cup {"done"}
  /\ lines \in LinesRecord
  /\ reading = "operators" =>
       /\ topology = <<>> /\ lines.topology = <<>> /\ lines.factors = <<>>
       /\ end_ops = {}
  /\ reading # "operators" =>
       /\ props # <<>>
       /\ topology \in [Config!OperId \ {Config!NListed - 1} -> Seq(Config!OperId)]

(* The links and the topology go together.                                   *)
LinksInv ==
  /\ \A e \in Config!Linked :
       /\ e[1] \in DOMAIN oper_ids /\ e[2] \in DOMAIN oper_ids
       /\ oper_ids[e[1]] \in DOMAIN topology
       /\ \E k \in DOMAIN topology[oper_ids[e[1]]] : topology[oper_ids[e[1]]][k] = oper_ids[e[2]]
  /\ \A o \in DOMAIN topology : \A k \in DOMAIN topology[o] :
       <<Config!NameOf(o), Config!NameOf(topology[o][k])>> \in Config!Linked

(* The factor of the last line that names an operator.                       *)
IsLast(k, ks) == k \in ks /\ \A j \in ks : j <= k
Naming(o) == {k \in DOMAIN lines.factors : lines.factors[k][1] = Config!NameOf(o)}

FactorsInv ==
  \A o \in Config!OperId :
    IF Naming(o) = {} THEN props[o + 1].factor = 0
    ELSE \E k \in Naming(o) : IsLast(k, Naming(o)) /\ props[o + 1].factor = lines.factors[k][2]

LoadsInv == workloads = [by_req |-> lines.by_req, by_time |-> lines.by_time]

EndsInv == reading \notin {"operators", "topology"} => end_ops = Config!Finals

ConfigInv == NamesInv /\ StageInv /\ LinksInv /\ FactorsInv /\ LoadsInv /\ EndsInv

LEMMA ConfigInit == Config!Init => ConfigInv
<1> SUFFICES ASSUME Config!Init
             PROVE  ConfigInv
  OBVIOUS
<1>1. /\ reading = "operators" /\ props = <<>> /\ oper_ids = <<>> /\ topology = <<>>
      /\ end_ops = {}
      /\ workloads = [by_req |-> <<>>, by_time |-> <<>>]
      /\ lines = [topology |-> <<>>, by_req |-> <<>>, by_time |-> <<>>, factors |-> <<>>]
  BY DEF Config!Init
<1>2. Config!NListed = 0 /\ Config!OperId = {}
  BY <1>1 DEF Config!NListed, Config!OperId
<1>3. DOMAIN oper_ids = {} /\ DOMAIN topology = {} /\ Config!Linked = {}
  BY <1>1 DEF Config!Linked
<1>4. NamesInv
  <2>1. props \in Seq(PropRecord)
    BY <1>1
  <2>2. oper_ids \in [DOMAIN oper_ids -> Config!OperId]
    BY <1>1, <1>3
  <2>3. QED
    BY <1>2, <1>3, <2>1, <2>2 DEF NamesInv
<1>5. StageInv
  BY <1>1 DEF StageInv, File, LinesRecord
<1>6. LinksInv /\ FactorsInv
  BY <1>2, <1>3 DEF LinksInv, FactorsInv
<1>7. LoadsInv /\ EndsInv
  BY <1>1 DEF LoadsInv, EndsInv
<1>8. QED
  BY <1>4, <1>5, <1>6, <1>7 DEF ConfigInv

(* What is known of the properties and the numbers.                          *)
LEMMA NamesFacts ==
  ASSUME NamesInv
  PROVE  /\ Config!NListed \in Nat /\ Config!NListed = Len(props)
         /\ DOMAIN props = 1 .. Len(props)
         /\ \A o \in Config!OperId : o \in Nat /\ o + 1 \in 1 .. Len(props) /\ props[o + 1] \in PropRecord
<1>1. props \in Seq(PropRecord)
  BY DEF NamesInv
<1>2. Len(props) \in Nat /\ \A k \in 1 .. Len(props) : props[k] \in PropRecord
  BY <1>1
<1>3. QED
  BY <1>1, <1>2 DEF Config!NListed, Config!OperId

(* What a step leaves in place. *)
LEMMA NamesKept ==
  ASSUME NamesInv, UNCHANGED <<props, oper_ids>>
  PROVE  NamesInv' /\ Config!OperId' = Config!OperId /\ Config!NListed' = Config!NListed
<1>1. Config!OperId' = Config!OperId /\ Config!NListed' = Config!NListed
  BY DEF Config!OperId, Config!NListed
<1>2. QED
  BY <1>1 DEF NamesInv, Config!NameOf

LEMMA FactorsKept ==
  ASSUME FactorsInv, UNCHANGED props, lines'.factors = lines.factors
  PROVE  FactorsInv'
<1>1. Config!OperId' = Config!OperId
  BY DEF Config!OperId, Config!NListed
<1>2. \A o : Naming(o)' = Naming(o)
  BY DEF Naming, Config!NameOf
<1>3. QED
  BY <1>1, <1>2 DEF FactorsInv

LEMMA LinksKept ==
  ASSUME LinksInv, UNCHANGED <<props, oper_ids, topology>>, lines'.topology = lines.topology
  PROVE  LinksInv'
<1>1. Config!Linked' = Config!Linked
  BY DEF Config!Linked
<1>2. QED
  BY <1>1 DEF LinksInv, Config!NameOf

LEMMA EndsKept ==
  ASSUME EndsInv, Config!OperId' = Config!OperId, UNCHANGED <<topology, end_ops, reading>>
  PROVE  EndsInv'
<1>1. Config!Finals' = Config!Finals
  BY DEF Config!Finals
<1>2. QED
  BY <1>1 DEF EndsInv

LEMMA ConfigReadOperator ==
  ASSUME ConfigInv, NEW name \in Name, NEW parallelism \in Parallelism,
         Config!ReadOperator(name, parallelism)
  PROVE  ConfigInv'
<1> DEFINE q == [name |-> name, replication |-> Config!Replication(parallelism), factor |-> 0]
           n == Len(props)
<1>1. /\ reading = "operators" /\ name \notin DOMAIN oper_ids
      /\ props' = Append(props, q)
      /\ oper_ids' = [m \in DOMAIN oper_ids \cup {name} |-> IF m = name THEN n ELSE oper_ids[m]]
      /\ UNCHANGED <<reading, topology, begin_op, end_ops, workloads, lines>>
  BY DEF Config!ReadOperator, Config!NewId, Config!NListed
<1>2. NamesInv /\ StageInv /\ LinksInv /\ FactorsInv /\ LoadsInv /\ EndsInv
  BY DEF ConfigInv
<1>3. q \in PropRecord /\ q.name = name /\ q.factor = 0
  <2>1. Config!Replication(parallelism) \in Nat
    BY StartupAssumption DEF Config!ConfigAssumption, Config!Replication
  <2>2. QED
    BY <2>1 DEF PropRecord
<1> HIDE DEF q
<1>4. /\ n \in Nat /\ Config!NListed = n /\ Config!OperId = 0 .. n - 1
      /\ props \in Seq(PropRecord)
  BY <1>2, NamesFacts DEF NamesInv, Config!OperId
<1> HIDE DEF n
<1>5. /\ props' \in Seq(PropRecord) /\ Len(props') = n + 1 /\ props'[n + 1] = q
      /\ \A k \in 1 .. n : props'[k] = props[k]
  <2> HIDE DEF n
  <2>1. n = Len(props)
    BY DEF n
  <2>2. QED
    BY <1>1, <1>3, <1>4, <2>1
<1>6. Config!OperId' = 0 .. n /\ Config!NListed' = n + 1
  BY <1>4, <1>5 DEF Config!OperId, Config!NListed
<1>7. props'[n + 1].name = name /\ \A o \in 0 .. n - 1 : props'[o + 1] = props[o + 1]
  <2>1. \A o \in 0 .. n - 1 : o + 1 \in 1 .. n
    BY <1>4
  <2>2. QED
    BY <1>3, <1>5, <2>1
<1>8. /\ oper_ids \in [DOMAIN oper_ids -> 0 .. n - 1] /\ DOMAIN oper_ids \subseteq Name
      /\ \A m \in DOMAIN oper_ids : oper_ids[m] \in 0 .. n - 1 /\ props[oper_ids[m] + 1].name = m
      /\ \A o \in 0 .. n - 1 :
           props[o + 1].name \in DOMAIN oper_ids /\ oper_ids[props[o + 1].name] = o
  BY <1>2, <1>4 DEF NamesInv, Config!NameOf
<1>9. /\ DOMAIN oper_ids' = DOMAIN oper_ids \cup {name} /\ oper_ids'[name] = n
      /\ \A m \in DOMAIN oper_ids : oper_ids'[m] = oper_ids[m]
  BY <1>1
<1>10. NamesInv'
  <2>1. oper_ids' \in [DOMAIN oper_ids' -> 0 .. n]
    BY <1>1, <1>4, <1>8
  <2>2. \A m \in DOMAIN oper_ids' : props'[oper_ids'[m] + 1].name = m
    <3>1. ASSUME NEW m \in DOMAIN oper_ids
          PROVE  props'[oper_ids'[m] + 1].name = m
      BY <1>7, <1>8, <1>9
    <3>2. QED
      BY <1>7, <1>9, <3>1
  <2>3. \A o \in 0 .. n :
          props'[o + 1].name \in DOMAIN oper_ids' /\ oper_ids'[props'[o + 1].name] = o
    <3>1. ASSUME NEW o \in 0 .. n - 1
          PROVE  props'[o + 1].name \in DOMAIN oper_ids' /\ oper_ids'[props'[o + 1].name] = o
      BY <1>7, <1>8, <1>9
    <3>2. \A o \in 0 .. n : o = n \/ o \in 0 .. n - 1
      BY <1>4
    <3>3. QED
      BY <1>7, <1>9, <3>1, <3>2
  <2>4. DOMAIN oper_ids' \subseteq Name
    BY <1>8, <1>9
  <2>5. QED
    BY <1>5, <1>6, <2>1, <2>2, <2>3, <2>4 DEF NamesInv, Config!NameOf
<1>11. /\ StageInv' /\ topology' = <<>> /\ lines'.topology = <<>> /\ lines'.factors = <<>>
  BY <1>1, <1>2 DEF StageInv
<1>12. LinksInv'
  <2>1. Config!Linked' = {} /\ DOMAIN topology' = {}
    BY <1>11 DEF Config!Linked
  <2>2. QED
    BY <2>1 DEF LinksInv
<1>13. FactorsInv'
  <2>1. \A o \in Config!OperId : Naming(o) = {}
    BY <1>1, <1>2 DEF StageInv, Naming
  <2>2. \A o \in 0 .. n : Naming(o)' = {}
    BY <1>11 DEF Naming
  <2>3. \A o \in 0 .. n - 1 : props[o + 1].factor = 0
    BY <1>2, <1>4, <2>1 DEF FactorsInv
  <2>4. \A o \in 0 .. n : o = n \/ o \in 0 .. n - 1
    BY <1>4
  <2>5. \A o \in 0 .. n : props'[o + 1].factor = 0
    BY <1>3, <1>5, <1>7, <2>3, <2>4
  <2>6. QED
    BY <1>6, <2>2, <2>5 DEF FactorsInv
<1>14. LoadsInv' /\ EndsInv'
  BY <1>1, <1>2 DEF LoadsInv, EndsInv
<1>15. QED
  BY <1>10, <1>11, <1>12, <1>13, <1>14 DEF ConfigInv

LEMMA ConfigBeginTopology ==
  ASSUME ConfigInv, Config!BeginTopology
  PROVE  ConfigInv'
<1>1. /\ reading = "operators" /\ props # <<>> /\ reading' = "topology"
      /\ topology' = Config!Sized
      /\ UNCHANGED <<props, oper_ids, begin_op, end_ops, workloads, lines>>
  BY DEF Config!BeginTopology
<1>2. NamesInv /\ StageInv /\ LinksInv /\ FactorsInv /\ LoadsInv /\ EndsInv
  BY DEF ConfigInv
<1>3. Config!OperId' = Config!OperId /\ Config!NListed' = Config!NListed
  BY <1>1 DEF Config!OperId, Config!NListed
<1>4. topology' \in [Config!OperId \ {Config!NListed - 1} -> Seq(Config!OperId)]
  BY <1>1 DEF Config!Sized
<1>5. StageInv'
  BY <1>1, <1>2, <1>3, <1>4 DEF StageInv, File
<1>6. LinksInv'
  <2>1. Config!Linked' = {}
    BY <1>1, <1>2 DEF Config!Linked, StageInv
  <2>2. \A o \in DOMAIN topology' : DOMAIN topology'[o] = {}
    BY <1>1 DEF Config!Sized
  <2>3. QED
    BY <2>1, <2>2 DEF LinksInv
<1>7. NamesInv' /\ FactorsInv' /\ LoadsInv' /\ EndsInv'
  BY <1>1, <1>2, NamesKept, FactorsKept DEF LoadsInv, EndsInv
<1>8. QED
  BY <1>5, <1>6, <1>7 DEF ConfigInv

LEMMA ConfigReadLink ==
  ASSUME ConfigInv, NEW from \in DOMAIN oper_ids, NEW to \in DOMAIN oper_ids,
         Config!ReadLink(from, to)
  PROVE  ConfigInv'
<1> DEFINE f == oper_ids[from]
           t == oper_ids[to]
<1>1. /\ reading = "topology" /\ lines' = [lines EXCEPT !["topology"] = Append(@, <<from, to>>)]
      /\ f # Config!NListed - 1
      /\ topology' = [topology EXCEPT ![f] = Append(@, t)]
      /\ UNCHANGED <<reading, props, oper_ids, end_ops, workloads>>
  BY DEF Config!ReadLink, Config!ReadLine
<1>2. NamesInv /\ StageInv /\ LinksInv /\ FactorsInv /\ LoadsInv /\ EndsInv
  BY DEF ConfigInv
<1>3. /\ Config!OperId' = Config!OperId /\ Config!NListed' = Config!NListed
      /\ NamesInv'
  BY <1>1, <1>2, NamesKept
<1>4. /\ f \in Config!OperId /\ t \in Config!OperId /\ from \in Name /\ to \in Name
      /\ Config!NameOf(f) = from /\ Config!NameOf(t) = to
  BY <1>2 DEF NamesInv
<1>5. topology \in [Config!OperId \ {Config!NListed - 1} -> Seq(Config!OperId)]
  BY <1>1, <1>2 DEF StageInv
<1>6. lines.topology \in Seq(Name \X Name) /\ lines \in LinesRecord
  BY <1>2 DEF StageInv, LinesRecord
<1> HIDE DEF f, t
<1>7. /\ lines'.topology = Append(lines.topology, <<from, to>>)
      /\ lines'.factors = lines.factors /\ lines'.by_req = lines.by_req
      /\ lines'.by_time = lines.by_time /\ lines' \in LinesRecord
  <2> DEFINE app == Append(lines.topology, <<from, to>>)
  <2>1. app \in Seq(Name \X Name)
    <3>1. <<from, to>> \in Name \X Name
      BY <1>4
    <3>2. QED
      BY <1>6, <3>1
  <2>2. lines' = [lines EXCEPT !.topology = app]
    BY <1>1
  <2> HIDE DEF app
  <2>3. /\ lines'.topology = app /\ lines'.factors = lines.factors
        /\ lines'.by_req = lines.by_req /\ lines'.by_time = lines.by_time
    BY <1>6, <2>2 DEF LinesRecord
  <2>4. lines' \in LinesRecord
    BY <1>6, <2>1, <2>2 DEF LinesRecord
  <2>5. QED
    BY <2>3, <2>4 DEF app
<1>8. Config!Linked' = Config!Linked \cup {<<from, to>>}
  <2> DEFINE S == lines.topology
             e == <<from, to>>
             N == Len(S)
  <2>1. e \in Name \X Name
    BY <1>4
  <2> HIDE DEF e
  <2>2. /\ S \in Seq(Name \X Name) /\ N \in Nat /\ DOMAIN S = 1 .. N
        /\ DOMAIN lines'.topology = 1 .. N + 1 /\ lines'.topology[N + 1] = e
        /\ \A k \in 1 .. N : lines'.topology[k] = S[k]
    BY <1>6, <1>7, <2>1 DEF e
  <2>3. \A k \in 1 .. N + 1 : k \in 1 .. N \/ k = N + 1
    BY <2>2
  <2>4. N + 1 \in 1 .. N + 1 /\ \A k \in 1 .. N : k \in 1 .. N + 1
    BY <2>2
  <2> HIDE DEF N, S
  <2>5. {lines'.topology[k] : k \in 1 .. N + 1} = {S[k] : k \in 1 .. N} \cup {e}
    BY <2>2, <2>3, <2>4
  <2>6. QED
    BY <2>2, <2>5 DEF S, e, Config!Linked
<1> DEFINE D == Config!OperId \ {Config!NListed - 1}
<1>9. f \in D
  BY <1>1, <1>4
<1>10. /\ DOMAIN topology = D /\ DOMAIN topology' = D
       /\ topology' \in [D -> Seq(Config!OperId)] /\ topology \in [D -> Seq(Config!OperId)]
       /\ topology'[f] = Append(topology[f], t)
       /\ \A o \in D : o # f => topology'[o] = topology[o]
  <2>1. Append(topology[f], t) \in Seq(Config!OperId)
    BY <1>4, <1>5, <1>9
  <2> HIDE DEF D
  <2>2. topology \in [D -> Seq(Config!OperId)]
    BY <1>5 DEF D
  <2>3. QED
    BY <1>1, <1>9, <2>1, <2>2
<1>11. /\ topology[f] \in Seq(Config!OperId) /\ Len(topology[f]) \in Nat
       /\ DOMAIN topology'[f] = DOMAIN topology[f] \cup {Len(topology[f]) + 1}
       /\ topology'[f][Len(topology[f]) + 1] = t
       /\ \A k \in DOMAIN topology[f] : topology'[f][k] = topology[f][k]
  <2>1. topology[f] \in Seq(Config!OperId)
    BY <1>9, <1>10
  <2> DEFINE S == topology[f]
             N == Len(S)
  <2>2. topology'[f] = Append(S, t) /\ S \in Seq(Config!OperId) /\ t \in Config!OperId
    BY <1>4, <1>10, <2>1
  <2>3. /\ N \in Nat /\ DOMAIN S = 1 .. N /\ DOMAIN Append(S, t) = 1 .. N + 1
        /\ Append(S, t)[N + 1] = t
        /\ \A k \in 1 .. N : Append(S, t)[k] = S[k]
    <3> HIDE DEF S
    <3>1. QED
      BY <2>2
  <2>4. 1 .. N + 1 = 1 .. N \cup {N + 1}
    <3> HIDE DEF N
    <3>1. QED
      BY <2>3
  <2> HIDE DEF N
  <2>5. QED
    BY <2>1, <2>2, <2>3, <2>4 DEF N
<1>12. StageInv'
  <2>1. topology' \in [Config!OperId' \ {Config!NListed' - 1} -> Seq(Config!OperId')]
    <3>1. topology' \in [D -> Seq(Config!OperId)]
      BY <1>10
    <3>2. QED
      BY <1>3, <3>1 DEF D
  <2>2. reading' # "operators" /\ props' # <<>> /\ reading' \in File \cup {"done"}
    BY <1>1, <1>2 DEF StageInv
  <2>3. QED
    BY <1>7, <2>1, <2>2 DEF StageInv
<1> HIDE DEF D
<1>13. LinksInv'
  <2>1. ASSUME NEW e \in Config!Linked'
        PROVE  /\ e[1] \in DOMAIN oper_ids' /\ e[2] \in DOMAIN oper_ids'
               /\ oper_ids'[e[1]] \in DOMAIN topology'
               /\ \E k \in DOMAIN topology'[oper_ids'[e[1]]] :
                    topology'[oper_ids'[e[1]]][k] = oper_ids'[e[2]]
    <3>1. CASE e = <<from, to>>
      <4>1. e[1] = from /\ e[2] = to
        BY <3>1
      <4>2. QED
        BY <1>1, <1>9, <1>10, <1>11, <4>1 DEF f, t
    <3>2. CASE e \in Config!Linked
      <4>1. /\ e[1] \in DOMAIN oper_ids /\ e[2] \in DOMAIN oper_ids
            /\ oper_ids[e[1]] \in D
        BY <1>2, <1>10, <3>2 DEF LinksInv
      <4>2. PICK k \in DOMAIN topology[oper_ids[e[1]]] : topology[oper_ids[e[1]]][k] = oper_ids[e[2]]
        BY <1>2, <3>2 DEF LinksInv
      <4>3. /\ k \in DOMAIN topology'[oper_ids[e[1]]]
            /\ topology'[oper_ids[e[1]]][k] = topology[oper_ids[e[1]]][k]
        BY <1>10, <1>11, <4>1, <4>2
      <4>4. QED
        BY <1>1, <1>10, <4>1, <4>2, <4>3
    <3>3. QED
      BY <1>8, <3>1, <3>2
  <2>2. ASSUME NEW o \in D, NEW k \in DOMAIN topology'[o]
        PROVE  <<Config!NameOf(o), Config!NameOf(topology'[o][k])>> \in Config!Linked'
    <3>1. CASE o = f /\ k = Len(topology[f]) + 1
      BY <1>4, <1>8, <1>11, <3>1
    <3>2. CASE o \in DOMAIN topology /\ k \in DOMAIN topology[o] /\ topology'[o][k] = topology[o][k]
      BY <1>2, <1>8, <3>2 DEF LinksInv
    <3>3. QED
      BY <1>10, <1>11, <3>1, <3>2
  <2>3. \A o \in DOMAIN topology' : \A k \in DOMAIN topology'[o] :
          <<Config!NameOf(o), Config!NameOf(topology[o][k])>>' \in Config!Linked'
    BY ZenonT(40), <1>1, <1>10, <2>2 DEF Config!NameOf
  <2>4. QED
    BY <2>1, <2>3 DEF LinksInv
<1>14. FactorsInv' /\ LoadsInv' /\ EndsInv'
  BY <1>1, <1>2, <1>7, FactorsKept DEF LoadsInv, EndsInv
<1>15. QED
  BY <1>3, <1>12, <1>13, <1>14 DEF ConfigInv

LEMMA ConfigEndTopology ==
  ASSUME ConfigInv, Config!EndTopology
  PROVE  ConfigInv'
<1>1. /\ reading = "topology" /\ reading' = "by_req" /\ end_ops' = Config!Finals
      /\ UNCHANGED <<props, oper_ids, topology, workloads, lines>>
  BY DEF Config!EndTopology
<1>2. NamesInv /\ StageInv /\ LinksInv /\ FactorsInv /\ LoadsInv
  BY DEF ConfigInv
<1>3. NamesInv' /\ Config!OperId' = Config!OperId /\ Config!NListed' = Config!NListed
  BY <1>1, <1>2, NamesKept
<1>4. StageInv'
  BY <1>1, <1>2, <1>3 DEF StageInv, File
<1>5. EndsInv'
  BY <1>1, <1>3 DEF EndsInv, Config!Finals
<1>6. LinksInv' /\ FactorsInv' /\ LoadsInv'
  BY <1>1, <1>2, LinksKept, FactorsKept DEF LoadsInv
<1>7. QED
  BY <1>3, <1>4, <1>5, <1>6 DEF ConfigInv

LEMMA ConfigReadLoad ==
  ASSUME ConfigInv, NEW file \in {"by_req", "by_time"}, NEW load \in Load,
         Config!ReadLoad(file, load)
  PROVE  ConfigInv'
<1>1. /\ reading = file /\ lines' = [lines EXCEPT ![file] = Append(@, load)]
      /\ workloads' = [workloads EXCEPT ![file] = Append(@, load)]
      /\ UNCHANGED <<reading, props, oper_ids, topology, begin_op, end_ops>>
  BY DEF Config!ReadLoad, Config!ReadLine
<1>2. NamesInv /\ StageInv /\ LinksInv /\ FactorsInv /\ LoadsInv /\ EndsInv
  BY DEF ConfigInv
<1>3. NamesInv' /\ Config!OperId' = Config!OperId /\ Config!NListed' = Config!NListed
  BY <1>1, <1>2, NamesKept
<1>4. lines \in LinesRecord
  BY <1>2 DEF StageInv
<1>5. /\ lines' \in LinesRecord /\ lines'.topology = lines.topology
      /\ lines'.factors = lines.factors
      /\ workloads' = [by_req |-> lines'.by_req, by_time |-> lines'.by_time]
  <2>1. CASE file = "by_req"
    <3> DEFINE app == Append(lines.by_req, load)
    <3>1. app \in Seq(Load)
      BY <1>4 DEF LinesRecord
    <3>2. lines' = [lines EXCEPT !.by_req = app] /\ workloads' = [workloads EXCEPT !.by_req = app]
      BY <1>1, <1>2, <2>1 DEF LoadsInv
    <3> HIDE DEF app
    <3>3. lines' \in LinesRecord
      BY <1>4, <3>1, <3>2 DEF LinesRecord
    <3>4. /\ lines'.topology = lines.topology /\ lines'.factors = lines.factors
          /\ lines'.by_req = app /\ lines'.by_time = lines.by_time
      BY <1>4, <3>2 DEF LinesRecord
    <3>5. QED
      BY <1>2, <3>2, <3>3, <3>4 DEF LoadsInv
  <2>2. CASE file = "by_time"
    <3> DEFINE app == Append(lines.by_time, load)
    <3>1. app \in Seq(Load)
      BY <1>4 DEF LinesRecord
    <3>2. lines' = [lines EXCEPT !.by_time = app] /\ workloads' = [workloads EXCEPT !.by_time = app]
      BY <1>1, <1>2, <2>2 DEF LoadsInv
    <3> HIDE DEF app
    <3>3. lines' \in LinesRecord
      BY <1>4, <3>1, <3>2 DEF LinesRecord
    <3>4. /\ lines'.topology = lines.topology /\ lines'.factors = lines.factors
          /\ lines'.by_time = app /\ lines'.by_req = lines.by_req
      BY <1>4, <3>2 DEF LinesRecord
    <3>5. QED
      BY <1>2, <3>2, <3>3, <3>4 DEF LoadsInv
  <2>3. QED
    BY <2>1, <2>2
<1>6. StageInv'
  BY <1>1, <1>2, <1>3, <1>5 DEF StageInv
<1>7. LinksInv' /\ FactorsInv' /\ EndsInv' /\ LoadsInv'
  BY <1>1, <1>2, <1>3, <1>5, LinksKept, FactorsKept, EndsKept DEF LoadsInv
<1>8. QED
  BY <1>3, <1>6, <1>7 DEF ConfigInv

LEMMA ConfigReadFactor ==
  ASSUME ConfigInv, NEW name \in DOMAIN oper_ids, NEW factor \in Factor,
         Config!ReadFactor(name, factor)
  PROVE  ConfigInv'
<1> DEFINE i0 == oper_ids[name]
           K  == 1 .. Len(props)
           S  == lines.factors
           N  == Len(S)
           e  == <<name, factor>>
<1>1. /\ reading = "factors" /\ lines' = [lines EXCEPT !.factors = Append(S, e)]
      /\ props' = [props EXCEPT ![i0 + 1].factor = factor]
      /\ UNCHANGED <<reading, oper_ids, topology, begin_op, end_ops, workloads>>
  BY DEF Config!ReadFactor, Config!ReadLine
<1>2. NamesInv /\ StageInv /\ LinksInv /\ FactorsInv /\ LoadsInv /\ EndsInv
  BY DEF ConfigInv
<1>3. i0 \in Config!OperId /\ Config!NameOf(i0) = name /\ name \in Name
  BY <1>2 DEF NamesInv
<1>4. i0 \in Nat /\ i0 + 1 \in K
  BY <1>2, <1>3, NamesFacts
<1> HIDE DEF i0
<1>5. /\ props \in Seq(PropRecord) /\ Len(props) \in Nat
      /\ \A k \in K : props[k] \in PropRecord
  <2>1. props \in Seq(PropRecord)
    BY <1>2 DEF NamesInv
  <2>2. QED
    BY <2>1
<1>6. [props[i0 + 1] EXCEPT !.factor = factor] \in PropRecord
  BY <1>4, <1>5 DEF PropRecord
<1>7. /\ props' \in Seq(PropRecord) /\ Len(props') = Len(props)
      /\ props'[i0 + 1] = [props[i0 + 1] EXCEPT !.factor = factor]
      /\ \A k \in K : k # i0 + 1 => props'[k] = props[k]
  <2> DEFINE r == [props[i0 + 1] EXCEPT !.factor = factor]
  <2>1. props' = [props EXCEPT ![i0 + 1] = r]
    BY <1>1
  <2> HIDE DEF r
  <2>2. r \in PropRecord
    BY <1>6 DEF r
  <2>3. /\ props' \in Seq(PropRecord) /\ Len(props') = Len(props)
        /\ props'[i0 + 1] = r
        /\ \A k \in K : k # i0 + 1 => props'[k] = props[k]
    BY <1>4, <1>5, <2>1, <2>2
  <2>4. QED
    BY <2>3 DEF r
<1>8. /\ props'[i0 + 1].factor = factor
      /\ \A k \in K : props'[k].name = props[k].name
      /\ \A k \in K : k # i0 + 1 => props'[k].factor = props[k].factor
  BY <1>4, <1>5, <1>7 DEF PropRecord
<1>9. Config!OperId' = Config!OperId /\ Config!NListed' = Config!NListed
  BY <1>7 DEF Config!OperId, Config!NListed
<1>10. \A o \in Config!OperId : /\ o \in Nat /\ o + 1 \in K
                                /\ props'[o + 1].name = Config!NameOf(o)
  BY <1>2, <1>8, NamesFacts DEF Config!NameOf
<1> HIDE DEF K
<1>11. NamesInv'
  <2>1. \A n \in DOMAIN oper_ids : oper_ids[n] \in Config!OperId /\ Config!NameOf(oper_ids[n]) = n
    BY <1>2 DEF NamesInv
  <2>2. \A n \in DOMAIN oper_ids : props'[oper_ids[n] + 1].name = n
    BY <1>10, <2>1
  <2>3. \A o \in Config!OperId :
          props'[o + 1].name \in DOMAIN oper_ids /\ oper_ids[props'[o + 1].name] = o
    BY <1>2, <1>10 DEF NamesInv
  <2>4. oper_ids \in [DOMAIN oper_ids -> Config!OperId] /\ DOMAIN oper_ids \subseteq Name
    BY <1>2 DEF NamesInv
  <2>5. QED
    BY <1>1, <1>7, <1>9, <2>2, <2>3, <2>4 DEF NamesInv, Config!NameOf
<1>12. lines \in LinesRecord /\ S \in Seq(Name \X Factor)
  BY <1>2 DEF StageInv, LinesRecord
<1>13. /\ lines' \in LinesRecord /\ lines'.factors = Append(S, e)
       /\ lines'.topology = lines.topology
       /\ lines'.by_req = lines.by_req /\ lines'.by_time = lines.by_time
  <2> DEFINE app == Append(S, e)
  <2>1. e \in Name \X Factor
    BY <1>3
  <2>2. app \in Seq(Name \X Factor)
    BY <1>12, <2>1
  <2>3. lines' = [lines EXCEPT !.factors = app]
    BY <1>1
  <2> HIDE DEF app
  <2>4. /\ lines'.factors = app /\ lines'.topology = lines.topology
        /\ lines'.by_req = lines.by_req /\ lines'.by_time = lines.by_time
    BY <1>12, <2>3 DEF LinesRecord
  <2>5. lines' \in LinesRecord
    BY <1>12, <2>2, <2>3 DEF LinesRecord
  <2>6. QED
    BY <2>4, <2>5 DEF app
<1>14. StageInv'
  <2>1. reading' # "operators" /\ props' # <<>> /\ reading' \in File \cup {"done"}
    BY <1>1, <1>2, <1>4, <1>5, <1>7 DEF StageInv, K
  <2>2. topology' \in [Config!OperId' \ {Config!NListed' - 1} -> Seq(Config!OperId')]
    BY <1>1, <1>2, <1>9 DEF StageInv
  <2>3. QED
    BY <1>13, <2>1, <2>2 DEF StageInv
<1>15. LinksInv'
  <2>1. Config!Linked' = Config!Linked
    BY <1>13 DEF Config!Linked
  <2>2. \A o \in DOMAIN topology : o \in Config!OperId
    BY <1>1, <1>2 DEF StageInv
  <2>3. \A o \in DOMAIN topology : \A k \in DOMAIN topology[o] : topology[o][k] \in Config!OperId
    BY <1>1, <1>2 DEF StageInv
  <2>4. \A o \in DOMAIN topology : \A k \in DOMAIN topology[o] :
          <<props'[o + 1].name, props'[topology[o][k] + 1].name>> \in Config!Linked
    BY <1>2, <1>10, <2>2, <2>3 DEF LinksInv
  <2>5. QED
    BY <1>1, <1>2, <2>1, <2>4 DEF LinksInv, Config!NameOf
<1>16. /\ N \in Nat /\ DOMAIN S = 1 .. N /\ DOMAIN lines'.factors = 1 .. N + 1
       /\ lines'.factors[N + 1][1] = name /\ lines'.factors[N + 1][2] = factor
       /\ \A k \in 1 .. N : lines'.factors[k] = S[k]
  <2>1. e \in Name \X Factor /\ e[1] = name /\ e[2] = factor
    BY <1>3
  <2> HIDE DEF e, S
  <2>2. /\ N \in Nat /\ DOMAIN S = 1 .. N /\ DOMAIN Append(S, e) = 1 .. N + 1
        /\ Append(S, e)[N + 1] = e
        /\ \A k \in 1 .. N : Append(S, e)[k] = S[k]
    BY <1>12, <2>1
  <2>3. QED
    BY <1>13, <2>1, <2>2
<1>17. \A o \in Config!OperId : Naming(o)' = Naming(o) \cup (IF o = i0 THEN {N + 1} ELSE {})
  <2>1. ASSUME NEW o \in Config!OperId
        PROVE  Naming(o)' = Naming(o) \cup (IF o = i0 THEN {N + 1} ELSE {})
    <3> DEFINE m == Config!NameOf(o)
    <3>1. m = name <=> o = i0
      BY <1>2, <1>3 DEF NamesInv, i0
    <3>2. Naming(o)' = {k \in 1 .. N + 1 : lines'.factors[k][1] = m}
      BY <1>10, <1>16 DEF Naming, Config!NameOf
    <3>3. Naming(o) = {k \in 1 .. N : lines'.factors[k][1] = m}
      BY <1>16 DEF Naming
    <3>4. \A k : k \in 1 .. N + 1 <=> k \in 1 .. N \/ k = N + 1
      BY <1>16
    <3> HIDE DEF m, N
    <3>5. QED
      BY <1>16, <3>1, <3>2, <3>3, <3>4
  <2>2. QED
    BY <2>1
<1>18. FactorsInv'
  <2>1. ASSUME NEW o \in Config!OperId
        PROVE  IF Naming(o)' = {} THEN props'[o + 1].factor = 0
               ELSE \E k \in Naming(o)' :
                      IsLast(k, Naming(o)') /\ props'[o + 1].factor = lines'.factors[k][2]
    <3>1. CASE o = i0
      <4>1. /\ N + 1 \in Naming(o)' /\ props'[o + 1].factor = lines'.factors[N + 1][2]
        BY <1>8, <1>16, <1>17, <3>1
      <4>2. \A k \in Naming(o)' : k <= N + 1
        BY <1>16 DEF Naming
      <4>3. QED
        BY <4>1, <4>2 DEF IsLast
    <3>2. CASE o # i0
      <4>1. Naming(o)' = Naming(o) /\ Naming(o) \subseteq 1 .. N
        BY <1>16, <1>17, <3>2 DEF Naming
      <4>2. props'[o + 1].factor = props[o + 1].factor
        BY <1>4, <1>8, <1>10, <3>2
      <4>3. \A k \in Naming(o) : lines'.factors[k] = S[k]
        BY <1>16, <4>1
      <4>4. QED
        BY <1>2, <4>1, <4>2, <4>3 DEF FactorsInv
    <3>3. QED
      BY <3>1, <3>2
  <2>2. QED
    BY <1>9, <2>1 DEF FactorsInv
<1>19. LoadsInv' /\ EndsInv'
  BY <1>1, <1>2, <1>9, <1>13, EndsKept DEF LoadsInv
<1>20. QED
  BY <1>11, <1>14, <1>15, <1>18, <1>19 DEF ConfigInv

LEMMA ConfigEndFile ==
  ASSUME ConfigInv, Config!EndFile
  PROVE  ConfigInv'
<1>1. /\ reading \in {"by_req", "by_time", "factors"}
      /\ reading' \in {"by_time", "factors", "done"}
      /\ UNCHANGED <<props, oper_ids, topology, begin_op, end_ops, workloads, lines>>
  BY DEF Config!EndFile
<1>2. NamesInv /\ StageInv /\ LinksInv /\ FactorsInv /\ LoadsInv /\ EndsInv
  BY DEF ConfigInv
<1>3. NamesInv' /\ Config!OperId' = Config!OperId /\ Config!NListed' = Config!NListed
  BY <1>1, <1>2, NamesKept
<1>4. StageInv'
  BY <1>1, <1>2, <1>3 DEF StageInv, File
<1>5. LinksInv' /\ FactorsInv' /\ LoadsInv'
  BY <1>1, <1>2, LinksKept, FactorsKept DEF LoadsInv
<1>6. EndsInv'
  BY <1>1, <1>2, <1>3 DEF EndsInv, Config!Finals
<1>7. QED
  BY <1>3, <1>4, <1>5, <1>6 DEF ConfigInv

LEMMA ConfigKept ==
  ASSUME ConfigInv, UNCHANGED configVars
  PROVE  ConfigInv'
<1>1. /\ UNCHANGED <<reading, props, oper_ids, topology, end_ops, workloads, lines>>
      /\ NamesInv /\ StageInv /\ LinksInv /\ FactorsInv /\ LoadsInv /\ EndsInv
  BY DEF configVars, ConfigInv
<1>2. NamesInv' /\ Config!OperId' = Config!OperId /\ Config!NListed' = Config!NListed
  BY <1>1, NamesKept
<1>3. LinksInv' /\ FactorsInv' /\ EndsInv' /\ LoadsInv' /\ StageInv'
  BY <1>1, <1>2, LinksKept, FactorsKept, EndsKept DEF LoadsInv, StageInv
<1>4. QED
  BY <1>2, <1>3 DEF ConfigInv

LEMMA ConfigNext ==
  ASSUME ConfigInv, Config!Next
  PROVE  ConfigInv'
BY ConfigReadOperator, ConfigBeginTopology, ConfigReadLink, ConfigEndTopology, ConfigReadLoad,
   ConfigReadFactor, ConfigEndFile DEF Config!Next

LEMMA ConfigInvariant == StartupSpec => []ConfigInv
<1>1. StartupInit => ConfigInv
  BY ConfigInit DEF StartupInit
<1>2. ConfigInv /\ [StartupNext]_<<part, vars, configVars, workloadVars>> => ConfigInv'
  BY ConfigNext, ConfigKept DEF StartupNext
<1>3. QED
  BY <1>1, <1>2, PTL DEF StartupSpec

(* The destinations that are not indices of the topology: the last operator  *)
(* has none, so that nobody else is final.                                   *)
LEMMA FinalsAreLast ==
  ASSUME ConfigInv, reading # "operators"
  PROVE  \A o : o \in Config!Finals <=>
           /\ o = Config!NListed - 1
           /\ \E from \in DOMAIN topology : \E k \in DOMAIN topology[from] : topology[from][k] = o
<1> DEFINE n == Config!NListed
<1>1. NamesInv /\ StageInv
  BY DEF ConfigInv
<1>2. n \in Nat /\ n = Len(props) /\ n # 0
  <2>1. props \in Seq(PropRecord) /\ props # <<>>
    BY <1>1 DEF NamesInv, StageInv
  <2>2. QED
    BY <2>1 DEF Config!NListed
<1>3. DOMAIN topology = Config!OperId \ {n - 1}
  BY <1>1 DEF StageInv
<1>4. Config!OperId = 0 .. n - 1
  BY DEF Config!OperId
<1> HIDE DEF n
<1>5. DOMAIN topology = 0 .. n - 2
  BY <1>2, <1>3, <1>4
<1>6. Cardinality(DOMAIN topology) = n - 1
  <2>1. n - 2 \in Int /\ 0 \in Int
    BY <1>2
  <2>2. Cardinality(0 .. n - 2) = IF 0 > n - 2 THEN 0 ELSE n - 2 - 0 + 1
    BY <2>1, FS_Interval
  <2>3. QED
    BY <1>2, <1>5, <2>2
<1>7. \A o \in 0 .. n - 1 : (\A from \in 0 .. n - 1 - 1 : o # from) <=> o = n - 1
  BY <1>2
<1>8. n - 1 \in 0 .. n - 1
  BY <1>2
<1> DEFINE Linked(o) == \E from \in DOMAIN topology : \E k \in DOMAIN topology[from] : topology[from][k] = o
           NoIndex(o, card) == \A from \in 0 .. card - 1 : o # from
<1>9. Config!Finals = {o \in Config!OperId : Linked(o) /\ NoIndex(o, Cardinality(DOMAIN topology))}
  <2>1. Config!Cardinality(DOMAIN topology) = Cardinality(DOMAIN topology)
    BY DEF Config!Cardinality, Cardinality
  <2>2. QED
    BY <2>1 DEF Config!Finals
<1>10. \A o \in 0 .. n - 1 : NoIndex(o, n - 1) <=> o = n - 1
  BY <1>7
<1> HIDE DEF Linked, NoIndex
<1>11. \A o : o \in Config!Finals <=> o = n - 1 /\ Linked(o)
  BY <1>4, <1>6, <1>8, <1>9, <1>10
<1>12. QED
  BY <1>11 DEF n, Linked

LEMMA ConfigReadsTheJob == ConfigInv => ReadsTheJob
<1> SUFFICES ASSUME ConfigInv
             PROVE  ReadsTheJob
  OBVIOUS
<1>1. NamesInv /\ StageInv /\ LinksInv /\ FactorsInv /\ LoadsInv /\ EndsInv
  BY DEF ConfigInv
<1>2. Config!NamesResolve
  BY <1>1 DEF NamesInv, LinksInv, Config!NamesResolve
<1>3. Config!LinesInPlace
  <2>1. ASSUME NEW o \in Config!OperId
        PROVE  props[o + 1].factor =
                 IF Naming(o) = {} THEN 0
                 ELSE lines.factors[CHOOSE k \in Naming(o) : \A j \in Naming(o) : j <= k][2]
    <3>1. CASE Naming(o) = {}
      BY <1>1, <3>1 DEF FactorsInv
    <3>2. CASE Naming(o) # {}
      <4> DEFINE Q(k) == k \in Naming(o) /\ \A j \in Naming(o) : j <= k
      <4>1. PICK k \in Naming(o) : Q(k) /\ props[o + 1].factor = lines.factors[k][2]
        BY <1>1, <3>2 DEF FactorsInv, IsLast
      <4>2. \A j \in Naming(o) : j \in Nat
        <5>1. lines.factors \in Seq(Name \X Factor)
          BY <1>1 DEF StageInv, LinesRecord
        <5>2. QED
          BY <5>1 DEF Naming
      <4>3. \A j \in Naming(o) : Q(j) => j = k
        BY <4>1, <4>2
      <4>4. (CHOOSE j \in Naming(o) : \A h \in Naming(o) : h <= j) = k
        BY <4>1, <4>3
      <4>5. QED
        BY <3>2, <4>1, <4>4
    <3>3. QED
      BY <3>1, <3>2
  <2>2. \A file \in DOMAIN workloads : workloads[file] = lines[file]
    <3>1. /\ DOMAIN workloads = {"by_req", "by_time"}
          /\ workloads["by_req"] = lines["by_req"] /\ workloads["by_time"] = lines["by_time"]
      BY <1>1 DEF LoadsInv
    <3>2. QED
      BY <3>1
  <2>3. QED
    BY <2>1, <2>2 DEF Config!LinesInPlace, Naming
<1>4. Config!LastIsEnd
  <2> DEFINE last == Config!NListed - 1
             m == Config!NameOf(last)
  <2>1. SUFFICES ASSUME reading = "done", Config!Sinks = {m}
                 PROVE  end_ops = {last}
    BY DEF Config!LastIsEnd
  <2>2. end_ops = Config!Finals /\ last \in Config!OperId
    <3>1. props \in Seq(PropRecord) /\ props # <<>>
      BY <1>1, <2>1 DEF NamesInv, StageInv
    <3>2. QED
      BY <1>1, <2>1, <3>1 DEF EndsInv, Config!OperId, Config!NListed
  <2>3. PICK from \in Name : <<from, m>> \in Config!Linked
    BY <2>1 DEF Config!Sinks
  <2>4. oper_ids[m] = last
    BY <1>1, <2>2 DEF NamesInv
  <2> HIDE DEF m, last
  <2>5. /\ oper_ids[from] \in DOMAIN topology
        /\ \E k \in DOMAIN topology[oper_ids[from]] : topology[oper_ids[from]][k] = last
    BY <1>1, <2>3, <2>4 DEF LinksInv
  <2>6. \A o : o \in end_ops <=> o = last
    BY <2>1, <2>2, <2>5, FinalsAreLast DEF last
  <2>7. QED
    BY <2>6
<1>5. QED
  BY <1>2, <1>3, <1>4 DEF ReadsTheJob

(* Any files of any length, any names and any factors, as long as every link  *)
(* and every factor names an operator that the first file lists: what the     *)
(* configuration stores under an operator's number is its own, the last line  *)
(* that names it gives its factor, the workloads are those of their own       *)
(* files, and a job whose only operator without followers is listed last      *)
(* ends there and only there.                                                 *)
THEOREM ReadsTheJobAlways == StartupSpec => []ReadsTheJob
BY ConfigInvariant, ConfigReadsTheJob, PTL
-----------------------------------------------------------------------------
(***************************************************************************)
(* Lists of lists, one after the other.                                    *)
(***************************************************************************)
IsList(q, n) == n \in Nat /\ q = [k \in 1 .. n |-> q[k]]

LEMMA ListIs ==
  ASSUME NEW n, NEW q, IsList(q, n), NEW S, \A k \in 1 .. n : q[k] \in S
  PROVE  q \in Seq(S) /\ Len(q) = n /\ DOMAIN q = 1 .. n
<1>1. n \in Nat /\ q = [k \in 1 .. n |-> q[k]]
  BY DEF IsList
<1>2. q \in [1 .. n -> S]
  BY <1>1
<1>3. q \in Seq(S)
  BY <1>1, <1>2, SeqDef
<1>4. DOMAIN q = 1 .. n
  BY <1>1
<1>5. QED
  BY <1>1, <1>3, <1>4, LenProperties

LEMMA ListOf ==
  ASSUME NEW S, NEW q \in Seq(S)
  PROVE  IsList(q, Len(q))
BY LenProperties DEF IsList

IsAppend(h, q, n, x) == IsList(q, n) /\ h = Append(q, x)

LEMMA ListAppend ==
  ASSUME NEW n, NEW q, NEW x, NEW h, IsAppend(h, q, n, x)
  PROVE  IsList(h, n + 1) /\ (\A k \in 1 .. n : h[k] = q[k]) /\ h[n + 1] = x
<1>0. IsList(q, n) /\ h = Append(q, x)
  BY DEF IsAppend
<1> DEFINE S == {q[k] : k \in 1 .. n} \cup {x}
<1>1. q \in Seq(S) /\ Len(q) = n /\ x \in S
  <2>1. \A k \in 1 .. n : q[k] \in S
    OBVIOUS
  <2> HIDE DEF S
  <2>2. q \in Seq(S) /\ Len(q) = n
    BY <1>0, <2>1, ListIs
  <2>3. QED
    BY <2>2 DEF S
<1> HIDE DEF S
<1>2. /\ Append(q, x) \in Seq(S) /\ Len(Append(q, x)) = n + 1
      /\ \A k \in 1 .. n : Append(q, x)[k] = q[k]
      /\ Append(q, x)[n + 1] = x
  BY <1>1, AppendProperties
<1>3. QED
  BY <1>0, <1>2, ListOf

LEMMA ListSame ==
  ASSUME NEW n, NEW q, NEW r, IsList(q, n), IsList(r, n), \A k \in 1 .. n : q[k] = r[k]
  PROVE  q = r
<1>1. q = [k \in 1 .. n |-> q[k]] /\ r = [k \in 1 .. n |-> r[k]]
  BY DEF IsList
<1>2. QED
  BY <1>1

LEMMA ListExtended ==
  ASSUME NEW n, NEW q, NEW r, IsList(q, n), IsList(r, n + 1), \A k \in 1 .. n : r[k] = q[k]
  PROVE  r = Append(q, r[n + 1])
<1> DEFINE S == {r[k] : k \in 1 .. n + 1}
<1>1. \A k \in 1 .. n + 1 : r[k] \in S
  OBVIOUS
<1> HIDE DEF S
<1>2. n \in Nat /\ n + 1 \in 1 .. n + 1 /\ \A k \in 1 .. n : k \in 1 .. n + 1
  BY DEF IsList
<1>3. r \in Seq(S) /\ Len(r) = n + 1
  BY <1>1, ListIs
<1>4. \A k \in 1 .. n : q[k] \in S
  BY <1>1, <1>2
<1>5. q \in Seq(S) /\ Len(q) = n
  BY <1>4, ListIs
<1> DEFINE x == r[n + 1]
           s == Append(q, x)
<1>6. x \in S
  BY <1>1, <1>2
<1> HIDE DEF x
<1>7. s \in Seq(S) /\ Len(s) = n + 1 /\ (\A k \in 1 .. n : s[k] = q[k]) /\ s[n + 1] = x
  BY <1>5, <1>6, AppendProperties
<1> HIDE DEF s
<1>8. \A k \in 1 .. n + 1 : k \in 1 .. n \/ k = n + 1
  BY <1>2
<1>9. \A k \in 1 .. n + 1 : r[k] = s[k]
  BY <1>7, <1>8 DEF x
<1>10. r = s
  BY <1>3, <1>7, <1>9, SeqEqual
<1>11. QED
  BY <1>10 DEF s, x

LEMMA ConcatAppend ==
  ASSUME NEW S, NEW s \in Seq(S), NEW t \in Seq(S), NEW x \in S
  PROVE  s \o Append(t, x) = Append(s \o t, x)
<1> DEFINE b == Append(t, x)
           a == s \o t
           l == s \o b
           r == Append(a, x)
           m == Len(s)
           n == Len(t)
<1>1. b \in Seq(S) /\ Len(b) = n + 1 /\ (\A k \in 1 .. n : b[k] = t[k]) /\ b[n + 1] = x
  BY AppendProperties
<1>2. /\ a \in Seq(S) /\ Len(a) = m + n
      /\ \A k \in 1 .. m + n : a[k] = IF k <= m THEN s[k] ELSE t[k - m]
  <2>1. /\ s \o t \in Seq(S) /\ Len(s \o t) = Len(s) + Len(t)
        /\ \A k \in 1 .. Len(s) + Len(t) : (s \o t)[k] = IF k <= Len(s) THEN s[k] ELSE t[k - Len(s)]
    BY SMTT(20), ConcatProperties
  <2> HIDE DEF a, m, n
  <2>2. QED
    BY <2>1 DEF a, m, n
<1>3. m \in Nat /\ n \in Nat
  OBVIOUS
<1> HIDE DEF a, b, m, n
<1>4. /\ l \in Seq(S) /\ Len(l) = m + (n + 1)
      /\ \A k \in 1 .. m + (n + 1) : l[k] = IF k <= m THEN s[k] ELSE b[k - m]
  <2>1. b \in Seq(S)
    BY <1>1
  <2>2. /\ s \o b \in Seq(S) /\ Len(s \o b) = Len(s) + Len(b)
        /\ \A k \in 1 .. Len(s) + Len(b) : (s \o b)[k] = IF k <= Len(s) THEN s[k] ELSE b[k - Len(s)]
    BY ONLY <2>1, s \in Seq(S), ConcatProperties
  <2> HIDE DEF l
  <2>3. QED
    BY <1>1, <2>2 DEF l, m
<1>5. /\ r \in Seq(S) /\ Len(r) = (m + n) + 1
      /\ (\A k \in 1 .. m + n : r[k] = a[k]) /\ r[(m + n) + 1] = x
  BY <1>2, AppendProperties
<1> HIDE DEF l, r
<1>6. m + (n + 1) = (m + n) + 1
  BY <1>3
<1>7. ASSUME NEW k \in 1 .. (m + n) + 1
      PROVE  l[k] = r[k]
  <2>1. CASE k <= m
    <3>1. k \in 1 .. m + n
      BY <1>3, <2>1
    <3>2. l[k] = s[k] /\ r[k] = s[k]
      BY <1>2, <1>4, <1>5, <1>6, <2>1, <3>1
    <3>3. QED
      BY <3>2
  <2>2. CASE ~(k <= m) /\ k <= m + n
    <3>1. k \in 1 .. m + n /\ k - m \in 1 .. n
      BY <1>3, <2>2
    <3>2. l[k] = b[k - m] /\ r[k] = t[k - m]
      BY <1>2, <1>4, <1>5, <1>6, <2>2, <3>1
    <3>3. QED
      BY <1>1, <3>1, <3>2
  <2>3. CASE k = (m + n) + 1
    <3>1. ~(k <= m) /\ k - m = n + 1
      BY <1>3, <2>3
    <3>2. l[k] = b[n + 1]
      BY <1>4, <1>6, <3>1
    <3>3. QED
      BY <1>1, <1>5, <2>3, <3>2
  <2>4. QED
    BY <1>3, <2>1, <2>2, <2>3
<1>8. l = r
  BY <1>4, <1>5, <1>6, <1>7, SeqEqual
<1>9. QED
  BY <1>8 DEF l, r, a, b

Flat(ss) == ByReq!FlattenSeq(ss)

(* The lists up to each one.                                                  *)
FlatSteps(f, ss, m) == f[1] = ss[1] /\ \A e \in 2 .. m : f[e] = f[e - 1] \o ss[e]

LEMMA FlatUnfold ==
  ASSUME NEW X, NEW m \in Nat \ {0}, NEW ss \in [1 .. m -> Seq(X)]
  PROVE  \E f : FlatSteps(f, ss, m) /\ Flat(ss) = f[m] /\ \A e \in 1 .. m : f[e] \in Seq(X)
<1> DEFINE N == m - 1
           S == Seq(X)
           F == [k \in 1 .. N |-> [h \in S |-> h \o ss[k + 1]]]
           Step(f) == [e \in 1 .. m |-> IF e = 1 THEN ss[e] ELSE f[e - 1] \o ss[e]]
           flat == CHOOSE f : f = Step(f)
<1>1. ss \in Seq(S) /\ Len(ss) = m
  <2> HIDE DEF S
  <2>1. ss \in Seq(S)
    BY SeqDef DEF S
  <2>2. QED
    BY <2>1, LenProperties
<1>2. Flat(ss) = flat[m]
  BY <1>1 DEF Flat, ByReq!FlattenSeq
<1>3. N \in Nat /\ \A k \in 1 .. N : k + 1 \in 1 .. m
  OBVIOUS
<1>4. \A h, t \in S : h \o t \in S
  BY ConcatProperties
<1>5. \A e \in 1 .. m : ss[e] \in S
  OBVIOUS
<1> HIDE DEF S
<1>6. F \in [1 .. N -> [S -> S]]
  BY <1>3, <1>4, <1>5
<1>7. PICK r \in [0 .. N -> S] : Steps(r, ss[1], F, N)
  <2>1. ss[1] \in S
    BY <1>5
  <2> HIDE DEF F, N
  <2>2. QED
    BY <1>3, <1>6, <2>1, RecursionExists
<1> DEFINE g == [e \in 1 .. m |-> r[e - 1]]
<1>8. g = Step(g)
  <2>1. ASSUME NEW e \in 1 .. m
        PROVE  g[e] = Step(g)[e]
    <3>1. CASE e = 1
      BY <1>7, <3>1 DEF Steps
    <3>2. CASE e # 1
      <4> DEFINE k == e - 1
      <4>1. k \in 1 .. N /\ k - 1 \in 0 .. N /\ k + 1 = e /\ e - 1 \in 1 .. m
        BY <3>2
      <4>2. r[k] = F[k][r[k - 1]] /\ r[k - 1] \in S
        BY <1>7, <4>1 DEF Steps
      <4>3. r[k] = r[k - 1] \o ss[e]
        BY SMTT(40), <4>1, <4>2
      <4>4. g[e] = r[k] /\ g[e - 1] = r[k - 1]
        BY <4>1
      <4>5. QED
        BY <3>2, <4>3, <4>4
    <3>3. QED
      BY <3>1, <3>2
  <2>2. QED
    BY <2>1
<1>9. flat = Step(flat)
  BY <1>8
<1> HIDE DEF flat
<1>10. FlatSteps(flat, ss, m)
  <2>1. 1 \in 1 .. m /\ \A e \in 2 .. m : e \in 1 .. m /\ e # 1
    OBVIOUS
  <2>2. QED
    BY <1>9, <2>1 DEF FlatSteps
<1> DEFINE q == [k \in 0 .. N |-> flat[k + 1]]
<1>11. \A k \in 0 .. N : q[k] \in S
  <2>1. q[0] \in S
    BY <1>5, <1>10 DEF FlatSteps
  <2>2. ASSUME NEW k \in 1 .. N, q[k - 1] \in S
        PROVE  q[k] \in S
    <3> DEFINE e == k + 1
    <3>1. e \in 2 .. m /\ e \in 1 .. m /\ k - 1 \in 0 .. N /\ e - 1 = (k - 1) + 1 /\ k \in 0 .. N
      BY <1>3
    <3>2. flat[e] = flat[e - 1] \o ss[e]
      BY <1>10, <3>1 DEF FlatSteps
    <3>3. flat[e - 1] \in S
      BY <2>2, <3>1
    <3>4. flat[e] \in S
      BY <1>4, <1>5, <3>1, <3>2, <3>3
    <3>5. QED
      BY <3>1, <3>4
  <2> HIDE DEF q, N
  <2>3. QED
    BY <1>3, <2>1, <2>2, StaysIn
<1>12. ASSUME NEW e \in 1 .. m
       PROVE  flat[e] \in S
  <2>1. e - 1 \in 0 .. N /\ (e - 1) + 1 = e
    OBVIOUS
  <2>2. QED
    BY <1>11, <2>1
<1>13. QED
  BY <1>2, <1>10, <1>12 DEF S

(* An entry more at the end of a list after which there is nothing.          *)
OneMore(X, m, ss, tt, e, x) ==
  /\ m \in Nat \ {0} /\ ss \in [1 .. m -> Seq(X)] /\ tt \in [1 .. m -> Seq(X)]
  /\ e \in 1 .. m /\ x \in X /\ tt[e] = Append(ss[e], x)
  /\ \A j \in 1 .. m : j # e => tt[j] = ss[j]
  /\ \A j \in 1 .. m : j > e => ss[j] = <<>>

LEMMA FlatGrows ==
  ASSUME NEW X, NEW m, NEW ss, NEW tt, NEW e, NEW x, OneMore(X, m, ss, tt, e, x)
  PROVE  Flat(tt) = Append(Flat(ss), x)
<1>0. /\ m \in Nat \ {0} /\ ss \in [1 .. m -> Seq(X)] /\ tt \in [1 .. m -> Seq(X)]
      /\ e \in 1 .. m /\ x \in X /\ tt[e] = Append(ss[e], x)
      /\ \A j \in 1 .. m : j # e => tt[j] = ss[j]
      /\ \A j \in 1 .. m : j > e => ss[j] = <<>>
  BY DEF OneMore
<1> USE <1>0
<1>1. PICK f : FlatSteps(f, ss, m) /\ Flat(ss) = f[m] /\ \A j \in 1 .. m : f[j] \in Seq(X)
  BY FlatUnfold
<1>2. PICK g : FlatSteps(g, tt, m) /\ Flat(tt) = g[m] /\ \A j \in 1 .. m : g[j] \in Seq(X)
  BY FlatUnfold
<1>3. \A h, t \in Seq(X) : h \o Append(t, x) = Append(h \o t, x) /\ h \o <<>> = h
  <2>1. ASSUME NEW h \in Seq(X), NEW t \in Seq(X)
        PROVE  h \o Append(t, x) = Append(h \o t, x) /\ h \o <<>> = h
    BY SMTT(40), ConcatAppend, ConcatEmptySeq
  <2>2. QED
    BY <2>1
<1> DEFINE N == m - 1
           Same(j) == g[j] = IF j < e THEN f[j] ELSE Append(f[j], x)
           B == {k \in 0 .. N : Same(k + 1)}
<1>4. Same(1)
  <2>1. f[1] = ss[1] /\ g[1] = tt[1] /\ 1 \in 1 .. m /\ e \in Nat /\ e >= 1
    BY <1>1, <1>2 DEF FlatSteps
  <2>2. QED
    BY <2>1
<1>5. ASSUME NEW k \in 1 .. N, k - 1 \in B
      PROVE  k \in B
  <2> DEFINE j == k + 1
  <2>1. j \in 2 .. m /\ j \in 1 .. m /\ j - 1 = (k - 1) + 1 /\ j - 1 \in 1 .. m /\ k \in 0 .. N
    OBVIOUS
  <2>2. Same(j - 1)
    BY <1>5, <2>1
  <2> HIDE DEF j
  <2>3. f[j] = f[j - 1] \o ss[j] /\ g[j] = g[j - 1] \o tt[j] /\ f[j - 1] \in Seq(X) /\ ss[j] \in Seq(X)
    BY <1>1, <1>2, <2>1 DEF FlatSteps
  <2>4. CASE j < e
    <3>1. j - 1 < e /\ tt[j] = ss[j]
      BY <2>1, <2>4
    <3>2. QED
      BY <2>1, <2>2, <2>3, <2>4, <3>1 DEF j
  <2>5. CASE j = e
    <3>1. j - 1 < e
      BY <2>1, <2>5
    <3>2. g[j] = f[j - 1] \o Append(ss[j], x)
      <4>1. g[j - 1] = f[j - 1]
        BY <2>2, <3>1
      <4>2. tt[j] = Append(ss[j], x)
        BY <2>5
      <4>3. QED
        BY <2>3, <4>1, <4>2
    <3>3. g[j] = Append(f[j], x)
      <4>1. f[j - 1] \o Append(ss[j], x) = Append(f[j - 1] \o ss[j], x)
        BY Zenon, <1>3, <2>3
      <4>2. QED
        BY <2>3, <3>2, <4>1
    <3>4. ~(j < e)
      BY <2>1, <2>5
    <3>5. QED
      BY <2>1, <3>3, <3>4 DEF j
  <2>6. CASE j > e
    <3>1. ~(j - 1 < e) /\ tt[j] = <<>> /\ ss[j] = <<>> /\ ~(j < e)
      <4>1. j \in Int /\ e \in Int
        BY <2>1
      <4>2. ~(j - 1 < e) /\ ~(j < e) /\ j # e
        BY <2>6, <4>1
      <4>3. QED
        BY <2>1, <2>6, <4>2
    <3>2. f[j] = f[j - 1]
      BY <1>3, <2>3, <3>1
    <3>3. g[j - 1] \in Seq(X)
      BY <1>2, <2>1
    <3>4. g[j] = g[j - 1]
      BY <1>3, <2>3, <3>1, <3>3
    <3>5. g[j] = Append(f[j], x)
      BY <2>2, <3>1, <3>2, <3>4
    <3>6. QED
      BY <2>1, <3>1, <3>5 DEF j
  <2>7. QED
    BY <2>1, <2>4, <2>5, <2>6
<1>6. N \in Nat /\ N \in 0 .. N /\ N + 1 = m /\ 0 \in 0 .. N
  OBVIOUS
<1>7. \A k \in 0 .. N : k \in B
  <2>1. 0 \in B
    BY <1>4, <1>6
  <2> HIDE DEF B, N
  <2>2. QED
    BY <1>5, <1>6, <2>1, UpTo
<1>8. Same(m)
  BY <1>6, <1>7
<1>9. ~(m < e)
  OBVIOUS
<1>10. QED
  BY <1>1, <1>2, <1>8, <1>9

LEMMA FlatEmpty ==
  ASSUME NEW m \in Nat \ {0}, NEW ss, ss = [j \in 1 .. m |-> <<>>]
  PROVE  Flat(ss) = <<>>
<1>1. ss \in [1 .. m -> Seq({})]
  <2>1. <<>> \in Seq({})
    BY EmptySeq
  <2>2. QED
    BY <2>1
<1>2. PICK f : FlatSteps(f, ss, m) /\ Flat(ss) = f[m] /\ \A j \in 1 .. m : f[j] \in Seq({})
  BY <1>1, FlatUnfold
<1>3. f[m] \in Seq({})
  BY <1>2
<1>4. Len(f[m]) = 0
  <2>1. f[m] \in [1 .. Len(f[m]) -> {}] /\ Len(f[m]) \in Nat
    BY <1>3, LenProperties
  <2>2. Len(f[m]) > 0 => 1 \in 1 .. Len(f[m])
    BY <2>1
  <2>3. QED
    BY <2>1, <2>2
<1>5. QED
  BY <1>2, <1>3, <1>4, EmptySeq

-----------------------------------------------------------------------------
(* The rates that have metrics: up to the first line without a rate they are  *)
(* those of the lines.                                                        *)
RatedOf(rates) ==
  LET rated[l \in 0 .. Len(rates)] ==
        IF l = 0 THEN <<>>
        ELSE IF rates[l] # 0 THEN Append(rated[l - 1], rates[l]) ELSE rated[l - 1]
  IN  rated[Len(rates)]

LEMMA RatedIs ==
  ASSUME NEW S, NEW rates \in Seq(S), NEW m \in 0 .. Len(rates), \A l \in 1 .. m : rates[l] # 0
  PROVE  /\ RatedOf(rates) \in Seq(S) /\ Len(RatedOf(rates)) >= m
         /\ \A l \in 1 .. m : RatedOf(rates)[l] = rates[l]
<1> DEFINE N == Len(rates)
           Q == Seq(S)
           F == [l \in 1 .. N |-> [h \in Q |-> IF rates[l] # 0 THEN Append(h, rates[l]) ELSE h]]
           Step(f) == [l \in 0 .. N |->
                        IF l = 0 THEN <<>>
                        ELSE IF rates[l] # 0 THEN Append(f[l - 1], rates[l]) ELSE f[l - 1]]
           rated == CHOOSE f : f = Step(f)
<1>1. RatedOf(rates) = rated[N]
  BY DEF RatedOf
<1>2. N \in Nat /\ (\A l \in 1 .. N : rates[l] \in S) /\ <<>> \in Q
  BY EmptySeq
<1>3. \A h \in Q, x \in S : Append(h, x) \in Q
  BY AppendProperties
<1> HIDE DEF N, Q
<1>4. F \in [1 .. N -> [Q -> Q]]
  BY <1>2, <1>3
<1>5. PICK r \in [0 .. N -> Q] : Steps(r, <<>>, F, N)
  <2> HIDE DEF F
  <2>1. QED
    BY <1>2, <1>4, RecursionExists
<1>6. r = Step(r)
  <2>1. ASSUME NEW l \in 0 .. N
        PROVE  r[l] = Step(r)[l]
    <3>1. CASE l = 0
      BY <1>5, <3>1 DEF Steps
    <3>2. CASE l # 0
      <4>1. l \in 1 .. N /\ l - 1 \in 0 .. N
        BY <1>2, <3>2
      <4>2. r[l] = F[l][r[l - 1]] /\ r[l - 1] \in Q
        BY <1>5, <4>1 DEF Steps
      <4>3. QED
        BY <3>2, <4>1, <4>2
    <3>3. QED
      BY <3>1, <3>2
  <2>2. QED
    BY <2>1
<1>7. rated = Step(rated)
  BY <1>6
<1> HIDE DEF rated
<1>8. /\ rated[0] = <<>>
      /\ \A l \in 1 .. N : rated[l] = IF rates[l] # 0 THEN Append(rated[l - 1], rates[l]) ELSE rated[l - 1]
  <2>1. 0 \in 0 .. N /\ \A l \in 1 .. N : l \in 0 .. N /\ l # 0
    BY <1>2
  <2>2. QED
    BY <1>7, <2>1
<1> DEFINE Good(l) == /\ rated[l] \in Q /\ (l <= m => Len(rated[l]) = l) /\ (l >= m => Len(rated[l]) >= m)
                      /\ \A k \in 1 .. m : k <= l => rated[l][k] = rates[k]
           B == {l \in 0 .. N : Good(l)}
<1>9. m \in Nat /\ m <= N
  BY DEF N
<1>10. 0 \in B
  <2>1. Len(rated[0]) = 0
    BY <1>8
  <2>2. QED
    BY <1>2, <1>8, <1>9, <2>1
<1>11. ASSUME NEW l \in 1 .. N, l - 1 \in B
       PROVE  l \in B
  <2> DEFINE q == rated[l - 1]
             x == rates[l]
  <2>1. /\ q \in Q /\ (l - 1 <= m => Len(q) = l - 1) /\ (l - 1 >= m => Len(q) >= m)
        /\ \A k \in 1 .. m : k <= l - 1 => q[k] = rates[k]
    BY <1>11
  <2>2. rated[l] = IF x # 0 THEN Append(q, x) ELSE q
    BY <1>8
  <2>3. x \in S /\ l \in Nat /\ l \in 0 .. N
    BY <1>2
  <2>4. Len(q) \in Nat
    BY <2>1, LenProperties DEF Q
  <2>5. l <= m => x # 0 /\ x = rates[l] /\ l \in 1 .. m
    BY <1>9
  <2> HIDE DEF q, x
  <2>6. CASE x # 0
    <3> DEFINE t == Append(q, x)
    <3>1. t \in Q /\ Len(t) = Len(q) + 1 /\ (\A k \in 1 .. Len(q) : t[k] = q[k]) /\ t[Len(q) + 1] = x
      BY <2>1, <2>3, AppendProperties DEF Q
    <3>2. rated[l] = t
      BY <2>2, <2>6
    <3> HIDE DEF t
    <3>3. (l <= m => Len(t) = l) /\ (l >= m => Len(t) >= m)
      BY <1>9, <2>1, <2>3, <2>4, <3>1
    <3>4. ASSUME NEW k \in 1 .. m, k <= l
          PROVE  t[k] = rates[k]
      <4>1. CASE k <= l - 1
        <5>1. k \in 1 .. Len(q)
          BY <1>9, <2>1, <2>3, <2>4, <4>1
        <5>2. QED
          BY <2>1, <3>1, <4>1, <5>1
      <4>2. CASE ~(k <= l - 1)
        <5>1. k = l /\ l <= m /\ l - 1 <= m
          BY <1>9, <2>3, <3>4, <4>2
        <5>2. Len(q) + 1 = l
          BY <2>1, <2>3, <5>1
        <5>3. QED
          BY <2>5, <3>1, <5>1, <5>2
      <4>3. QED
        BY <4>1, <4>2
    <3>5. QED
      BY <2>3, <3>1, <3>2, <3>3, <3>4
  <2>7. CASE x = 0
    <3>1. rated[l] = q /\ ~(l <= m)
      BY <2>2, <2>5, <2>7
    <3>2. l - 1 >= m /\ \A k \in 1 .. m : k <= l - 1
      BY <1>9, <2>3, <3>1
    <3>3. QED
      BY <2>1, <2>3, <3>1, <3>2
  <2>8. QED
    BY <2>6, <2>7
<1>12. \A l \in 0 .. N : l \in B
  <2> HIDE DEF B
  <2>1. QED
    BY <1>2, <1>10, <1>11, UpTo
<1>13. Good(N)
  <2>1. N \in 0 .. N
    BY <1>2
  <2>2. QED
    BY <1>12, <2>1
<1>14. \A l \in 1 .. m : l <= N
  BY <1>2, <1>9
<1>15. rated[N] \in Q /\ Len(rated[N]) >= m
  BY <1>9, <1>13
<1>16. \A l \in 1 .. m : rated[N][l] = rates[l]
  <2> HIDE DEF N
  <2>1. QED
    BY <1>13, <1>14
<1> HIDE DEF Good, B, F
<1>17. QED
  BY <1>1, <1>15, <1>16 DEF Q

-----------------------------------------------------------------------------
(* The lists of the logger.                                                  *)
RowsGrow(m, l, c, ss, tt) ==
  /\ m \in Nat \ {0} /\ l \in 1 .. m /\ c \in [1 .. m -> Nat]
  /\ ss = [j \in 1 .. m |-> ss[j]] /\ tt = [j \in 1 .. m |-> tt[j]]
  /\ \A j \in 1 .. m : /\ IsList(ss[j], c[j])
                       /\ IsList(tt[j], IF j = l THEN c[j] + 1 ELSE c[j])
                       /\ j > l => c[j] = 0
                       /\ \A k \in 1 .. c[j] : tt[j][k] = ss[j][k]

LEMMA FlatRows ==
  ASSUME NEW m, NEW l, NEW c, NEW ss, NEW tt, RowsGrow(m, l, c, ss, tt), NEW n, IsList(Flat(ss), n)
  PROVE  /\ IsList(Flat(tt), n + 1)
         /\ \A k \in 1 .. n : Flat(tt)[k] = Flat(ss)[k]
         /\ Flat(tt)[n + 1] = tt[l][c[l] + 1]
<1>0. /\ m \in Nat \ {0} /\ l \in 1 .. m /\ c \in [1 .. m -> Nat]
      /\ ss = [j \in 1 .. m |-> ss[j]] /\ tt = [j \in 1 .. m |-> tt[j]]
      /\ \A j \in 1 .. m : /\ IsList(ss[j], c[j])
                           /\ IsList(tt[j], IF j = l THEN c[j] + 1 ELSE c[j])
                           /\ j > l => c[j] = 0
                           /\ \A k \in 1 .. c[j] : tt[j][k] = ss[j][k]
  BY DEF RowsGrow
<1> USE <1>0
<1> DEFINE x == tt[l][c[l] + 1]
           R(j) == {ss[j][k] : k \in 1 .. c[j]}
           X == (UNION {R(j) : j \in 1 .. m}) \cup {x}
<1>1. ASSUME NEW j \in 1 .. m
      PROVE  ss[j] \in Seq(X) /\ Len(ss[j]) = c[j]
  <2>1. \A k \in 1 .. c[j] : ss[j][k] \in R(j)
    OBVIOUS
  <2> HIDE DEF R
  <2>2. \A k \in 1 .. c[j] : ss[j][k] \in X
    BY <2>1
  <2> HIDE DEF X
  <2>3. IsList(ss[j], c[j])
    OBVIOUS
  <2>4. QED
    BY <2>2, <2>3, ListIs
<1>2. x \in X
  OBVIOUS
<1> HIDE DEF X, x
<1>3. tt[l] = Append(ss[l], x)
  <2>1. IsList(ss[l], c[l]) /\ IsList(tt[l], c[l] + 1) /\ \A k \in 1 .. c[l] : tt[l][k] = ss[l][k]
    OBVIOUS
  <2>2. QED
    BY <2>1, ListExtended DEF x
<1>4. ASSUME NEW j \in 1 .. m, j # l
      PROVE  tt[j] = ss[j]
  <2>1. IsList(ss[j], c[j]) /\ IsList(tt[j], c[j]) /\ \A k \in 1 .. c[j] : ss[j][k] = tt[j][k]
    BY <1>4
  <2>2. QED
    BY <2>1, ListSame
<1>5. ASSUME NEW j \in 1 .. m, j > l
      PROVE  ss[j] = <<>>
  BY <1>1, <1>5, EmptySeq
<1>6. ss \in [1 .. m -> Seq(X)]
  BY <1>1
<1>7. tt \in [1 .. m -> Seq(X)]
  <2>1. ASSUME NEW j \in 1 .. m
        PROVE  tt[j] \in Seq(X)
    <3>1. CASE j = l
      <4>1. ss[l] \in Seq(X)
        BY <1>1
      <4>2. Append(ss[l], x) \in Seq(X)
        BY <1>2, <4>1, AppendProperties
      <4>3. QED
        BY <1>3, <3>1, <4>2
    <3>2. CASE j # l
      BY <1>1, <1>4, <3>2
    <3>3. QED
      BY <3>1, <3>2
  <2>2. QED
    BY <2>1
<1> DEFINE q == Flat(ss)
           h == Flat(tt)
<1>8. h = Append(q, x)
  <2>1. (\A j \in 1 .. m : j # l => tt[j] = ss[j]) /\ \A j \in 1 .. m : j > l => ss[j] = <<>>
    BY <1>4, <1>5
  <2>2. QED
    <3>1. OneMore(X, m, ss, tt, l, x)
      BY <1>2, <1>3, <1>6, <1>7, <2>1 DEF OneMore
    <3>2. QED
      BY ONLY <3>1, FlatGrows
<1>9. IsList(q, n)
  OBVIOUS
<1> HIDE DEF q, h
<1>10. IsList(h, n + 1) /\ (\A k \in 1 .. n : h[k] = q[k]) /\ h[n + 1] = x
  <2>1. IsAppend(h, q, n, x)
    BY <1>8, <1>9 DEF IsAppend
  <2>2. QED
    BY ONLY <2>1, ListAppend
<1>11. QED
  BY <1>10 DEF q, h, x

(* The logger keeps a list for every rate, and one of every operator, with as *)
(* many captures as it counted.                                               *)
LogOK(lg, m) ==
  /\ lg = [index |-> lg.index, system |-> lg.system, oper |-> lg.oper, captures |-> lg.captures]
  /\ lg.system = [j \in 1 .. m |-> lg.system[j]]
  /\ lg.oper = [o \in Operator |-> lg.oper[o]]
  /\ \A o \in Operator : lg.oper[o] = [j \in 1 .. m |-> lg.oper[o][j]]
  /\ lg.captures \in [1 .. m -> Nat]
  /\ \A j \in 1 .. m : /\ IsList(lg.system[j], lg.captures[j])
                       /\ \A o \in Operator : IsList(lg.oper[o][j], lg.captures[j])

LEMMA CaptureIs ==
  ASSUME NEW m \in Nat, NEW l \in 1 .. m, NEW lg, LogOK(lg, m), lg.index + 1 = l,
         NEW time, NEW rc, NEW accs, NEW d, d = ByReq!CaptureMetrics(lg, time, rc, accs)
  PROVE  /\ LogOK(d, m) /\ d.index = lg.index
         /\ d.captures = [j \in 1 .. m |-> IF j = l THEN lg.captures[j] + 1 ELSE lg.captures[j]]
         /\ \A j \in 1 .. m : \A k \in 1 .. lg.captures[j] :
              /\ d.system[j][k] = lg.system[j][k]
              /\ \A o \in Operator : d.oper[o][j][k] = lg.oper[o][j][k]
         /\ d.system[l][lg.captures[l] + 1] = [time |-> time, recs |-> rc]
         /\ \A o \in Operator : d.oper[o][l][lg.captures[l] + 1] = accs[o]
<1> DEFINE x == [time |-> time, recs |-> rc]
           ix == lg.index
           sy == lg.system
           op == lg.oper
           cp == lg.captures
           sy2 == [sy EXCEPT ![l] = Append(@, x)]
           op2 == [o \in Operator |-> [op[o] EXCEPT ![l] = Append(@, accs[o])]]
           cp2 == [cp EXCEPT ![l] = @ + 1]
<1>1. /\ lg = [index |-> ix, system |-> sy, oper |-> op, captures |-> cp]
      /\ sy = [j \in 1 .. m |-> sy[j]] /\ op = [o \in Operator |-> op[o]]
      /\ \A o \in Operator : op[o] = [j \in 1 .. m |-> op[o][j]]
      /\ cp \in [1 .. m -> Nat]
      /\ \A j \in 1 .. m : /\ IsList(sy[j], cp[j]) /\ \A o \in Operator : IsList(op[o][j], cp[j])
  BY DEF LogOK
<1>2. d = [index |-> ix, system |-> sy2, oper |-> op2, captures |-> cp2]
  <2>1. d = [lg EXCEPT !.system[l] = Append(@, x), !.oper = op2, !.captures[l] = @ + 1]
    BY DEF ByReq!CaptureMetrics
  <2> HIDE DEF ix, sy, op, cp, op2, x
  <2>2. d = [[index |-> ix, system |-> sy, oper |-> op, captures |-> cp]
               EXCEPT !.system[l] = Append(@, x), !.oper = op2, !.captures[l] = @ + 1]
    BY <1>1, <2>1
  <2>3. QED
    BY <2>2
<1> HIDE DEF ix, sy, op, cp, x
<1>3. sy2 = [j \in 1 .. m |-> IF j = l THEN Append(sy[j], x) ELSE sy[j]]
  BY <1>1
<1>4. \A o \in Operator :
        op2[o] = [j \in 1 .. m |-> IF j = l THEN Append(op[o][j], accs[o]) ELSE op[o][j]]
  BY <1>1
<1>5. cp2 = [j \in 1 .. m |-> IF j = l THEN cp[j] + 1 ELSE cp[j]] /\ cp2 \in [1 .. m -> Nat]
  <2>1. cp2 = [j \in 1 .. m |-> IF j = l THEN cp[j] + 1 ELSE cp[j]]
    BY <1>1
  <2>2. \A j \in 1 .. m : cp[j] + 1 \in Nat /\ cp[j] \in Nat
    BY <1>1
  <2> HIDE DEF cp2
  <2>3. QED
    BY <2>1, <2>2
<1>6. op2 = [o \in Operator |-> op2[o]]
  OBVIOUS
<1> HIDE DEF sy2, op2, cp2
<1>7. d.index = ix /\ d.system = sy2 /\ d.oper = op2 /\ d.captures = cp2
  BY <1>2
<1>8. ASSUME NEW j \in 1 .. m
      PROVE  /\ IsList(sy2[j], cp2[j]) /\ \A k \in 1 .. cp[j] : sy2[j][k] = sy[j][k]
             /\ j = l => sy2[j][cp[j] + 1] = x
  <2>1. IsList(sy[j], cp[j])
    BY <1>1
  <2>2. CASE j = l
    <3>1. sy2[j] = Append(sy[j], x) /\ cp2[j] = cp[j] + 1
      BY <1>3, <1>5, <2>2
    <3> DEFINE n == cp[j]
               q == sy[j]
               h == Append(q, x)
    <3> HIDE DEF n, q, h
    <3>2. IsList(q, n)
      BY <2>1 DEF n, q
    <3>3. IsList(h, n + 1) /\ (\A k \in 1 .. n : h[k] = q[k]) /\ h[n + 1] = x
      <4>1. IsAppend(h, q, n, x)
        BY <3>2 DEF h, IsAppend
      <4>2. QED
        BY ONLY <4>1, ListAppend
    <3>4. QED
      BY <3>1, <3>3 DEF n, q, h
  <2>3. CASE j # l
    <3>1. sy2[j] = sy[j] /\ cp2[j] = cp[j]
      BY <1>3, <1>5, <2>3
    <3>2. QED
      BY <2>1, <2>3, <3>1
  <2>4. QED
    BY <2>2, <2>3
<1>9. ASSUME NEW j \in 1 .. m, NEW o \in Operator
      PROVE  /\ IsList(op2[o][j], cp2[j]) /\ \A k \in 1 .. cp[j] : op2[o][j][k] = op[o][j][k]
             /\ j = l => op2[o][j][cp[j] + 1] = accs[o]
  <2>1. IsList(op[o][j], cp[j])
    BY <1>1
  <2>2. CASE j = l
    <3>1. op2[o][j] = Append(op[o][j], accs[o]) /\ cp2[j] = cp[j] + 1
      BY <1>4, <1>5, <2>2
    <3> DEFINE n == cp[j]
               q == op[o][j]
               y == accs[o]
               h == Append(q, y)
    <3> HIDE DEF n, q, h, y
    <3>2. IsList(q, n)
      BY <2>1 DEF n, q
    <3>3. IsList(h, n + 1) /\ (\A k \in 1 .. n : h[k] = q[k]) /\ h[n + 1] = y
      <4>1. IsAppend(h, q, n, y)
        BY <3>2 DEF h, IsAppend
      <4>2. QED
        BY ONLY <4>1, ListAppend
    <3>4. QED
      BY <3>1, <3>3 DEF n, q, h, y
  <2>3. CASE j # l
    <3>1. op2[o][j] = op[o][j] /\ cp2[j] = cp[j]
      BY <1>4, <1>5, <2>3
    <3>2. QED
      BY <2>1, <2>3, <3>1
  <2>4. QED
    BY <2>2, <2>3
<1>10. LogOK(d, m)
  <2>1. d = [index |-> d.index, system |-> d.system, oper |-> d.oper, captures |-> d.captures]
    BY <1>2, <1>7
  <2>2. /\ sy2 = [j \in 1 .. m |-> sy2[j]]
        /\ \A o \in Operator : op2[o] = [j \in 1 .. m |-> op2[o][j]]
    BY <1>3, <1>4
  <2>3. QED
    BY <1>5, <1>6, <1>7, <1>8, <1>9, <2>1, <2>2 DEF LogOK
<1>11. QED
  BY <1>5, <1>7, <1>8, <1>9, <1>10 DEF ix, sy, op, cp, x

(* What is logged, and printed, of the k-th capture under the j-th rate.      *)
ReportedEntry(lg, rated, j, k) ==
  [rate |-> rated[j], time |-> lg.system[j][k].time, recs |-> lg.system[j][k].recs,
   opers |-> [o \in Operator |-> lg.oper[o][j][k]]]
SystemEntry(lg, rated, j, k) == [rate |-> rated[j], time |-> lg.system[j][k].time]
OperEntry(lg, rated, j, k) == [rate |-> rated[j], opers |-> [o \in Operator |-> lg.oper[o][j][k]]]

ReportedRows(lg, rated) ==
  [j \in DOMAIN rated |-> [k \in 1 .. lg.captures[j] |-> ReportedEntry(lg, rated, j, k)]]
SystemRows(lg, rated) ==
  [j \in DOMAIN rated |-> [k \in DOMAIN lg.system[j] |-> SystemEntry(lg, rated, j, k)]]
OperRows(lg, rated) ==
  [j \in DOMAIN rated |-> [k \in 1 .. lg.captures[j] |-> OperEntry(lg, rated, j, k)]]

RowsOf(lg, rated, m) ==
  /\ ReportedRows(lg, rated) = [j \in 1 .. m |-> ReportedRows(lg, rated)[j]]
  /\ SystemRows(lg, rated) = [j \in 1 .. m |-> SystemRows(lg, rated)[j]]
  /\ OperRows(lg, rated) = [j \in 1 .. m |-> OperRows(lg, rated)[j]]
  /\ \A j \in 1 .. m :
       /\ lg.captures[j] \in Nat
       /\ IsList(ReportedRows(lg, rated)[j], lg.captures[j])
       /\ IsList(SystemRows(lg, rated)[j], lg.captures[j])
       /\ IsList(OperRows(lg, rated)[j], lg.captures[j])
       /\ \A k \in 1 .. lg.captures[j] :
            /\ ReportedRows(lg, rated)[j][k] = ReportedEntry(lg, rated, j, k)
            /\ SystemRows(lg, rated)[j][k] = SystemEntry(lg, rated, j, k)
            /\ OperRows(lg, rated)[j][k] = OperEntry(lg, rated, j, k)

LEMMA Rows ==
  ASSUME NEW m \in Nat, NEW rated, DOMAIN rated = 1 .. m, NEW lg, LogOK(lg, m)
  PROVE  RowsOf(lg, rated, m)
<1> DEFINE A == ReportedRows(lg, rated)
           B == SystemRows(lg, rated)
           C == OperRows(lg, rated)
<1>1. ASSUME NEW j \in 1 .. m
      PROVE  lg.captures[j] \in Nat /\ DOMAIN lg.system[j] = 1 .. lg.captures[j]
  <2>1. lg.captures[j] \in Nat /\ IsList(lg.system[j], lg.captures[j])
    BY DEF LogOK
  <2>2. QED
    BY <2>1 DEF IsList
<1>2. /\ A = [j \in 1 .. m |-> [k \in 1 .. lg.captures[j] |-> ReportedEntry(lg, rated, j, k)]]
      /\ B = [j \in 1 .. m |-> [k \in DOMAIN lg.system[j] |-> SystemEntry(lg, rated, j, k)]]
      /\ C = [j \in 1 .. m |-> [k \in 1 .. lg.captures[j] |-> OperEntry(lg, rated, j, k)]]
  BY DEF ReportedRows, SystemRows, OperRows
<1> HIDE DEF A, B, C
<1>3. A = [j \in 1 .. m |-> A[j]] /\ B = [j \in 1 .. m |-> B[j]] /\ C = [j \in 1 .. m |-> C[j]]
  BY <1>2
<1>4. ASSUME NEW j \in 1 .. m
      PROVE  /\ A[j] = [k \in 1 .. lg.captures[j] |-> ReportedEntry(lg, rated, j, k)]
             /\ B[j] = [k \in 1 .. lg.captures[j] |-> SystemEntry(lg, rated, j, k)]
             /\ C[j] = [k \in 1 .. lg.captures[j] |-> OperEntry(lg, rated, j, k)]
  <2>1. B[j] = [k \in DOMAIN lg.system[j] |-> SystemEntry(lg, rated, j, k)]
    BY <1>2
  <2>2. B[j] = [k \in 1 .. lg.captures[j] |-> SystemEntry(lg, rated, j, k)]
    BY <1>1, <2>1
  <2>3. QED
    BY <1>2, <2>2
<1>5. ASSUME NEW j \in 1 .. m
      PROVE  /\ IsList(A[j], lg.captures[j]) /\ IsList(B[j], lg.captures[j])
             /\ IsList(C[j], lg.captures[j])
             /\ \A k \in 1 .. lg.captures[j] :
                  /\ A[j][k] = ReportedEntry(lg, rated, j, k)
                  /\ B[j][k] = SystemEntry(lg, rated, j, k)
                  /\ C[j][k] = OperEntry(lg, rated, j, k)
  BY <1>1, <1>4 DEF IsList
<1>6. QED
  BY <1>1, <1>3, <1>5 DEF RowsOf, A, B, C

(* The captures n, made at the lines and times of fd, are what is logged (a), *)
(* and printed of the system (b) and the operators (c).                       *)
Matches(rates, fd, n, a, b, c) ==
  /\ IsList(fd, n) /\ IsList(a, n) /\ IsList(b, n) /\ IsList(c, n)
  /\ \A k \in 1 .. n :
       /\ a[k].rate = rates[fd[k].line] /\ a[k].time = fd[k].time
       /\ b[k] = [rate |-> rates[fd[k].line], time |-> fd[k].time]
       /\ c[k] = [rate |-> a[k].rate, opers |-> a[k].opers]

AddedAll(rates, n, a, b, c, a2, b2, c2, l, time) ==
  /\ IsList(a2, n + 1) /\ IsList(b2, n + 1) /\ IsList(c2, n + 1)
  /\ \A k \in 1 .. n : a2[k] = a[k] /\ b2[k] = b[k] /\ c2[k] = c[k]
  /\ a2[n + 1].rate = rates[l] /\ a2[n + 1].time = time
  /\ b2[n + 1] = [rate |-> rates[l], time |-> time]
  /\ c2[n + 1] = [rate |-> a2[n + 1].rate, opers |-> a2[n + 1].opers]

LEMMA MatchesNext ==
  ASSUME NEW rates, NEW fd, NEW n, NEW a, NEW b, NEW c, Matches(rates, fd, n, a, b, c),
         NEW l, NEW time, NEW fd2, NEW a2, NEW b2, NEW c2,
         AddedAll(rates, n, a, b, c, a2, b2, c2, l, time),
         fd2 = Append(fd, [line |-> l, time |-> time])
  PROVE  Matches(rates, fd2, n + 1, a2, b2, c2)
<1>0. /\ IsList(a2, n + 1) /\ IsList(b2, n + 1) /\ IsList(c2, n + 1)
      /\ \A k \in 1 .. n : a2[k] = a[k] /\ b2[k] = b[k] /\ c2[k] = c[k]
      /\ a2[n + 1].rate = rates[l] /\ a2[n + 1].time = time
      /\ b2[n + 1] = [rate |-> rates[l], time |-> time]
      /\ c2[n + 1] = [rate |-> a2[n + 1].rate, opers |-> a2[n + 1].opers]
  BY DEF AddedAll
<1> DEFINE x == [line |-> l, time |-> time]
<1>1. x.line = l /\ x.time = time
  OBVIOUS
<1> HIDE DEF x
<1>2. IsAppend(fd2, fd, n, x)
  BY DEF x, IsAppend, Matches
<1>3. IsList(fd2, n + 1) /\ (\A k \in 1 .. n : fd2[k] = fd[k]) /\ fd2[n + 1] = x
  BY ONLY <1>2, ListAppend
<1>4. n \in Nat
  BY DEF Matches, IsList
<1>5. ASSUME NEW k \in 1 .. n + 1
      PROVE  /\ a2[k].rate = rates[fd2[k].line] /\ a2[k].time = fd2[k].time
             /\ b2[k] = [rate |-> rates[fd2[k].line], time |-> fd2[k].time]
             /\ c2[k] = [rate |-> a2[k].rate, opers |-> a2[k].opers]
  <2>1. CASE k = n + 1
    BY <1>0, <1>1, <1>3, <2>1
  <2>2. CASE k # n + 1
    <3>1. k \in 1 .. n
      BY <1>4, <2>2
    <3>2. a2[k] = a[k] /\ b2[k] = b[k] /\ c2[k] = c[k] /\ fd2[k] = fd[k]
      BY <1>0, <1>3, <3>1
    <3>3. /\ a[k].rate = rates[fd[k].line] /\ a[k].time = fd[k].time
          /\ b[k] = [rate |-> rates[fd[k].line], time |-> fd[k].time]
          /\ c[k] = [rate |-> a[k].rate, opers |-> a[k].opers]
      BY <3>1 DEF Matches
    <3>4. QED
      BY <3>2, <3>3
  <2>3. QED
    BY <2>1, <2>2
<1>6. IsList(a2, n + 1) /\ IsList(b2, n + 1) /\ IsList(c2, n + 1)
  BY <1>0
<1>7. QED
  BY <1>3, <1>5, <1>6 DEF Matches

(* At line l, m rates have metrics: the logger's index is that of the line,   *)
(* there are no captures beyond it, and those up to it match.                 *)
FiledInv(rates, rated, m, l, lg, fd, n) ==
  /\ m \in Nat /\ l \in 1 .. m /\ DOMAIN rated = 1 .. m
  /\ LogOK(lg, m) /\ lg.index + 1 = l
  /\ \A j \in 1 .. m : j > l => lg.captures[j] = 0
  /\ Matches(rates, fd, n, Flat(ReportedRows(lg, rated)), Flat(SystemRows(lg, rated)),
             Flat(OperRows(lg, rated)))

LEMMA FiledCapture ==
  ASSUME NEW rates, NEW rated, NEW m, NEW l, NEW lg, NEW fd, NEW n,
         FiledInv(rates, rated, m, l, lg, fd, n), rated[l] = rates[l],
         NEW time, NEW rc, NEW accs
  PROVE  FiledInv(rates, rated, m, l, ByReq!CaptureMetrics(lg, time, rc, accs),
                  Append(fd, [line |-> l, time |-> time]), n + 1)
<1> DEFINE d == ByReq!CaptureMetrics(lg, time, rc, accs)
           fd2 == Append(fd, [line |-> l, time |-> time])
           c == lg.captures
           k1 == c[l] + 1
           A == ReportedRows(lg, rated)
           B == SystemRows(lg, rated)
           C == OperRows(lg, rated)
           A2 == ReportedRows(d, rated)
           B2 == SystemRows(d, rated)
           C2 == OperRows(d, rated)
<1>1. /\ m \in Nat \ {0} /\ l \in 1 .. m /\ DOMAIN rated = 1 .. m
      /\ LogOK(lg, m) /\ lg.index + 1 = l
      /\ (\A j \in 1 .. m : j > l => c[j] = 0)
      /\ Matches(rates, fd, n, Flat(A), Flat(B), Flat(C))
  BY DEF FiledInv
<1> HIDE DEF d, fd2
<1>2. /\ LogOK(d, m) /\ d.index = lg.index
      /\ d.captures = [j \in 1 .. m |-> IF j = l THEN lg.captures[j] + 1 ELSE lg.captures[j]]
      /\ \A j \in 1 .. m : \A k \in 1 .. lg.captures[j] :
           /\ d.system[j][k] = lg.system[j][k]
           /\ \A o \in Operator : d.oper[o][j][k] = lg.oper[o][j][k]
      /\ d.system[l][lg.captures[l] + 1] = [time |-> time, recs |-> rc]
      /\ \A o \in Operator : d.oper[o][l][lg.captures[l] + 1] = accs[o]
  BY SMTT(40), <1>1, CaptureIs DEF d
<1>3. c \in [1 .. m -> Nat]
  BY <1>1 DEF LogOK
<1>4. ASSUME NEW j \in 1 .. m, NEW k \in 1 .. c[j]
      PROVE  /\ ReportedEntry(d, rated, j, k) = ReportedEntry(lg, rated, j, k)
             /\ SystemEntry(d, rated, j, k) = SystemEntry(lg, rated, j, k)
             /\ OperEntry(d, rated, j, k) = OperEntry(lg, rated, j, k)
  <2>1. /\ d.system[j][k] = lg.system[j][k]
        /\ \A o \in Operator : d.oper[o][j][k] = lg.oper[o][j][k]
    BY <1>2
  <2>2. [o \in Operator |-> d.oper[o][j][k]] = [o \in Operator |-> lg.oper[o][j][k]]
    BY <2>1
  <2>3. QED
    BY <2>1, <2>2 DEF ReportedEntry, SystemEntry, OperEntry
<1>5. /\ A = [j \in 1 .. m |-> A[j]] /\ B = [j \in 1 .. m |-> B[j]] /\ C = [j \in 1 .. m |-> C[j]]
      /\ \A j \in 1 .. m :
           /\ IsList(A[j], c[j]) /\ IsList(B[j], c[j]) /\ IsList(C[j], c[j])
           /\ \A k \in 1 .. c[j] :
                /\ A[j][k] = ReportedEntry(lg, rated, j, k)
                /\ B[j][k] = SystemEntry(lg, rated, j, k)
                /\ C[j][k] = OperEntry(lg, rated, j, k)
  <2>1. RowsOf(lg, rated, m)
    BY <1>1, Rows
  <2>2. QED
    BY <2>1 DEF RowsOf
<1>6. /\ A2 = [j \in 1 .. m |-> A2[j]] /\ B2 = [j \in 1 .. m |-> B2[j]] /\ C2 = [j \in 1 .. m |-> C2[j]]
      /\ \A j \in 1 .. m :
           /\ IsList(A2[j], d.captures[j]) /\ IsList(B2[j], d.captures[j])
           /\ IsList(C2[j], d.captures[j])
           /\ \A k \in 1 .. d.captures[j] :
                /\ A2[j][k] = ReportedEntry(d, rated, j, k)
                /\ B2[j][k] = SystemEntry(d, rated, j, k)
                /\ C2[j][k] = OperEntry(d, rated, j, k)
  <2>1. RowsOf(d, rated, m)
    BY <1>1, <1>2, Rows
  <2>2. QED
    BY <2>1 DEF RowsOf
<1> HIDE DEF A, B, C, A2, B2, C2, c
<1>7. ASSUME NEW j \in 1 .. m
      PROVE  /\ d.captures[j] = IF j = l THEN c[j] + 1 ELSE c[j]
             /\ c[j] \in Nat /\ \A k \in 1 .. c[j] : k \in 1 .. d.captures[j]
  <2>1. d.captures[j] = (IF j = l THEN c[j] + 1 ELSE c[j]) /\ c[j] \in Nat
    BY <1>2, <1>3 DEF c
  <2>2. QED
    BY <2>1
<1>8. RowsGrow(m, l, c, A, A2) /\ RowsGrow(m, l, c, B, B2) /\ RowsGrow(m, l, c, C, C2)
  <2>1. ASSUME NEW j \in 1 .. m, NEW k \in 1 .. c[j]
        PROVE  A2[j][k] = A[j][k] /\ B2[j][k] = B[j][k] /\ C2[j][k] = C[j][k]
    BY <1>4, <1>5, <1>6, <1>7
  <2>2. ASSUME NEW j \in 1 .. m
        PROVE  /\ IsList(A2[j], IF j = l THEN c[j] + 1 ELSE c[j])
               /\ IsList(B2[j], IF j = l THEN c[j] + 1 ELSE c[j])
               /\ IsList(C2[j], IF j = l THEN c[j] + 1 ELSE c[j])
    BY <1>6, <1>7
  <2>3. RowsGrow(m, l, c, A, A2)
    BY <1>1, <1>3, <1>5, <1>6, <2>1, <2>2 DEF RowsGrow
  <2>4. RowsGrow(m, l, c, B, B2)
    BY <1>1, <1>3, <1>5, <1>6, <2>1, <2>2 DEF RowsGrow
  <2>5. RowsGrow(m, l, c, C, C2)
    BY <1>1, <1>3, <1>5, <1>6, <2>1, <2>2 DEF RowsGrow
  <2>6. QED
    BY <2>3, <2>4, <2>5
<1>9. IsList(Flat(A), n) /\ IsList(Flat(B), n) /\ IsList(Flat(C), n)
  BY <1>1 DEF Matches
<1>10. /\ IsList(Flat(A2), n + 1) /\ (\A k \in 1 .. n : Flat(A2)[k] = Flat(A)[k])
       /\ Flat(A2)[n + 1] = A2[l][k1]
  BY <1>8, <1>9, FlatRows
<1>11. /\ IsList(Flat(B2), n + 1) /\ (\A k \in 1 .. n : Flat(B2)[k] = Flat(B)[k])
       /\ Flat(B2)[n + 1] = B2[l][k1]
  BY <1>8, <1>9, FlatRows
<1>12. /\ IsList(Flat(C2), n + 1) /\ (\A k \in 1 .. n : Flat(C2)[k] = Flat(C)[k])
       /\ Flat(C2)[n + 1] = C2[l][k1]
  BY <1>8, <1>9, FlatRows
<1>13. /\ A2[l][k1].rate = rates[l] /\ A2[l][k1].time = time
       /\ B2[l][k1] = [rate |-> rates[l], time |-> time]
       /\ C2[l][k1] = [rate |-> A2[l][k1].rate, opers |-> A2[l][k1].opers]
  <2>1. k1 \in 1 .. d.captures[l]
    BY <1>1, <1>7
  <2>2. /\ A2[l][k1] = ReportedEntry(d, rated, l, k1)
        /\ B2[l][k1] = SystemEntry(d, rated, l, k1)
        /\ C2[l][k1] = OperEntry(d, rated, l, k1)
    BY <1>1, <1>6, <2>1
  <2>3. d.system[l][k1] = [time |-> time, recs |-> rc]
    BY <1>2 DEF c
  <2> HIDE DEF k1
  <2>4. d.system[l][k1].time = time
    BY <2>3
  <2>5. QED
    BY <2>2, <2>4 DEF ReportedEntry, SystemEntry, OperEntry
<1>14. Matches(rates, fd2, n + 1, Flat(A2), Flat(B2), Flat(C2))
  <2> DEFINE a == Flat(A)
             b == Flat(B)
             e == Flat(C)
             a2 == Flat(A2)
             b2 == Flat(B2)
             c2 == Flat(C2)
  <2>1. Matches(rates, fd, n, a, b, e)
    BY <1>1
  <2>2. fd2 = Append(fd, [line |-> l, time |-> time])
    BY DEF fd2
  <2>3. IsList(a2, n + 1) /\ IsList(b2, n + 1) /\ IsList(c2, n + 1)
    BY <1>10, <1>11, <1>12
  <2>4. \A k \in 1 .. n : a2[k] = a[k] /\ b2[k] = b[k] /\ c2[k] = e[k]
    BY <1>10, <1>11, <1>12
  <2>5. /\ a2[n + 1].rate = rates[l] /\ a2[n + 1].time = time
        /\ b2[n + 1] = [rate |-> rates[l], time |-> time]
        /\ c2[n + 1] = [rate |-> a2[n + 1].rate, opers |-> a2[n + 1].opers]
    BY <1>10, <1>11, <1>12, <1>13
  <2> HIDE DEF a, b, e, a2, b2, c2
  <2>6. Matches(rates, fd2, n + 1, a2, b2, c2)
    <3>1. AddedAll(rates, n, a, b, e, a2, b2, c2, l, time)
      BY <2>3, <2>4, <2>5 DEF AddedAll
    <3>2. QED
      BY ONLY <2>1, <2>2, <3>1, MatchesNext
  <2>7. QED
    BY <2>6 DEF a2, b2, c2
<1>15. \A j \in 1 .. m : j > l => d.captures[j] = 0
  <2>1. ASSUME NEW j \in 1 .. m, j > l
        PROVE  d.captures[j] = 0
    <3>1. j # l
      BY <1>1, <2>1
    <3>2. QED
      BY <1>1, <1>7, <2>1, <3>1
  <2>2. QED
    BY <2>1
<1>16. FiledInv(rates, rated, m, l, d, fd2, n + 1)
  BY <1>1, <1>2, <1>14, <1>15 DEF FiledInv, A2, B2, C2
<1>17. QED
  BY <1>16 DEF d, fd2

LEMMA FiledNextLine ==
  ASSUME NEW rates, NEW rated, NEW m, NEW l, NEW lg, NEW fd, NEW n,
         FiledInv(rates, rated, m, l, lg, fd, n), l + 1 \in 1 .. m
  PROVE  FiledInv(rates, rated, m, l + 1, ByReq!NextWorkload(lg), fd, n)
<1> DEFINE d == ByReq!NextWorkload(lg)
<1>1. /\ m \in Nat /\ l \in 1 .. m /\ DOMAIN rated = 1 .. m
      /\ LogOK(lg, m) /\ lg.index + 1 = l
      /\ \A j \in 1 .. m : j > l => lg.captures[j] = 0
      /\ Matches(rates, fd, n, Flat(ReportedRows(lg, rated)), Flat(SystemRows(lg, rated)),
                 Flat(OperRows(lg, rated)))
  BY DEF FiledInv
<1>2. d = [index |-> lg.index + 1, system |-> lg.system, oper |-> lg.oper, captures |-> lg.captures]
  <2>1. lg = [index |-> lg.index, system |-> lg.system, oper |-> lg.oper, captures |-> lg.captures]
    BY <1>1 DEF LogOK
  <2>2. d = [lg EXCEPT !.index = lg.index + 1]
    BY DEF ByReq!NextWorkload
  <2>3. QED
    BY <2>1, <2>2
<1> HIDE DEF d
<1>3. /\ d.index = l /\ d.system = lg.system /\ d.oper = lg.oper /\ d.captures = lg.captures
      /\ d = [index |-> d.index, system |-> d.system, oper |-> d.oper, captures |-> d.captures]
  BY <1>1, <1>2
<1>4. LogOK(d, m)
  BY <1>1, <1>3 DEF LogOK
<1>5. /\ ReportedRows(d, rated) = ReportedRows(lg, rated)
      /\ SystemRows(d, rated) = SystemRows(lg, rated)
      /\ OperRows(d, rated) = OperRows(lg, rated)
  BY <1>3 DEF ReportedRows, SystemRows, OperRows, ReportedEntry, SystemEntry, OperEntry
<1>6. \A j \in 1 .. m : j > l + 1 => d.captures[j] = 0
  BY <1>1, <1>3
<1>7. d.index + 1 = l + 1
  BY <1>3
<1>8. FiledInv(rates, rated, m, l + 1, d, fd, n)
  BY <1>1, <1>4, <1>5, <1>6, <1>7 DEF FiledInv
<1>9. QED
  BY <1>8 DEF d

EmptyLog(rated) ==
  [ index    |-> 0,
    system   |-> [j \in DOMAIN rated |-> <<>>],
    oper     |-> [o \in Operator |-> [j \in DOMAIN rated |-> <<>>]],
    captures |-> [j \in DOMAIN rated |-> 0] ]

LEMMA FiledInit ==
  ASSUME NEW rates, NEW rated, NEW m \in Nat \ {0}, DOMAIN rated = 1 .. m
  PROVE  FiledInv(rates, rated, m, 1, EmptyLog(rated), <<>>, 0)
<1> DEFINE lg == EmptyLog(rated)
           A == ReportedRows(lg, rated)
           B == SystemRows(lg, rated)
           C == OperRows(lg, rated)
<1>1. /\ lg = [index |-> lg.index, system |-> lg.system, oper |-> lg.oper, captures |-> lg.captures]
      /\ lg.index = 0 /\ lg.system = [j \in 1 .. m |-> <<>>]
      /\ lg.oper = [o \in Operator |-> [j \in 1 .. m |-> <<>>]]
      /\ lg.captures = [j \in 1 .. m |-> 0]
  BY DEF EmptyLog
<1> HIDE DEF lg
<1>2. IsList(<<>>, 0)
  <2>1. <<>> \in Seq({}) /\ Len(<<>>) = 0
    BY EmptySeq
  <2>2. QED
    BY <2>1, ListOf
<1>3. LogOK(lg, m)
  BY <1>1, <1>2 DEF LogOK
<1>4. RowsOf(lg, rated, m)
  BY <1>3, Rows
<1>5. /\ A = [j \in 1 .. m |-> A[j]] /\ B = [j \in 1 .. m |-> B[j]] /\ C = [j \in 1 .. m |-> C[j]]
      /\ \A j \in 1 .. m : IsList(A[j], 0) /\ IsList(B[j], 0) /\ IsList(C[j], 0)
  BY <1>1, <1>4 DEF RowsOf
<1> HIDE DEF A, B, C
<1>6. ASSUME NEW q, IsList(q, 0)
      PROVE  q = <<>>
  <2>1. \A k \in 1 .. 0 : q[k] = <<>>[k]
    OBVIOUS
  <2>2. QED
    BY <1>2, <1>6, <2>1, ListSame
<1>7. /\ A = [j \in 1 .. m |-> <<>>] /\ B = [j \in 1 .. m |-> <<>>] /\ C = [j \in 1 .. m |-> <<>>]
  <2>1. \A j \in 1 .. m : A[j] = <<>> /\ B[j] = <<>> /\ C[j] = <<>>
    BY <1>5, <1>6
  <2>2. QED
    BY <1>5, <2>1
<1>8. Flat(A) = <<>> /\ Flat(B) = <<>> /\ Flat(C) = <<>>
  BY <1>7, FlatEmpty
<1>9. Matches(rates, <<>>, 0, Flat(A), Flat(B), Flat(C))
  <2>1. \A k \in 1 .. 0 : FALSE
    OBVIOUS
  <2>2. QED
    BY <1>2, <1>8, <2>1 DEF Matches
<1>10. FiledInv(rates, rated, m, 1, lg, <<>>, 0)
  BY <1>1, <1>3, <1>9 DEF FiledInv, A, B, C
<1>11. QED
  BY <1>10 DEF lg

(* A line that is reached, with those before it, has a rate.                  *)
LEMMA CurrentLine ==
  ASSUME NEW rates \in Seq(Nat), NEW l \in 1 .. Len(rates), \A k \in 1 .. l : rates[k] # 0,
         NEW rated, rated = RatedOf(rates)
  PROVE  /\ Len(rated) \in Nat \ {0} /\ DOMAIN rated = 1 .. Len(rated)
         /\ l \in 1 .. Len(rated) /\ rated[l] = rates[l]
<1>1. l \in 0 .. Len(rates) /\ l \in 1 .. l /\ l >= 1
  OBVIOUS
<1>2. rated \in Seq(Nat) /\ Len(rated) >= l /\ \A k \in 1 .. l : rated[k] = rates[k]
  BY <1>1, RatedIs
<1>3. Len(rated) \in Nat /\ DOMAIN rated = 1 .. Len(rated)
  BY <1>2, LenProperties
<1>4. QED
  BY <1>1, <1>2, <1>3

LEMMA FiledStep ==
  ASSUME NEW rates \in Seq(Nat), NEW l, NEW l2 \in 1 .. Len(rates), l2 = l \/ l2 = l + 1,
         \A k \in 1 .. l2 : rates[k] # 0,
         NEW rated, rated = RatedOf(rates), NEW lg, NEW fd, NEW n,
         FiledInv(rates, rated, Len(rated), l, lg, fd, n),
         NEW next, next = IF l2 # l THEN ByReq!NextWorkload(lg) ELSE lg
  PROVE  /\ n \in Nat
         /\ FiledInv(rates, rated, Len(rated), l2, next, fd, n)
         /\ \A time, rc, accs :
              FiledInv(rates, rated, Len(rated), l2, ByReq!CaptureMetrics(next, time, rc, accs),
                       Append(fd, [line |-> l2, time |-> time]), n + 1)
<1> DEFINE m == Len(rated)
<1>1. m \in Nat \ {0} /\ l2 \in 1 .. m /\ rated[l2] = rates[l2]
  BY CurrentLine
<1> HIDE DEF m
<1>2. FiledInv(rates, rated, m, l2, next, fd, n)
  <2>1. CASE l2 = l
    <3>1. next = lg
      BY <2>1
    <3>2. QED
      BY <2>1, <3>1 DEF m
  <2>2. CASE l2 # l
    <3>1. next = ByReq!NextWorkload(lg) /\ l2 = l + 1 /\ l + 1 \in 1 .. m
      BY <1>1, <2>2
    <3>2. FiledInv(rates, rated, m, l, lg, fd, n)
      BY DEF m
    <3>3. QED
      BY <3>1, <3>2, FiledNextLine
  <2>3. QED
    BY <2>1, <2>2
<1>3. n \in Nat
  BY <1>2 DEF FiledInv, Matches, IsList
<1>4. ASSUME NEW time, NEW rc, NEW accs
      PROVE  FiledInv(rates, rated, m, l2, ByReq!CaptureMetrics(next, time, rc, accs),
                      Append(fd, [line |-> l2, time |-> time]), n + 1)
  BY <1>1, <1>2, FiledCapture
<1>5. QED
  BY <1>2, <1>3, <1>4 DEF m

LEMMA FiledMatches ==
  ASSUME NEW rates, NEW rated, NEW m, NEW l, NEW lg, NEW fd, NEW n,
         FiledInv(rates, rated, m, l, lg, fd, n),
         NEW a, a = Flat(ReportedRows(lg, rated)),
         NEW b, b = Flat(SystemRows(lg, rated)),
         NEW c, c = Flat(OperRows(lg, rated))
  PROVE  LET expected == [k \in DOMAIN fd |-> [rate |-> rates[fd[k].line], time |-> fd[k].time]]
         IN  /\ [k \in DOMAIN a |-> [rate |-> a[k].rate, time |-> a[k].time]] = expected
             /\ b = expected
             /\ c = [k \in DOMAIN a |-> [rate |-> a[k].rate, opers |-> a[k].opers]]
<1>1. Matches(rates, fd, n, a, b, c)
  BY DEF FiledInv
<1>2. DOMAIN fd = 1 .. n /\ DOMAIN a = 1 .. n
  BY <1>1 DEF Matches, IsList
<1>3. b = [k \in 1 .. n |-> b[k]] /\ c = [k \in 1 .. n |-> c[k]]
  BY <1>1 DEF Matches, IsList
<1>4. \A k \in 1 .. n :
        /\ a[k].rate = rates[fd[k].line] /\ a[k].time = fd[k].time
        /\ b[k] = [rate |-> rates[fd[k].line], time |-> fd[k].time]
        /\ c[k] = [rate |-> a[k].rate, opers |-> a[k].opers]
  BY <1>1 DEF Matches
<1>5. [k \in 1 .. n |-> [rate |-> a[k].rate, time |-> a[k].time]]
        = [k \in 1 .. n |-> [rate |-> rates[fd[k].line], time |-> fd[k].time]]
  BY <1>4
<1>6. b = [k \in 1 .. n |-> [rate |-> rates[fd[k].line], time |-> fd[k].time]]
  BY <1>3, <1>4
<1>7. c = [k \in 1 .. n |-> [rate |-> a[k].rate, opers |-> a[k].opers]]
  BY <1>3, <1>4
<1>8. QED
  BY <1>2, <1>5, <1>6, <1>7

(* Both producers have the same logger.                                       *)
LEMMA LoggerOfRequests ==
  /\ ByReq!Rated = RatedOf(RatesOf(Requests))
  /\ ByReq!NewLogger = EmptyLog(RatedOf(RatesOf(Requests)))
<1>1. ByReq!Rated = RatedOf(RatesOf(Requests))
  BY DEF ByReq!Rated, RatedOf
<1>2. QED
  BY <1>1 DEF ByReq!NewLogger, EmptyLog

LEMMA LoggerOfTimes ==
  /\ ByTime!Rated = RatedOf(RatesOf(Times))
  /\ ByTime!NewLogger = EmptyLog(RatedOf(RatesOf(Times)))
  /\ \A lg : ByTime!NextWorkload(lg) = ByReq!NextWorkload(lg)
  /\ \A lg, time, rc, accs :
       ByTime!CaptureMetrics(lg, time, rc, accs) = ByReq!CaptureMetrics(lg, time, rc, accs)
<1>1. ByTime!Rated = RatedOf(RatesOf(Times))
  BY DEF ByTime!Rated, RatedOf
<1>2. ByTime!NewLogger = EmptyLog(RatedOf(RatesOf(Times)))
  BY <1>1 DEF ByTime!NewLogger, EmptyLog
<1>3. \A lg : ByTime!NextWorkload(lg) = ByReq!NextWorkload(lg)
  BY DEF ByTime!NextWorkload, ByReq!NextWorkload
<1>4. \A lg, time, rc, accs :
        ByTime!CaptureMetrics(lg, time, rc, accs) = ByReq!CaptureMetrics(lg, time, rc, accs)
  BY DEF ByTime!CaptureMetrics, ByReq!CaptureMetrics
<1>5. QED
  BY <1>1, <1>2, <1>3, <1>4

LEMMA RatesOfLines ==
  ASSUME NEW workload, workload \in Seq([first : Nat, rate : Nat])
  PROVE  /\ RatesOf(workload) \in Seq(Nat) /\ Len(RatesOf(workload)) = Len(workload)
         /\ \A l \in 1 .. Len(workload) : RatesOf(workload)[l] = workload[l].rate
<1> DEFINE Line == [first : Nat, rate : Nat]
           n == Len(workload)
           q == RatesOf(workload)
<1>1. n \in Nat /\ DOMAIN workload = 1 .. n /\ \A l \in 1 .. n : workload[l] \in Line
  <2> HIDE DEF Line
  <2>1. workload \in Seq(Line)
    BY DEF Line
  <2>2. QED
    BY <2>1, LenProperties
<1>2. q = [l \in 1 .. n |-> workload[l].rate]
  BY <1>1 DEF RatesOf
<1>3. \A l \in 1 .. n : workload[l].rate \in Nat
  BY <1>1
<1> HIDE DEF q, n
<1>4. IsList(q, n) /\ \A l \in 1 .. n : q[l] = workload[l].rate /\ q[l] \in Nat
  BY <1>1, <1>2, <1>3 DEF IsList
<1>5. q \in Seq(Nat) /\ Len(q) = n
  BY <1>4, ListIs
<1>6. QED
  BY <1>4, <1>5 DEF q, n

(* The captures so far are in the lists of the logger.                        *)
LoggedInv(workload) ==
  /\ \E n : FiledInv(RatesOf(workload), RatedOf(RatesOf(workload)), Len(RatedOf(RatesOf(workload))),
                     p.line, log, filed, n)
  /\ \A l \in 1 .. p.line : workload[l].rate # 0

LEMMA LoggedInit ==
  ASSUME NEW workload \in Seq([first : Nat, rate : Nat]), workload # <<>>, workload[1].rate # 0,
         p.line = 1, log = EmptyLog(RatedOf(RatesOf(workload))), filed = <<>>
  PROVE  LoggedInv(workload)
<1> DEFINE rates == RatesOf(workload)
           rated == RatedOf(rates)
<1>1. Len(workload) \in Nat /\ 1 \in 1 .. Len(workload)
  <2> DEFINE Line == [first : Nat, rate : Nat]
  <2> HIDE DEF Line
  <2>1. workload \in Seq(Line)
    BY DEF Line
  <2>2. Len(workload) \in Nat /\ (Len(workload) = 0 => workload = <<>>)
    BY <2>1, EmptySeq
  <2>3. QED
    BY <2>2
<1>2. rates \in Seq(Nat) /\ Len(rates) = Len(workload) /\ rates[1] = workload[1].rate
  BY <1>1, RatesOfLines
<1>3. \A k \in 1 .. 1 : k = 1
  OBVIOUS
<1> HIDE DEF rates, rated
<1>4. Len(rated) \in Nat \ {0} /\ DOMAIN rated = 1 .. Len(rated)
  BY <1>1, <1>2, <1>3, CurrentLine DEF rated
<1>5. FiledInv(rates, rated, Len(rated), 1, EmptyLog(rated), <<>>, 0)
  BY <1>4, FiledInit
<1>6. FiledInv(rates, rated, Len(rated), p.line, log, filed, 0)
  BY <1>5 DEF rated, rates
<1>7. QED
  BY <1>3, <1>6 DEF LoggedInv, rates, rated

(* With the next line, or the same, and a capture, or none.                   *)
LEMMA LoggedStep ==
  ASSUME NEW workload \in Seq([first : Nat, rate : Nat]), LoggedInv(workload),
         NEW l \in 1 .. Len(workload), l = p.line \/ l = p.line + 1, workload[l].rate # 0,
         NEW next, next = IF l # p.line THEN ByReq!NextWorkload(log) ELSE log,
         p'.line = l, p.line \in Nat,
         NEW time, NEW rc, NEW accs,
         \/ log' = next /\ filed' = filed
         \/ /\ log' = ByReq!CaptureMetrics(next, time, rc, accs)
            /\ filed' = Append(filed, [line |-> l, time |-> time])
  PROVE  LoggedInv(workload)'
<1> DEFINE rates == RatesOf(workload)
           rated == RatedOf(rates)
           k0 == p.line
           m == Len(rated)
<1>1. rates \in Seq(Nat) /\ Len(rates) = Len(workload)
      /\ \A k \in 1 .. Len(workload) : rates[k] = workload[k].rate
  BY RatesOfLines
<1>2. PICK n : FiledInv(rates, rated, m, k0, log, filed, n)
  BY DEF LoggedInv
<1>3. \A k \in 1 .. l : workload[k].rate # 0
  <2>1. \A k \in 1 .. k0 : workload[k].rate # 0
    BY DEF LoggedInv
  <2>2. ASSUME NEW k \in 1 .. l
        PROVE  k = l \/ k \in 1 .. k0
    BY <2>2
  <2>3. QED
    BY <2>1, <2>2
<1>4. \A k \in 1 .. l : rates[k] # 0
  <2> HIDE DEF rates
  <2>1. Len(rates) \in Nat
    BY <1>1
  <2>2. \A k \in 1 .. l : k \in 1 .. Len(workload)
    BY <1>1, <2>1
  <2>3. QED
    BY <1>1, <1>3, <2>2
<1>5. l \in 1 .. Len(rates) /\ (l = k0 \/ l = k0 + 1)
  BY <1>1
<1>6. next = IF l # k0 THEN ByReq!NextWorkload(log) ELSE log
  OBVIOUS
<1> HIDE DEF rates, k0
<1>7. /\ FiledInv(rates, rated, m, l, next, filed, n)
      /\ FiledInv(rates, rated, m, l, ByReq!CaptureMetrics(next, time, rc, accs),
                  Append(filed, [line |-> l, time |-> time]), n + 1)
  BY <1>1, <1>2, <1>4, <1>5, <1>6, FiledStep
<1> HIDE DEF rated, m
<1>8. \E n2 : FiledInv(rates, rated, m, p'.line, log', filed', n2)
  <2>1. CASE log' = next /\ filed' = filed
    BY <1>7, <2>1
  <2>2. CASE /\ log' = ByReq!CaptureMetrics(next, time, rc, accs)
             /\ filed' = Append(filed, [line |-> l, time |-> time])
    BY <1>7, <2>2
  <2>3. QED
    BY <2>1, <2>2
<1>9. QED
  BY <1>3, <1>8 DEF LoggedInv, rates, rated, m

LinesInv ==
  IF part = "by_time" THEN LoggedInv(Times) ELSE LoggedInv(Requests)

LEMMA LinesOfRequests ==
  /\ Requests \in Seq([first : Nat, rate : Nat]) /\ Requests # <<>> /\ Len(Requests) \in Nat
  /\ \A l \in 1 .. Len(Requests) : Requests[l].rate # 0
<1> DEFINE Line == [first : Nat, rate : Nat]
<1>1. Requests \in Seq(Line) /\ Requests # <<>>
  BY StartupAssumption DEF ByReq!ProducerAssumption
<1>2. Len(Requests) \in Nat /\ \A l \in 1 .. Len(Requests) : l \in DOMAIN Requests /\ Requests[l] \in Line
  <2> HIDE DEF Line
  <2>1. QED
    BY <1>1, LenProperties
<1>3. ASSUME NEW l \in 1 .. Len(Requests)
      PROVE  Requests[l].rate # 0
  <2>1. Requests[l].rate \in Nat /\ Requests[l].rate > 0
    BY <1>2, StartupAssumption
  <2>2. QED
    BY <2>1
<1>4. QED
  BY <1>1, <1>2, <1>3

LEMMA LinesInit == StartupInit => LinesInv
<1> SUFFICES ASSUME StartupInit
             PROVE  LinesInv
  OBVIOUS
<1>1. CASE part = "by_time"
  <2>1. p.line = 1 /\ log = ByTime!NewLogger /\ filed = <<>>
    BY <1>1 DEF StartupInit, ByTime!Init, ByTime!NewProducer
  <2>2. /\ Times \in Seq([first : Nat, rate : Nat]) /\ Times # <<>> /\ Times[1].rate # 0
    BY StartupAssumption DEF ByTime!ProducerAssumption
  <2>3. LoggedInv(Times)
    BY <2>1, <2>2, LoggerOfTimes, LoggedInit
  <2>4. QED
    BY <1>1, <2>3 DEF LinesInv
<1>2. CASE part # "by_time"
  <2>1. p.line = 1 /\ log = ByReq!NewLogger /\ filed = <<>>
    BY <1>2 DEF StartupInit, ByReq!Init, ByReq!NewProducer
  <2>2. Requests[1].rate # 0
    <3>1. Len(Requests) # 0
      BY LinesOfRequests, EmptySeq
    <3>2. QED
      BY <3>1, LinesOfRequests
  <2>3. LoggedInv(Requests)
    BY <2>1, <2>2, LinesOfRequests, LoggerOfRequests, LoggedInit
  <2>4. QED
    BY <1>2, <2>3 DEF LinesInv
<1>3. QED
  BY <1>1, <1>2

LEMMA LoggedSame ==
  ASSUME NEW workload, LoggedInv(workload), p' = p, log' = log, filed' = filed
  PROVE  LoggedInv(workload)'
BY DEF LoggedInv

(* The line of the producer's transition.                                     *)
LEMMA MadeByRequests ==
  ASSUME p \in ProducerRecord(1 .. Len(Requests)), NEW min \in Nat, NEW lapse \in Nat,
         NEW made, made = ByReq!Produced(p, min, lapse), p' = ByReq!Captured(made),
         RequestsInv'
  PROVE  /\ p.line \in Nat /\ made.line \in 1 .. Len(Requests) /\ p'.line = made.line
         /\ made.line = p.line \/ made.line = p.line + 1
<1>1. p.line \in Nat
  BY LinesOfRequests DEF ProducerRecord
<1>2. made.line = p.line \/ made.line = p.line + 1
  <2>1. /\ ByReq!Passivate(p).line = p.line
        /\ ByReq!KeepCapturing(p, min).line = p.line
        /\ ByReq!Generate(p, lapse).line = p.line
        /\ ByReq!Generate(ByReq!NextLine(p), lapse).line = p.line + 1
    BY DEF ProducerRecord, ByReq!Passivate, ByReq!KeepCapturing, ByReq!Generate, ByReq!NextLine
  <2>2. QED
    BY <2>1 DEF ByReq!Produced
<1>3. p'.line = made.line
  <2>1. p' = made \/ p' = [made EXCEPT !.capture_time = @ + StepTime]
    BY DEF ByReq!Captured
  <2>2. [made EXCEPT !.capture_time = @ + StepTime].line = made.line
    OBVIOUS
  <2>3. QED
    BY <2>1, <2>2
<1>4. p'.line \in 1 .. Len(Requests)
  BY DEF RequestsInv, ProducerRecord
<1>5. QED
  BY <1>1, <1>2, <1>3, <1>4

LEMMA FiledByRequests ==
  ASSUME RequestsInv, RequestsInv', LoggedInv(Requests),
         ByReq!Next \/ UNCHANGED workloadVars
  PROVE  LoggedInv(Requests)'
<1>1. p \in ProducerRecord(1 .. Len(Requests)) /\ p.line \in 1 .. Len(Requests) /\ p.line \in Nat
  BY SMTT(40), LinesOfRequests DEF RequestsInv, ProducerRecord
<1>2. ASSUME NEW min \in Advances \cup {Infinity}, NEW lapse \in Lapses, ByReq!Produce(min, lapse)
      PROVE  LoggedInv(Requests)'
  <2> DEFINE made == ByReq!Produced(p, min, lapse)
             next == IF made.line # p.line THEN ByReq!NextWorkload(log) ELSE log
             rc == recs["source"]
  <2>1. min \in Nat /\ lapse \in Nat
    BY StartupAssumption
  <2>2. /\ p' = ByReq!Captured(made)
        /\ log' = IF ByReq!Captures(made)
                  THEN ByReq!CaptureMetrics(next, made.now, rc, recs) ELSE next
        /\ filed' = IF ByReq!Captures(made)
                    THEN Append(filed, [line |-> made.line, time |-> made.now]) ELSE filed
    BY <1>2 DEF ByReq!Produce, ByReq!ProducerInternal
  <2> HIDE DEF made
  <2>3. /\ made.line \in 1 .. Len(Requests) /\ p'.line = made.line
        /\ made.line = p.line \/ made.line = p.line + 1
    BY <1>1, <2>1, <2>2, MadeByRequests DEF made
  <2> DEFINE l == made.line
             time == made.now
  <2>4. next = IF l # p.line THEN ByReq!NextWorkload(log) ELSE log
    OBVIOUS
  <2>5. \/ log' = next /\ filed' = filed
        \/ /\ log' = ByReq!CaptureMetrics(next, time, rc, recs)
           /\ filed' = Append(filed, [line |-> l, time |-> time])
    BY <2>2
  <2>6. Requests[l].rate # 0
    BY <2>3, LinesOfRequests
  <2>7. l \in 1 .. Len(Requests) /\ p'.line = l /\ (l = p.line \/ l = p.line + 1)
    BY <2>3
  <2> HIDE DEF l, time, next, rc
  <2>8. QED
    BY <1>1, <2>4, <2>5, <2>6, <2>7, LinesOfRequests, LoggedStep
<1>3. ASSUME NEW time, ByReq!Finish(time)
      PROVE  LoggedInv(Requests)'
  <2> DEFINE l == p.line
             rc == p.last_reqs
  <2>1. /\ log' = ByReq!CaptureMetrics(log, time, rc, recs) /\ p' = p
        /\ filed' = Append(filed, [line |-> l, time |-> time])
    BY <1>3 DEF ByReq!Finish
  <2>2. l \in 1 .. Len(Requests) /\ l = p.line /\ p'.line = l /\ Requests[l].rate # 0
    BY <1>1, <2>1, LinesOfRequests
  <2>3. log = IF l # p.line THEN ByReq!NextWorkload(log) ELSE log
    BY <2>2
  <2> HIDE DEF l, rc
  <2>4. QED
    BY <1>1, <2>1, <2>2, <2>3, LinesOfRequests, LoggedStep
<1>4. ASSUME NEW o \in Operator, ByReq!Execute(o)
      PROVE  LoggedInv(Requests)'
  BY <1>4, LoggedSame DEF ByReq!Execute
<1>5. CASE UNCHANGED workloadVars
  BY <1>5, LoggedSame DEF workloadVars
<1>6. QED
  BY <1>2, <1>3, <1>4, <1>5 DEF ByReq!Next

LEMMA MadeByTimes ==
  ASSUME p \in ProducerRecord(1 .. Len(Times) - 1), NEW min \in Nat, NEW lapse \in Nat,
         NEW made, made = ByTime!Produced(p, min, lapse), p' = ByTime!Captured(made),
         Times[p.line].rate # 0, TimesInv'
  PROVE  /\ p.line \in Nat /\ made.line \in 1 .. Len(Times) /\ p'.line = made.line
         /\ made.line = p.line \/ made.line = p.line + 1
         /\ Times[made.line].rate # 0
<1>1. p.line \in Nat
  BY TimesLines DEF ProducerRecord
<1>2. \/ made.line = p.line
      \/ made.line = p.line + 1 /\ ~ByTime!FinalLine(p)
  <2>1. /\ ByTime!Passivate(p).line = p.line
        /\ ByTime!KeepCapturing(p, min).line = p.line
        /\ ByTime!Generate(p, lapse).line = p.line
        /\ ByTime!Generate(ByTime!NextLine(p), lapse).line = p.line + 1
    BY DEF ProducerRecord, ByTime!Passivate, ByTime!KeepCapturing, ByTime!Generate, ByTime!NextLine
  <2>2. QED
    BY <2>1 DEF ByTime!Produced
<1>3. p'.line = made.line
  <2>1. p' = made \/ p' = [made EXCEPT !.capture_time = @ + StepTime]
    BY DEF ByTime!Captured
  <2>2. [made EXCEPT !.capture_time = @ + StepTime].line = made.line
    OBVIOUS
  <2>3. QED
    BY <2>1, <2>2
<1>4. p'.line \in 1 .. Len(Times)
  <2>1. p'.line \in 1 .. Len(Times) - 1
    BY DEF TimesInv, ProducerRecord
  <2>2. QED
    BY <2>1, TimesLines
<1>5. Times[made.line].rate # 0
  BY <1>2 DEF ByTime!FinalLine
<1>6. QED
  BY <1>1, <1>2, <1>3, <1>4, <1>5

LEMMA FiledByTimes ==
  ASSUME TimesInv, TimesInv', LoggedInv(Times), ByTime!Next \/ UNCHANGED workloadVars
  PROVE  LoggedInv(Times)'
<1>1. /\ p \in ProducerRecord(1 .. Len(Times) - 1) /\ p.line \in 1 .. Len(Times) /\ p.line \in Nat
      /\ Times[p.line].rate # 0 /\ Times \in Seq([first : Nat, rate : Nat])
  <2>1. p \in ProducerRecord(1 .. Len(Times) - 1)
    BY DEF TimesInv
  <2>2. p.line \in 1 .. Len(Times) - 1
    BY <2>1 DEF ProducerRecord
  <2>3. p.line \in 1 .. Len(Times) /\ p.line \in Nat /\ p.line \in 1 .. p.line
    BY <2>2, TimesLines
  <2>4. Times[p.line].rate # 0
    BY <2>3 DEF LoggedInv
  <2>5. Times \in Seq([first : Nat, rate : Nat])
    BY StartupAssumption DEF ByTime!ProducerAssumption
  <2>6. QED
    BY <2>1, <2>3, <2>4, <2>5
<1>2. ASSUME NEW min \in Advances \cup {Infinity}, NEW lapse \in Lapses, ByTime!Produce(min, lapse)
      PROVE  LoggedInv(Times)'
  <2> DEFINE made == ByTime!Produced(p, min, lapse)
             next == IF made.line # p.line THEN ByReq!NextWorkload(log) ELSE log
             rc == recs["source"]
  <2>1. min \in Nat /\ lapse \in Nat
    BY StartupAssumption
  <2>2. /\ p' = ByTime!Captured(made)
        /\ log' = IF ByTime!Captures(made)
                  THEN ByReq!CaptureMetrics(next, made.now, rc, recs) ELSE next
        /\ filed' = IF ByTime!Captures(made)
                    THEN Append(filed, [line |-> made.line, time |-> made.now]) ELSE filed
    BY <1>2, LoggerOfTimes DEF ByTime!Produce, ByTime!ProducerInternal
  <2> HIDE DEF made
  <2>3. /\ made.line \in 1 .. Len(Times) /\ p'.line = made.line
        /\ made.line = p.line \/ made.line = p.line + 1
        /\ Times[made.line].rate # 0
    BY <1>1, <2>1, <2>2, MadeByTimes DEF made
  <2> DEFINE l == made.line
             time == made.now
  <2>4. next = IF l # p.line THEN ByReq!NextWorkload(log) ELSE log
    OBVIOUS
  <2>5. \/ log' = next /\ filed' = filed
        \/ /\ log' = ByReq!CaptureMetrics(next, time, rc, recs)
           /\ filed' = Append(filed, [line |-> l, time |-> time])
    BY <2>2
  <2>6. /\ l \in 1 .. Len(Times) /\ p'.line = l /\ (l = p.line \/ l = p.line + 1)
        /\ Times[l].rate # 0
    BY <2>3
  <2> HIDE DEF l, time, next, rc
  <2>7. QED
    BY <1>1, <2>4, <2>5, <2>6, LoggedStep
<1>3. ASSUME NEW time, ByTime!Finish(time)
      PROVE  LoggedInv(Times)'
  <2> DEFINE l == p.line
             rc == p.last_reqs
  <2>1. /\ log' = ByReq!CaptureMetrics(log, time, rc, recs) /\ p' = p
        /\ filed' = Append(filed, [line |-> l, time |-> time])
    BY <1>3, LoggerOfTimes DEF ByTime!Finish
  <2>2. l \in 1 .. Len(Times) /\ l = p.line /\ p'.line = l /\ Times[l].rate # 0
    BY <1>1, <2>1
  <2>3. log = IF l # p.line THEN ByReq!NextWorkload(log) ELSE log
    BY <2>2
  <2> HIDE DEF l, rc
  <2>4. QED
    BY <1>1, <2>1, <2>2, <2>3, LoggedStep
<1>4. ASSUME NEW o \in Operator, ByTime!Execute(o)
      PROVE  LoggedInv(Times)'
  BY <1>4, LoggedSame DEF ByTime!Execute
<1>5. CASE UNCHANGED workloadVars
  BY <1>5, LoggedSame DEF workloadVars
<1>6. QED
  BY <1>2, <1>3, <1>4, <1>5 DEF ByTime!Next

LEMMA LinesInvMatches == LinesInv => FiledUnderLine
<1> SUFFICES ASSUME LinesInv
             PROVE  FiledUnderLine
  OBVIOUS
<1>1. CASE part = "by_time"
  <2> DEFINE rates == RatesOf(Times)
             rated == RatedOf(rates)
             a == Flat(ReportedRows(log, rated))
             b == Flat(SystemRows(log, rated))
             c == Flat(OperRows(log, rated))
  <2>1. /\ ByTime!Reported(log) = a /\ ByTime!Printed(log).system = b
        /\ ByTime!Printed(log).opers = c /\ ByTime!ReportedDynamic(log).throughput = b
    <3>1. \A ss : ByTime!FlattenSeq(ss) = Flat(ss)
      BY DEF Flat, ByTime!FlattenSeq, ByReq!FlattenSeq
    <3>2. QED
      BY <3>1, LoggerOfTimes
         DEF ByTime!Reported, ByTime!Printed, ByTime!ReportedDynamic, ReportedRows, SystemRows,
             OperRows, ReportedEntry, SystemEntry, OperEntry
  <2>2. PICK n : FiledInv(rates, rated, Len(rated), p.line, log, filed, n)
    BY <1>1 DEF LinesInv, LoggedInv
  <2> HIDE DEF rates, rated
  <2>3. LET expected == [k \in DOMAIN filed |-> [rate |-> rates[filed[k].line], time |-> filed[k].time]]
        IN  /\ [k \in DOMAIN a |-> [rate |-> a[k].rate, time |-> a[k].time]] = expected
            /\ b = expected
            /\ c = [k \in DOMAIN a |-> [rate |-> a[k].rate, opers |-> a[k].opers]]
    BY <2>2, FiledMatches
  <2> HIDE DEF a, b, c
  <2>4. ByTime!FiledUnderLine
    BY <2>1, <2>3 DEF ByTime!FiledUnderLine, rates
  <2>5. QED
    BY <1>1, <2>4 DEF FiledUnderLine
<1>2. CASE part # "by_time"
  <2> DEFINE rates == RatesOf(Requests)
             rated == RatedOf(rates)
             a == Flat(ReportedRows(log, rated))
             b == Flat(SystemRows(log, rated))
             c == Flat(OperRows(log, rated))
  <2>1. /\ ByReq!Reported(log) = a /\ ByReq!Printed(log).system = b
        /\ ByReq!Printed(log).opers = c /\ ByReq!ReportedDynamic(log).throughput = b
    BY LoggerOfRequests
       DEF ByReq!Reported, ByReq!Printed, ByReq!ReportedDynamic, Flat, ReportedRows, SystemRows,
           OperRows, ReportedEntry, SystemEntry, OperEntry
  <2>2. PICK n : FiledInv(rates, rated, Len(rated), p.line, log, filed, n)
    BY <1>2 DEF LinesInv, LoggedInv
  <2> HIDE DEF rates, rated
  <2>3. LET expected == [k \in DOMAIN filed |-> [rate |-> rates[filed[k].line], time |-> filed[k].time]]
        IN  /\ [k \in DOMAIN a |-> [rate |-> a[k].rate, time |-> a[k].time]] = expected
            /\ b = expected
            /\ c = [k \in DOMAIN a |-> [rate |-> a[k].rate, opers |-> a[k].opers]]
    BY <2>2, FiledMatches
  <2> HIDE DEF a, b, c
  <2>4. ByReq!FiledUnderLine
    BY <2>1, <2>3 DEF ByReq!FiledUnderLine, rates
  <2>5. QED
    BY <1>2, <2>4 DEF FiledUnderLine
<1>3. QED
  BY <1>1, <1>2

(* For any workload - by requests with a rate on every line, or by time -,    *)
(* whatever the lapses and the pace of the other models: each capture is      *)
(* logged and printed under the rate of the line that was in force, in the    *)
(* order they were made, so the index of the logger, which counts lines,      *)
(* never runs apart from its lists, which have none for a rate of zero.       *)
THEOREM FiledUnderLineAlways == StartupSpec => []FiledUnderLine
<1>1. StartupInit => LinesInv
  BY LinesInit
<1>2. ProducerInv /\ ProducerInv' /\ LinesInv
        /\ [StartupNext]_<<part, vars, configVars, workloadVars>> => LinesInv'
  <2> SUFFICES ASSUME ProducerInv, ProducerInv', LinesInv,
                      [StartupNext]_<<part, vars, configVars, workloadVars>>
               PROVE  LinesInv'
    OBVIOUS
  <2>1. part' = part
    BY DEF StartupNext
  <2>2. CASE part = "by_time"
    <3>1. TimesInv /\ TimesInv' /\ LoggedInv(Times)
      BY <2>1, <2>2 DEF ProducerInv, LinesInv
    <3>2. ByTime!Next \/ UNCHANGED workloadVars
      BY <2>2 DEF StartupNext
    <3>3. QED
      BY <2>1, <2>2, <3>1, <3>2, FiledByTimes DEF LinesInv
  <2>3. CASE part = "by_req"
    <3>1. RequestsInv /\ RequestsInv' /\ LoggedInv(Requests)
      BY <2>1, <2>3 DEF ProducerInv, LinesInv
    <3>2. ByReq!Next \/ UNCHANGED workloadVars
      BY <2>3 DEF StartupNext
    <3>3. QED
      BY <2>1, <2>3, <3>1, <3>2, FiledByRequests DEF LinesInv
  <2>4. CASE part \notin {"by_req", "by_time"}
    <3>1. UNCHANGED workloadVars /\ LoggedInv(Requests)
      BY <2>4 DEF StartupNext, LinesInv
    <3>2. LoggedInv(Requests)'
      BY <3>1, LoggedSame DEF workloadVars
    <3>3. QED
      BY <2>1, <2>4, <3>2 DEF LinesInv
  <2>5. QED
    BY <2>2, <2>3, <2>4
<1>3. LinesInv => FiledUnderLine
  BY LinesInvMatches
<1>4. QED
  BY <1>1, <1>2, <1>3, ProducerInvariant, PTL DEF StartupSpec
=============================================================================
