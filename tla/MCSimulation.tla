---------------------------- MODULE MCSimulation ----------------------------
(* Instances of Simulation: a job of two operators, each with one location   *)
(* on each of two nodes, deployed round robin.                               *)
EXTENDS Simulation

MCOper == {"source", "sink"}
MCDest == [o \in MCOper |-> IF o = "source" THEN <<"sink">> ELSE <<>>]
MCEnd == {"sink"}
MCLocations ==
  [o \in MCOper |-> {Location(n, IF o = "source" THEN 0 ELSE 1) : n \in NodeId}]

(* A job that branches and joins, with two locations for each operator but   *)
(* the last one.                                                              *)
BrOper == {"source", "left", "right", "sink"}
BrDest == [o \in BrOper |-> CASE o = "source" -> <<"left", "right">>
                             [] o = "sink" -> <<>>
                             [] OTHER -> <<"sink">>]
BrLocations ==
  [o \in BrOper |-> CASE o = "source" -> {Location(0, 0), Location(1, 0)}
                       [] o = "left"   -> {Location(0, 1), Location(1, 1)}
                       [] o = "right"  -> {Location(0, 2), Location(1, 2)}
                       [] o = "sink"   -> {Location(0, 3)}]

MCOne   == <<[first |-> 1, rate |-> 1]>>
MCTwo   == <<[first |-> 2, rate |-> 1]>>
MCThree == <<[first |-> 3, rate |-> 1]>>
=============================================================================
