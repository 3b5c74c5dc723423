------------------------------ MODULE MCStartup ------------------------------
(* Files with any lines of four names, a deployment on three nodes, and two   *)
(* short workloads.                                                           *)
EXTENDS Startup, TLC

CONSTANTS a, b, c, d

MCByReq  == <<[first |-> 1, rate |-> 5], [first |-> 2, rate |-> 7], [first |-> 1, rate |-> 6]>>
MCByTime == <<[first |-> 0, rate |-> 5], [first |-> 3, rate |-> 7], [first |-> 5, rate |-> 6],
              [first |-> 7, rate |-> 0]>>

(* The names of operators are interchangeable.                                *)
MCSymmetry == Permutations({a, b, c, d})
=============================================================================
