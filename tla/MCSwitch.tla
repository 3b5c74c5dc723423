------------------------------ MODULE MCSwitch ------------------------------
(* Instances of SwitchEvents.  Two nodes get bags of one message or two; the  *)
(* switch of 256 nodes, which the counter of pending sends cannot count, gets *)
(* a message for each of them.                                                *)
EXTENDS SwitchEvents, SequencesExt

CONSTANTS m1, m2, m3, m4

MCNodes256 == 0 .. 255

Put(m, d) == [n \in Node |-> IF n = d THEN <<m>> ELSE <<>>]

MCBags ==
  IF Cardinality(Node) > 2 THEN {[n \in Node |-> <<m>>] : m \in Mssg}
  ELSE UNION {{Put(m, d)} \cup {[n \in Node |-> Put(m, d)[n] \o Put(k, c)[n]] : k \in Mssg \ {m}, c \in Node}
              : m \in Mssg, d \in Node}
=============================================================================
