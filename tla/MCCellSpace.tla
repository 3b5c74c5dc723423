------------------------------ MODULE MCCellSpace ------------------------------
(* A cell that listens to two others, which listen to it.                     *)
EXTENDS CellSpace

CONSTANTS a, b, c

Star == [x \in Cell |-> IF x = a THEN {b, c} ELSE {a}]
=============================================================================
