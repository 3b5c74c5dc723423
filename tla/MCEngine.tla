------------------------------ MODULE MCEngine ------------------------------
(* A coupled model "c" of two atomic ones in a ring with a third one; the     *)
(* static engine runs it with two links to the port of "d".  The pool has two *)
(* threads for two coordinators below the topmost.                            *)
EXTENDS Engines

L(from, out, to, in) == [from |-> from, out |-> out, to |-> to, in |-> in]

MCChildren == [m \in {"top", "c"} |-> IF m = "top" THEN {"a", "c"} ELSE {"b", "d"}]
MCPorts == [m \in {"top", "c", "a", "b", "d"} |-> IF m = "top" THEN {} ELSE {"p"}]
MCInPorts == [MCPorts EXCEPT !["d"] = {"p", "q"}]

MCRingIC  == [m \in {"top", "c"} |-> IF m = "top"
                THEN <<L("a", "p", "c", "p"), L("c", "p", "a", "p")>>
                ELSE <<L("b", "p", "d", "p")>>]
MCRingEIC == [m \in {"top", "c"} |-> IF m = "top" THEN <<>>
                ELSE <<L("c", "p", "b", "p"), L("c", "p", "d", "q")>>]
MCRingEOC == [m \in {"top", "c"} |-> IF m = "top" THEN <<>> ELSE <<L("d", "p", "c", "p")>>]

MCJoinEIC == [MCRingEIC EXCEPT !["c"] = <<L("c", "p", "b", "p"), L("c", "p", "d", "p")>>]

MCBelow == [e \in 0 .. 6 |-> CASE e = 0 -> <<1, 2>> [] e = 1 -> <<3, 4>> [] e = 2 -> <<5, 6>>
                                [] OTHER -> <<>>]

(* The dynamic engine runs it with one link for each port. *)
ASSUME LinkAssumption == OneLinkPerPort
=============================================================================
