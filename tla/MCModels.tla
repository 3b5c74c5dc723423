------------------------------- MODULE MCModels -------------------------------
(* Two cells that listen to each other; lattices of one to three dimensions;  *)
(* two generators of values and two of resets; files of up to three lines;    *)
(* coupled models of up to two submodels.                                     *)
EXTENDS Models

CONSTANTS a, b

EachOther == [c \in Cell |-> Cell \ {c}]

VonNeumann(range, vicinity) == [type |-> "von_neumann", range |-> range, vicinity |-> vicinity]
Moore(range, vicinity)      == [type |-> "moore", range |-> range, vicinity |-> vicinity]
Relative(ns, vicinity)      == [type |-> "relative", neighbors |-> ns, vicinity |-> vicinity]

Shapes == {<<2>>, <<4>>, <<5>>, <<3, 2>>, <<3, 4>>, <<5, 4>>, <<2, 2, 3>>}
Lists  == {<<VonNeumann(1, 1)>>, <<Moore(1, 1)>>, <<VonNeumann(2, 1)>>, <<Moore(2, 1)>>,
           <<Moore(1, 1), VonNeumann(1, 2)>>,
           <<Relative({<<-1>>, <<0>>, <<1>>, <<3>>}, 1), Relative({<<1>>}, 2)>>}
MCScenarios == {x \in [shape : Shapes, list : Lists] :
                  Len(x.shape) = 3 => x.list \in {<<VonNeumann(1, 1)>>, <<Moore(1, 1)>>}}
MCSpecial == {[state |-> "other"], [neighborhood |-> <<VonNeumann(1, 3)>>]}

Lines == [time : {0, 1, 2, 5}, msg : {"x", "y"}]
MCFiles == UNION {[1 .. n -> Lines] : n \in 0 .. 3}

(* Two submodels may share an id, and couplings may name what is not there.   *)
Sub(id, out) == [id |-> id, in |-> {"p"}, out |-> out]
UpTo1(S) == {<<>>} \cup {<<x>> : x \in S}
MCSubmodels == UNION {[1 .. n -> {Sub(a, {"q"}), Sub(b, {"q", "r"}), Sub(a, {"r"})}] : n \in 0 .. 2}
MCEICs == UpTo1([from_port : {"x", "r"}, to : {a, b}, to_port : {"p", "q"}])
MCEOCs == UpTo1([from : {a, "c"}, from_port : {"q", "r"}, to_port : {"y"}])
MCICs  == LET ics == [from : {a, b}, from_port : {"q", "r"}, to : {a, b}, to_port : {"p"}]
          IN  UpTo1(ics) \cup (ics \X ics)
==============================================================================
