---------------------------- MODULE PdevsNetwork ----------------------------
(***************************************************************************)
(* A tree of PDEVS models and its couplings, as the engines of Cadmium     *)
(* (cadmium/include/cadmium/engine) are given it.  Messages are told apart *)
(* by the atomic model and the port that put them out, which is all that   *)
(* routing can confuse; a bag counts the copies of each.                   *)
(***************************************************************************)
EXTENDS Integers, FiniteSets, Sequences, SequencesExt

CONSTANTS
  Top,       \* the coupled model that the runner runs
  Children,  \* Children[c]: the submodels of coupled model c
  InPort,    \* InPort[m], OutPort[m]: the ports of each model
  OutPort,
  IC,        \* IC[c], EIC[c], EOC[c]: the couplings of c, in order
  EIC,
  EOC,
  TimeAdvances,  \* the time advances that an atomic model may have
  Limit,     \* the time that the simulation runs until
  Infinity   \* later than any time

Coupled == DOMAIN Children
Atomic  == (UNION {Children[c] : c \in Coupled}) \ Coupled
Model   == Coupled \cup Atomic
Port    == UNION {InPort[m] \cup OutPort[m] : m \in Model}

Parent(m) == CHOOSE c \in Coupled : m \in Children[c]

Links(froms, tos) == [from : froms, out : Port, to : tos, in : Port]

(* Links join ports that their models have, of one kind at either end.        *)
JoinPorts(links, outOf, inOf) ==
  \A k \in DOMAIN links : /\ links[k].out \in outOf[links[k].from]
                          /\ links[k].in \in inOf[links[k].to]

(* The models are a tree below the topmost one: an engine owns those of its   *)
(* submodels, and a coordinator without one has no next event to ask for.     *)
ASSUME TreeAssumption ==
  /\ IsFiniteSet(Coupled)
  /\ Top \in Coupled
  /\ \A c \in Coupled : Children[c] # {}
  /\ \A c, d \in Coupled : c # d => Children[c] \cap Children[d] = {}
  /\ \A d \in Coupled \ {Top} : \E c \in Coupled : d \in Children[c]
  /\ \E depth \in [Model -> 0 .. Cardinality(Coupled)] :
       \A c \in Coupled : \A s \in Children[c] : depth[c] < depth[s]

ASSUME CouplingAssumption ==
  \A c \in Coupled : /\ IC[c]  \in Seq(Links(Children[c], Children[c]))
                     /\ EIC[c] \in Seq(Links({c}, Children[c]))
                     /\ EOC[c] \in Seq(Links(Children[c], {c}))

ASSUME TimesAssumption ==
  /\ TimeAdvances \subseteq Nat
  /\ Limit \in Nat /\ Infinity \in Nat /\ Limit <= Infinity

Least(S) == CHOOSE x \in S : \A y \in S : x <= y

After(t, ta) == IF ta = Infinity THEN Infinity ELSE t + ta

Message  == UNION {{a} \X OutPort[a] : a \in Atomic}
NoMessages == [x \in Message |-> 0]
Joined(b, d) == [x \in Message |-> b[x] + d[x]]

(* An atomic model's output puts on each of its ports no message or one.     *)
Outputs(a) == [OutPort[a] -> 0 .. 1]
Emission(a, out, p) == [NoMessages EXCEPT ![<<a, p>>] = out[p]]

(* The copies of message x that the links of a sequence bring to one place.  *)
Brought(links, x, at(_), bag(_)) ==
  Cardinality(UNION {{i} \X (1 .. bag(links[i])[x]) : i \in {j \in DOMAIN links : at(links[j])}})

(***************************************************************************)
(* What the couplings promise: a message goes to every place that a chain  *)
(* of couplings takes it to, once for each chain.  emitted says what the   *)
(* atomic models of some set have put out.                                 *)
(***************************************************************************)
FlatOut(emitted) ==
  LET out[mp \in UNION {{m} \X OutPort[m] : m \in Model}] ==
        LET m == mp[1]
            p == mp[2]
        IN  IF m \in Atomic
            THEN IF m \in DOMAIN emitted THEN Emission(m, emitted[m], p) ELSE NoMessages
            ELSE [x \in Message |->
                    Brought(EOC[m], x, LAMBDA l : l.in = p, LAMBDA l : out[<<l.from, l.out>>])]
  IN  out

FlatIn(emitted) ==
  LET out == FlatOut(emitted)
      in[mp \in UNION {{m} \X InPort[m] : m \in Model}] ==
        LET m == mp[1]
            p == mp[2]
            here(l) == l.to = m /\ l.in = p
        IN  IF m = Top THEN NoMessages
            ELSE [x \in Message |->
                    Brought(IC[Parent(m)], x, here, LAMBDA l : out[<<l.from, l.out>>])
                    + Brought(EIC[Parent(m)], x, here, LAMBDA l : in[<<Parent(m), l.out>>])]
  IN  in

FlatInbox(emitted, a) == [p \in InPort[a] |-> FlatIn(emitted)[<<a, p>>]]
NoInput(a) == [p \in InPort[a] |-> NoMessages]
=============================================================================
