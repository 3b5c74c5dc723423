--------------------------- MODULE ModelConstruction ---------------------------
(***************************************************************************)
(* How a coupled model becomes engines: the translation of a static model  *)
(* (modeling/dynamic_model_translator.hpp), the checks of the dynamic one  *)
(* (dynamic_coupled.hpp, dynamic_models_helpers.hpp) and the coordinator   *)
(* made for it (engine/pdevs_dynamic_coordinator.hpp).  A submodel is      *)
(* [id, in, out]; in a static model its type, given here by the id, fixes  *)
(* its ports.                                                              *)
(***************************************************************************)
EXTENDS Integers, Sequences, FiniteSets, SequencesExt

CONSTANTS
  Submodels,   \* lists of submodels
  InputPorts,  \* the ports of the coupled model
  OutputPorts,
  EICs,        \* lists of couplings [from_port, to, to_port]
  EOCs,        \* lists of couplings [from, from_port, to_port]
  ICs          \* lists of couplings [from, from_port, to, to_port]

VARIABLES
  declared,   \* the model as written: static, models, eic, eoc, ic
  stage,      \* "translate", "link", "check", "engines", "couple", "done", "error"
  models,     \* _models
  links,      \* _eic, _eoc, _ic
  engines,    \* _subcoordinators: the submodel of each
  couplings   \* the couplings of the coordinator, to and from engines

vars == <<declared, stage, models, links, engines, couplings>>

NoLinks == [eic |-> <<>>, eoc |-> <<>>, ic |-> <<>>]
Ids(ms) == {m.id : m \in Range(ms)}
-----------------------------------------------------------------------------
(* A dynamic model is given as it is, a static one is translated.             *)
Init ==
  /\ declared \in [static : BOOLEAN, models : Submodels, eic : EICs, eoc : EOCs, ic : ICs]
  /\ declared.static => \A m, n \in Range(declared.models) : m.id = n.id => m = n
  /\ stage = IF declared.static THEN "translate" ELSE "check"
  /\ models = IF declared.static THEN <<>> ELSE declared.models
  /\ links = IF declared.static THEN NoLinks
             ELSE [eic |-> declared.eic, eoc |-> declared.eoc, ic |-> declared.ic]
  /\ engines = <<>>
  /\ couplings = NoLinks

(* The submodels go to a map by their type, in whose order they come out: one *)
(* that is listed twice comes out once.                                       *)
MakeDynamicModels ==
  /\ stage = "translate"
  /\ models' \in LET given == Range(declared.models) IN Bijection(1 .. Cardinality(given), given)
  /\ stage' = "link"
  /\ UNCHANGED <<declared, links, engines, couplings>>

(* The couplings are made from the last one to the first.  Faulty variant:    *)
(* the last one is missed.                                                    *)
MakeDynamicMissingLast(list) == IF list = <<>> THEN <<>> ELSE Reverse(Front(list))
MakeDynamic(list) == Reverse(list)

MakeDynamicLinks ==
  /\ stage = "link"
  /\ LET known(list) == \A i \in DOMAIN list : \A end \in {"from", "to"} \cap DOMAIN list[i] :
                          list[i][end] \in Ids(models)
     IN  IF known(declared.eoc) /\ known(declared.eic) /\ known(declared.ic)
         THEN /\ links' = [eic |-> MakeDynamic(declared.eic), eoc |-> MakeDynamic(declared.eoc),
                           ic  |-> MakeDynamic(declared.ic)]
              /\ stage' = "check"
         ELSE /\ stage' = "error"
              /\ UNCHANGED links
  /\ UNCHANGED <<declared, models, engines, couplings>>

HasOutput(id, port) == \E m \in Range(models) : m.id = id /\ port \in m.out
HasInput(id, port)  == \E m \in Range(models) : m.id = id /\ port \in m.in

ValidIC  == \A l \in Range(links.ic) : HasOutput(l.from, l.from_port) /\ HasInput(l.to, l.to_port)
ValidEIC == \A l \in Range(links.eic) : HasInput(l.to, l.to_port) /\ l.from_port \in InputPorts
ValidEOC == \A l \in Range(links.eoc) : HasOutput(l.from, l.from_port) /\ l.to_port \in OutputPorts

Coupled ==
  /\ stage = "check"
  /\ stage' = IF ValidIC /\ ValidEIC /\ ValidEOC THEN "engines" ELSE "error"
  /\ UNCHANGED <<declared, models, links, engines, couplings>>

CreateEngine ==
  /\ stage = "engines"
  /\ IF Len(engines) < Len(models)
     THEN engines' = Append(engines, models[Len(engines) + 1]) /\ UNCHANGED stage
     ELSE stage' = "couple" /\ UNCHANGED engines
  /\ UNCHANGED <<declared, models, links, couplings>>

(* engines_by_id: an id that is there already keeps its engine.               *)
EngineOf(id) ==
  CHOOSE i \in DOMAIN engines : engines[i].id = id /\ \A j \in 1 .. i - 1 : engines[j].id # id

(* Every id of a coupling is found: Coupled has looked for it.                *)
Couple ==
  /\ stage = "couple"
  /\ LET resolved(list) ==
           [i \in DOMAIN list |->
             [f \in DOMAIN list[i] |-> IF f \in {"from", "to"} THEN EngineOf(list[i][f]) ELSE list[i][f]]]
     IN  couplings' = [eic |-> resolved(links.eic), eoc |-> resolved(links.eoc),
                       ic  |-> resolved(links.ic)]
  /\ stage' = "done"
  /\ UNCHANGED <<declared, models, links, engines>>

Next == MakeDynamicModels \/ MakeDynamicLinks \/ Coupled \/ CreateEngine \/ Couple

Spec == Init /\ [][Next]_vars
-----------------------------------------------------------------------------
DistinctIds == \A i, j \in DOMAIN declared.models : i # j => declared.models[i].id # declared.models[j].id

(* A declared coupling leads from a port that is there to one that is.        *)
Leads(l) ==
  LET end(id, dir, port) == \E m \in Range(declared.models) : m.id = id /\ port \in m[dir]
  IN  /\ IF "from" \in DOMAIN l THEN end(l.from, "out", l.from_port) ELSE l.from_port \in InputPorts
      /\ IF "to" \in DOMAIN l THEN end(l.to, "in", l.to_port) ELSE l.to_port \in OutputPorts

(* A model is refused when one of its couplings starts or ends nowhere, and   *)
(* only then, whether it was written as a static or as a dynamic one.         *)
RefusesDangling ==
  LET all == Range(declared.eic) \cup Range(declared.eoc) \cup Range(declared.ic)
  IN  /\ stage = "error" => \E l \in all : ~Leads(l)
      /\ stage = "done" => \A l \in all : Leads(l)

(* The coordinator has an engine for each submodel, and each declared         *)
(* coupling as often as it is declared, between the engines of its submodels: *)
(* in the declared order for a dynamic model, in the opposite one for a       *)
(* static one.  It matters: of two links into one port the last one counts    *)
(* (DynamicEngine!RouteMessages).  Submodels with one id are not told apart   *)
(* (pdevs_dynamic_coordinator.hpp, line 104).                                 *)
CouplesAsDeclared ==
  stage = "done" /\ DistinctIds =>
    LET order(list) == IF declared.static THEN Reverse(list) ELSE list
        is(c, l) == \A f \in DOMAIN l :
                      c[f] = IF f \in {"from", "to"} THEN CHOOSE i \in DOMAIN engines : engines[i].id = l[f]
                             ELSE l[f]
        as(cs, list) == Len(cs) = Len(list) /\ \A i \in DOMAIN list : is(cs[i], order(list)[i])
    IN  /\ Range(engines) = Range(declared.models) /\ Len(engines) = Len(declared.models)
        /\ as(couplings.eic, declared.eic) /\ as(couplings.eoc, declared.eoc)
        /\ as(couplings.ic, declared.ic)
=============================================================================
