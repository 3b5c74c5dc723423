-------------------------------- MODULE Models --------------------------------
(***************************************************************************)
(* The parts of cadmium besides its engines, each on its own: cells that   *)
(* listen to each other run, a lattice of cells is made from a scenario,   *)
(* basic models run, a file of events is played, and a coupled model       *)
(* becomes engines.  The part that runs is chosen at the start.            *)
(***************************************************************************)
EXTENDS CellSpace

CONSTANTS
  Scenarios, Special, MaxSpecial,                      \* of GridScenario
  Adders, Resetters, Period, Value, MaxTime,           \* of BasicModels
  Files, Nothing,                                      \* of InputStream
  Submodels, InputPorts, OutputPorts, EICs, EOCs, ICs  \* of ModelConstruction

VARIABLES part,
          file, default, stage, current, configs, specials, cells, links,
          gen, last, acc, filter, thrown, sums, passed,
          stream, calls, s, played,
          declared, phase, models, couplings_given, engines, couplings

Grid         == INSTANCE GridScenario
Basic        == INSTANCE BasicModels
Stream       == INSTANCE InputStream WITH file <- stream
Construction == INSTANCE ModelConstruction WITH stage <- phase, links <- couplings_given

(* Lines, submodels and couplings have these fields, and lists are sequences. *)
Listed(ls, fields) == ls \in Seq(Range(ls)) /\ \A l \in Range(ls) : DOMAIN l = fields

ASSUME ModelsAssumption ==
  /\ Basic!BasicAssumption
  /\ Grid!GridAssumption
  /\ \A ls \in Files : ls \in Seq([time : 0 .. Infinity - 1, msg : {l.msg : l \in Range(ls)}])
  /\ \A ms \in Submodels : Listed(ms, {"id", "in", "out"})
  /\ \A ls \in EICs : Listed(ls, {"from_port", "to", "to_port"})
  /\ \A ls \in EOCs : Listed(ls, {"from", "from_port", "to_port"})
  /\ \A ls \in ICs : Listed(ls, {"from", "from_port", "to", "to_port"})

g_vars == <<file, default, stage, current, configs, specials, cells, links>>
b_vars == <<gen, last, acc, filter, thrown, sums, passed>>
s_vars == <<stream, calls, s, played>>
c_vars == <<declared, phase, models, couplings_given, engines, couplings>>

(* The parts that do not run have one initial state.                          *)
ModelsInit ==
  /\ part \in {"cells", "grid", "basic", "stream", "construction"}
  /\ IF part = "cells" THEN Init
     ELSE time = 0 /\ order = <<>> /\ cell = <<>> /\ changes = <<>> /\ sent = <<>>
  /\ IF part = "grid" THEN Grid!Init
     ELSE /\ file = <<>> /\ default = <<>> /\ stage = "none" /\ current = <<>> /\ configs = <<>>
          /\ specials = {} /\ cells = <<>> /\ links = {}
  /\ IF part = "basic" THEN Basic!Init
     ELSE /\ gen = <<>> /\ last = <<>> /\ acc = <<>> /\ filter = 0 /\ thrown = FALSE
          /\ sums = <<>> /\ passed = <<>>
  /\ IF part = "stream" THEN Stream!Init
     ELSE stream = <<>> /\ calls = 0 /\ s = <<>> /\ played = <<>>
  /\ IF part = "construction" THEN Construction!Init
     ELSE /\ declared = <<>> /\ phase = "none" /\ models = <<>> /\ couplings_given = <<>>
          /\ engines = <<>> /\ couplings = <<>>

ModelsNext ==
  \/ part = "cells"  /\ Next        /\ UNCHANGED <<part, g_vars, b_vars, s_vars, c_vars>>
  \/ part = "grid"   /\ Grid!Next   /\ UNCHANGED <<part, vars, b_vars, s_vars, c_vars>>
  \/ part = "basic"  /\ Basic!Next  /\ UNCHANGED <<part, vars, g_vars, s_vars, c_vars>>
  \/ part = "stream" /\ Stream!Next /\ UNCHANGED <<part, vars, g_vars, b_vars, c_vars>>
  \/ part = "construction" /\ Construction!Next /\ UNCHANGED <<part, vars, g_vars, b_vars, s_vars>>

ModelsSpec == ModelsInit /\ [][ModelsNext]_<<part, vars, g_vars, b_vars, s_vars, c_vars>>

(* The invariants of each part, when it runs: see its module.                 *)
CellsTransmitChanges  == part = "cells" => ClockAgrees /\ TransmitsChanges
CellsKnowEachOther    == part = "cells" => KnowsNeighbors
LinkedWithinRange     == part = "grid" => Grid!EachCellOnce /\ Grid!LinkedWithinRange
VicinityOfLast        == part = "grid" => Grid!VicinityOfLast
DistancesAreMetrics   == part = "grid" => Grid!DistancesAreMetrics
SumsAreExact          == part = "basic" => /\ Basic!SumsAreExact
                                           /\ Basic!NothingThrown
                                           /\ Basic!FirstPasses
PlaysTheFile          == part = "stream" => Stream!PlaysTheFile
CouplesAsDeclared     == part = "construction" => /\ Construction!RefusesDangling
                                                  /\ Construction!CouplesAsDeclared
=============================================================================
