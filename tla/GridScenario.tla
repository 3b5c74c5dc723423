---------------------------- MODULE GridScenario ----------------------------
(***************************************************************************)
(* A lattice of cells made from a scenario file (celldevs/coupled/         *)
(* grid_coupled.hpp and cells_coupled.hpp, utils/grid_utils.hpp): every    *)
(* cell of the shape gets the default configuration, some get another one, *)
(* and then each is added with the neighbors that are in the scenario.  A  *)
(* configuration is a record of a state and a neighborhood; cell types,    *)
(* delays and the cells' own parameters are handled as the state is.       *)
(***************************************************************************)
EXTENDS GridUtils

CONSTANTS
  Scenarios, \* [shape, list]: the list of the default neighborhood is a sequence of
             \* entries [type, range or neighbors, vicinity]
  Special,   \* descriptions of other configurations than the default one
  MaxSpecial \* bound: cells in the file's cell_map

(* Sizes are at least one, entries are of the three types and relative        *)
(* neighbors vectors of integers.                                             *)
EntryAssumption(entry) ==
  \/ entry.type = "relative" /\ entry.neighbors \subseteq Seq(Int)
  \/ entry.type \in {"von_neumann", "moore"} /\ entry.range \in Nat

GridAssumption ==
  \A x \in Scenarios : /\ x.shape \in Seq(Nat \ {0}) \ {<<>>}
                        /\ x.list \in Seq(Range(x.list))
                        /\ \A entry \in Range(x.list) : EntryAssumption(entry)

VARIABLES
  file,      \* shape, wrapped, list of the default neighborhood
  default,   \* the default configuration
  stage,     \* "fill", "special", "add", "couple", "done"
  current,   \* the next cell to get the default configuration
  configs,   \* configs of the scenario
  specials,  \* the cells of cell_map read so far
  cells,     \* the cells added: their state and neighbors with vicinity
  links      \* _ic: from each neighbor to the cell

vars == <<file, default, stage, current, configs, specials, cells, links>>

shape   == file.shape
wrapped == file.wrapped
Dimension == Len(shape)
Positions == {cell \in [DOMAIN shape -> 0 .. Max(Range(shape)) - 1] : CellInScenario(cell, shape)}
-----------------------------------------------------------------------------
(* The neighbors of one entry of a list. *)
EntryNeighbors(entry, dimension) ==
  IF entry.type = "relative" THEN entry.neighbors
  ELSE IF entry.type = "von_neumann" THEN VonNeumannNeighborhood(dimension, entry.range)
       ELSE MooreNeighborhood(dimension, entry.range)

(* A neighbor of several entries has the last one's vicinity.  Faulty        *)
(* variant: the first one's.                                                 *)
KeepEntry(hood, entry, dimension) ==
  LET near == EntryNeighbors(entry, dimension)
  IN  [n \in DOMAIN hood \cup near |-> IF n \in DOMAIN hood THEN hood[n] ELSE entry.vicinity]

ParseNeighborhoodFirst(list, dimension) ==
  LET hood[k \in 0 .. Len(list)] ==
        IF k = 0 THEN <<>> ELSE KeepEntry(hood[k - 1], list[k], dimension)
  IN  hood[Len(list)]

PutEntry(hood, entry, dimension) ==
  LET near == EntryNeighbors(entry, dimension)
  IN  [n \in DOMAIN hood \cup near |-> IF n \in near THEN entry.vicinity ELSE hood[n]]

ParseNeighborhood(list, dimension) ==
  LET hood[k \in 0 .. Len(list)] ==
        IF k = 0 THEN <<>> ELSE PutEntry(hood[k - 1], list[k], dimension)
  IN  hood[Len(list)]

DefaultState  == "default"
DefaultConfig == [state |-> DefaultState, neighborhood |-> ParseNeighborhood(file.list, Dimension)]

(* What a description does not mention is that of the default one. *)
CellConfig(description) ==
  [f \in DOMAIN default |->
    CASE f \notin DOMAIN description -> default[f]
      [] f = "neighborhood"          -> ParseNeighborhood(description[f], Dimension)
      [] OTHER                       -> description[f]]

(* The assertions of destination_cell on what is in a list. *)
Fits(neighborhood) ==
  \A v \in DOMAIN neighborhood : Len(v) = Len(shape) /\ \A i \in DOMAIN shape : Abs(v[i]) < shape[i]

Init ==
  /\ \E x \in Scenarios, w \in BOOLEAN : file = [shape |-> x.shape, wrapped |-> w, list |-> x.list]
  /\ default = DefaultConfig
  /\ Fits(default.neighborhood)
  /\ stage = "fill"
  /\ current = Origin(shape)
  /\ configs = <<>>
  /\ specials = {}
  /\ cells = <<>>
  /\ links = {}

SetInitialConfig ==
  /\ stage = "fill"
  /\ configs' = [c \in DOMAIN configs \cup {current} |->
                  IF c = current THEN default ELSE configs[c]]
  /\ current' = NextCell(current, shape)
  /\ stage' = IF current' = Overflow THEN "special" ELSE "fill"
  /\ UNCHANGED <<file, default, specials, cells, links>>

SetSpecialConfig(cell, description) ==
  /\ stage = "special"
  /\ Cardinality(specials) < MaxSpecial
  /\ Fits(CellConfig(description).neighborhood)
  /\ configs' = [configs EXCEPT ![cell] = CellConfig(description)]
  /\ specials' = specials \cup {cell}
  /\ UNCHANGED <<file, default, stage, current, cells, links>>

EndSpecials ==
  /\ stage = "special"
  /\ stage' = "add"
  /\ UNCHANGED <<file, default, current, configs, specials, cells, links>>

(* The neighbors of a cell with their vicinities: of relative positions that *)
(* lead to one cell the first that the hash map gives is kept.               *)
CellMaps(cell) ==
  LET hood == configs[cell].neighborhood
      absolute(v) == DestinationCell(cell, v, shape, wrapped)
      near == {absolute(v) : v \in DOMAIN hood} \ {Overflow}
      vicinities(a) == {hood[v] : v \in {w \in DOMAIN hood : absolute(w) = a}}
  IN  {map \in [near -> Range(hood)] : \A a \in near : map[a] \in vicinities(a)}

(* The order in which the cells are added makes no difference. *)
AddCell ==
  /\ stage = "add"
  /\ LET cell == CHOOSE c \in DOMAIN configs : c \notin DOMAIN cells
     IN  /\ \E map \in CellMaps(cell) :
              cells' = [c \in DOMAIN cells \cup {cell} |->
                         IF c = cell THEN [state |-> configs[cell].state, neighborhood |-> map]
                         ELSE cells[c]]
         /\ stage' = IF DOMAIN cells' = DOMAIN configs THEN "couple" ELSE "add"
  /\ UNCHANGED <<file, default, current, configs, specials, links>>

Links == UNION {{<<from, to>> : from \in DOMAIN cells[to].neighborhood} : to \in DOMAIN cells}

CoupleCells ==
  /\ stage = "couple"
  /\ stage' = "done"
  /\ links' = Links
  /\ UNCHANGED <<file, default, current, configs, specials, cells>>

Next ==
  \/ SetInitialConfig \/ EndSpecials \/ AddCell \/ CoupleCells
  \/ \E cell \in DOMAIN configs, description \in Special : SetSpecialConfig(cell, description)

Spec == Init /\ [][Next]_vars
-----------------------------------------------------------------------------
(* next_cell, which throws at the end, goes through every cell of the shape   *)
(* once, in any number of dimensions.                                         *)
EachCellOnce ==
  IF stage = "fill" THEN current \in Positions \ DOMAIN configs
  ELSE DOMAIN configs = Positions

(* The distance between two cells that an entry of a list means. *)
DistanceOf(entry, a, b) ==
  IF entry.type = "moore" THEN ChebyshevDistance(a, b, shape, wrapped)
  ELSE ManhattanDistance(a, b, shape, wrapped)

(* A cell with the default neighborhood, when this is a von Neumann or Moore  *)
(* one, is linked from exactly the cells within the range by the distance of  *)
(* the same file, over the edges of a wrapped scenario too, and although two  *)
(* positions may be one cell there.                                           *)
LinkedWithinRange ==
  stage = "done" /\ Len(file.list) = 1 /\ file.list[1].type # "relative" =>
    \A to \in Positions :
      configs[to].neighborhood = default.neighborhood =>
        {from \in Positions : <<from, to>> \in links}
          = {from \in Positions : DistanceOf(file.list[1], to, from) <= file.list[1].range}

(* Where no two positions are one cell, a neighbor has the vicinity of the    *)
(* last entry that covers its distance vector, however the list overlaps.     *)
VicinityOfLast ==
  LET covers(entry, v) ==
        LET sizes == {Abs(v[i]) : i \in DOMAIN v}
        IN  IF entry.type = "relative" THEN v \in entry.neighbors
            ELSE IF entry.type = "moore" THEN Max(sizes) <= entry.range
                 ELSE SumFunction([i \in DOMAIN v |-> Abs(v[i])]) <= entry.range
      apart == \A v \in DOMAIN default.neighborhood : \A i \in DOMAIN v : 2 * Abs(v[i]) < shape[i]
  IN  stage = "done" /\ apart =>
        \A c \in Positions \ specials : \A n \in DOMAIN cells[c].neighborhood :
          LET v == DistanceVector(c, n, shape, wrapped)
              entries == {k \in DOMAIN file.list : covers(file.list[k], v)}
          IN  entries # {} /\ cells[c].neighborhood[n] = file.list[Max(entries)].vicinity

(* The distances are metrics, also around the edges, and the cell at the      *)
(* distance vector of another one is that one.                                *)
DistancesAreMetrics ==
  stage = "couple" /\ specials = {} =>
    LET m(a, b) == ManhattanDistance(a, b, shape, wrapped)
        k(a, b) == ChebyshevDistance(a, b, shape, wrapped)
    IN  \A a, b \in Positions :
          /\ DestinationCell(a, DistanceVector(a, b, shape, wrapped), shape, wrapped) = b
          /\ m(a, b) = m(b, a) /\ k(a, b) = k(b, a)
          /\ k(a, b) * k(a, b) <= EuclideanDistance(a, b, shape, wrapped)
          /\ EuclideanDistance(a, b, shape, wrapped) <= m(a, b) * m(a, b)
          /\ \A c \in Positions : m(a, c) <= m(a, b) + m(b, c) /\ k(a, c) <= k(a, b) + k(b, c)
=============================================================================
