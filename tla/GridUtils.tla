------------------------------ MODULE GridUtils ------------------------------
(***************************************************************************)
(* The geometry of lattices of cells (celldevs/utils/grid_utils.hpp).      *)
(* Positions, shapes and distances are sequences of integers, one for each *)
(* dimension.  Overflow stands for the std::overflow_error that the        *)
(* functions throw.                                                        *)
(***************************************************************************)
EXTENDS Integers, Sequences, FiniteSets, FiniteSetsExt, Functions

Overflow == <<>>

Abs(n) == IF n < 0 THEN -n ELSE n

Origin(shape) == [i \in DOMAIN shape |-> 0]
CellInScenario(cell, shape) == \A i \in DOMAIN shape : 0 <= cell[i] /\ cell[i] < shape[i]

(* The dimensions are counted up from the first one, each starting over when *)
(* it reaches its end.                                                        *)
NextCell(cell, shape) ==
  LET free == {i \in DOMAIN shape : cell[i] < shape[i] - 1}
  IN  IF free = {} THEN Overflow
      ELSE [i \in DOMAIN cell |-> IF i < Min(free) THEN 0
                                ELSE IF i = Min(free) THEN cell[i] + 1 ELSE cell[i]]

(***************************************************************************)
(* Distances.  Faulty variant: the way around is taken only in one         *)
(* direction.                                                              *)
(***************************************************************************)
DistanceVectorOneWay(origin, destination, shape, wrapped) ==
  [i \in DOMAIN origin |->
    LET diff == destination[i] - origin[i]
    IN  IF wrapped /\ diff > shape[i] \div 2 THEN diff - shape[i] ELSE diff]

DistanceVector(origin, destination, shape, wrapped) ==
  [i \in DOMAIN origin |->
    LET diff == destination[i] - origin[i]
    IN  IF wrapped /\ Abs(diff) > shape[i] \div 2
        THEN IF diff < 0 THEN diff + shape[i] ELSE diff - shape[i]
        ELSE diff]

(* Asserts that every distance is less than the size of the grid: what is     *)
(* divided is not negative, for which C++ and TLA+ differ.                    *)
DestinationCell(origin, distance, shape, wrapped) ==
  LET cell == [i \in DOMAIN origin |->
                IF wrapped THEN (origin[i] + distance[i] + shape[i]) % shape[i]
                           ELSE origin[i] + distance[i]]
  IN  IF CellInScenario(cell, shape) THEN cell ELSE Overflow

ManhattanDistance(a, b, shape, wrapped) ==
  LET v == DistanceVector(a, b, shape, wrapped)
  IN  SumFunction([i \in DOMAIN v |-> Abs(v[i])])

ChebyshevDistance(a, b, shape, wrapped) ==
  LET v == DistanceVector(a, b, shape, wrapped)
  IN  Max({0} \cup {Abs(v[i]) : i \in DOMAIN v})

(* The power, by multiplication: the provers do not know ^.                   *)
Power(x, n) == LET p[k \in 0 .. n] == IF k = 0 THEN 1 ELSE x * p[k - 1] IN p[n]

(* The n-th power of the N-norm distance, which is all that can be compared   *)
(* in integers.                                                               *)
NNormDistance(a, b, n, shape, wrapped) ==
  LET v == DistanceVector(a, b, shape, wrapped)
  IN  SumFunction([i \in DOMAIN v |-> Power(Abs(v[i]), n)])

EuclideanDistance(a, b, shape, wrapped) == NNormDistance(a, b, 2, shape, wrapped)

(***************************************************************************)
(* Neighborhoods, as sets of positions relative to a cell.  The biassed    *)
(* ones have their center in the middle of a grid of its own, which is     *)
(* gone through cell by cell.                                              *)
(***************************************************************************)
BoxShape(dimension, range) == [i \in 1 .. dimension |-> 2 * range + 1]
Middle(dimension, range)   == [i \in 1 .. dimension |-> range]

(* Until next_cell throws: that is after as many steps as the box has cells,  *)
(* which the proofs show (GoesOver).                                          *)
NextUnlessOver(cell, shape) == IF cell = Overflow THEN Overflow ELSE NextCell(cell, shape)

BiassedMooreNeighborhood(dimension, range) ==
  LET shape == BoxShape(dimension, range)
      steps == Cardinality([1 .. dimension -> 0 .. 2 * range])
      current[n \in 0 .. steps] ==
        IF n = 0 THEN Origin(shape) ELSE NextUnlessOver(current[n - 1], shape)
  IN  {current[n] : n \in 0 .. steps} \ {Overflow}

(* Faulty variant: a cell at the range itself is left out. *)
BiassedVonNeumannNeighborhoodOpen(dimension, range) ==
  {cell \in BiassedMooreNeighborhood(dimension, range) :
     ManhattanDistance(Middle(dimension, range), cell, BoxShape(dimension, range), FALSE) < range}

BiassedVonNeumannNeighborhood(dimension, range) ==
  {cell \in BiassedMooreNeighborhood(dimension, range) :
     ManhattanDistance(Middle(dimension, range), cell, BoxShape(dimension, range), FALSE) <= range}

UnbiasNeighborhood(biassed, middle) ==
  {[i \in DOMAIN middle |-> cell[i] - middle[i]] : cell \in biassed}

MooreNeighborhood(dimension, range) ==
  UnbiasNeighborhood(BiassedMooreNeighborhood(dimension, range), Middle(dimension, range))

VonNeumannNeighborhood(dimension, range) ==
  UnbiasNeighborhood(BiassedVonNeumannNeighborhood(dimension, range), Middle(dimension, range))
=============================================================================
