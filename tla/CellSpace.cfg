SPECIFICATION Spec
CHECK_DEADLOCK FALSE
CONSTANTS
  a = a
  b = b
  c = c
  Cell = {a, b, c}
  Neighbors <- Star
  State = {"off", "on"}
  NoState = NoState
  Infinity = 100
  Kinds = {"transport"}
  Delays = {1}
  Limit = 3
  MaxChanges = 2
INVARIANT KnowsNeighbors
