SPECIFICATION StartupSpec
CHECK_DEADLOCK FALSE
CONSTANTS
  a = a
  b = b
  c = c
  d = d
  NNodes = 3
  NOperators = 3
  MaxReplication = 5
  Name = {a, b, c, d}
  Parallelism = {1}
  ParallelismL = 1
  Load = {"low", "high"}
  Factor = {1, 2}
  MaxLines = 3
  Requests <- MCByReq
  Times <- MCByTime
  Dynamic = TRUE
  StepTime = 2
  Infinity = 1000
  Operator = {"source"}
  Lapses = {1, 2}
  Advances = {1, 3}
  MaxTime = 9
SYMMETRY MCSymmetry
INVARIANTS
  Balanced
  LocationsExact
  Spread
  ReadsTheJob
  RequestsOfLine
  NeverEarly
  FiledUnderLine
