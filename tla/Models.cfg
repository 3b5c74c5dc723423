SPECIFICATION ModelsSpec
CHECK_DEADLOCK FALSE
CONSTANTS
  a = a
  b = b
  Cell = {a, b}
  Neighbors <- EachOther
  State = {"off", "on"}
  NoState = NoState
  Infinity = 100
  Kinds = {"transport", "hybrid", "inertial"}
  Delays = {0, 1, 3, 100}
  Limit = 5
  MaxChanges = 4
  Scenarios <- MCScenarios
  Special <- MCSpecial
  MaxSpecial = 1
  Adders = {"one", "ten"}
  Resetters = {"reset", "other_reset"}
  Period = {1, 2, 3}
  Value = {10}
  MaxTime = 12
  Files <- MCFiles
  Nothing = "nothing"
  Submodels <- MCSubmodels
  InputPorts = {"x"}
  OutputPorts = {"y"}
  EICs <- MCEICs
  EOCs <- MCEOCs
  ICs <- MCICs
INVARIANTS
  CellsTransmitChanges
  CellsKnowEachOther
  LinkedWithinRange
  VicinityOfLast
  DistancesAreMetrics
  SumsAreExact
  PlaysTheFile
  CouplesAsDeclared
