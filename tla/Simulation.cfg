SPECIFICATION FairSpec
CHECK_DEADLOCK FALSE
CONSTANTS
  NNodes = 2
  NCores = 2
  Slot = {0, 1}
  NoSlot = NoSlot
  Mssg = {1, 2, 3}
  Oper <- MCOper
  Dest <- MCDest
  First = "source"
  EndOps <- MCEnd
  Locations <- MCLocations
  Selective = {}
  Infinity = 1000
  Workload <- MCThree
  CountMod = 256
  Arrival = {1, 2}
  Lapse = {1, 3}
  SwitchLapse = {1}
INVARIANTS LapseIsLeast SlavesRunTheirTime Conserved
PROPERTY AllExecuted
