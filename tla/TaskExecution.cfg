SPECIFICATION MCSpec
CONSTANTS
  s1 = s1
  s2 = s2
  s3 = s3
  src = src
  snk = snk
  m1 = m1
  m2 = m2
  NCores = 2
  Slot = {s1, s2, s3}
  NoSlot = NoSlot
  Mssg = {m1, m2}
  Oper = {src, snk}
  First = src
  OperOf <- MCOperOf
  Dest <- MCDest
  Lapse = {1, 3}
  Ties = FALSE
  MaxQueue = 2
SYMMETRY MCSymmetry
INVARIANTS
  TypeOK
  SlotExclusive
  NoStrandedTuple
  PendingExact
  TiedNoneStranded
PROPERTIES
  LongServesInOrder
