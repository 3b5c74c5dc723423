SPECIFICATION FairSpec
CONSTANTS
  m1 = m1
  m2 = m2
  m3 = m3
  m4 = m4
  Node = {0, 1}
  CountMod = 256
  Mssg = {m1, m2, m3, m4}
  Bags <- MCBags
  Lapse = {1, 2}
INVARIANTS
  ActiveWaiting
  IdleEmpty
PROPERTIES
  InOrder
  EveryMessageLeaves
