SPECIFICATION SwitchSpec
CONSTANTS
  m1 = m1
  m2 = m2
  m3 = m3
  m4 = m4
  Node <- MCNodes256
  CountMod = 256
  Mssg = {m1, m2}
  Bags <- MCBags
  Lapse = {1}
INVARIANTS
  IdleEmpty
