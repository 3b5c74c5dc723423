SPECIFICATION EnginesFairSpec
CHECK_DEADLOCK FALSE
CONSTANTS
  Top = "top"
  Children <- MCChildren
  InPort <- MCInPorts
  OutPort <- MCPorts
  IC <- MCRingIC
  EIC <- MCRingEIC
  EOC <- MCRingEOC
  TimeAdvances = {0, 1, 100}
  Limit = 2
  Infinity = 100
  StaticEIC <- MCJoinEIC
  StaticTimeAdvances = {1, 2}
  StaticLimit = 3
  Thread = {0, 1, 2}
  Runner = 0
  Engine = {0, 1, 2, 3, 4, 5, 6}
  Root = 0
  Below <- MCBelow
  MaxElements = 5
  MaxThreads = 4
INVARIANTS NextIsKnown BoxesEmptied EachCalledOnce
PROPERTIES ImplementsFlat RoundsAndLoopsEnd StaticImplementsFlat
