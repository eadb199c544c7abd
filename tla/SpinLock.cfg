SPECIFICATION MCSpec
CONSTANTS
  a = a
  b = b
  c = c
  d = d
  Main = main
  Workers <- MCWorkers
  Pushes <- MCPushes
INVARIANTS
  NoDataRace
  GuardIsAtomic
PROPERTIES
  Termination
