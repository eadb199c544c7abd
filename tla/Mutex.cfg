SPECIFICATION FairSpec
CONSTANTS
  Workers = {w1, w2, w3}
  Main = main
  Iterations = 2
INVARIANTS
  TypeOK
  NoDataRace
  NoLostWakeup
PROPERTIES
  ImplementsLockedCounter
  Termination
