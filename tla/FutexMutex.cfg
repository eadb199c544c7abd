SPECIFICATION FutexFairSpec
CONSTANTS
  Workers = {w1, w2, w3}
  Main = main
  Iterations = 2
INVARIANTS
  FutexTypeOK
  NoDataRace
  FutexNoLostWakeup
PROPERTIES
  ImplementsLockedCounter
  Termination
