SPECIFICATION SpinFairSpec
CONSTANTS
  Workers = {w1, w2, w3}
  Main = main
  Iterations = 1
  SpinLimit = 2
PROPERTIES
  ImplementsMutex
  Termination
