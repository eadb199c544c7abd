SPECIFICATION Spec
CONSTANTS
  Workers = {w1, w2, w3}
  Main = main
  Iterations = 1
INVARIANT
  OneMeansNoWaiter
