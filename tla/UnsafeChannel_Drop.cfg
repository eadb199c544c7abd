SPECIFICATION Spec
CONSTANTS
  Uninit = Uninit
  Rounds = 1
INVARIANT
  TakenOnce
