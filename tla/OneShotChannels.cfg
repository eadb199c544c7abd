SPECIFICATION MCSpec
CONSTANTS
  Uninit = Uninit
  Rounds = 3
INVARIANTS
  NoDataRace
  ReceivesMessage
  SafeTakenOnce
PROPERTIES
  Termination
