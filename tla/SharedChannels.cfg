SPECIFICATION MCSpec
CONSTANTS
  Uninit = Uninit
  Main = main
  Senders = {s1, s2, s3}
  Eager = {e1, e2}
INVARIANTS
  NoDataRace
  ReceivesMessage
  TakenOnce
PROPERTIES
  MainNeverPanics
  Termination
