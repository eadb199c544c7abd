SPECIFICATION MCSpec
CONSTANTS
  t1 = t1
  t2 = t2
  t3 = t3
  Threads = {t1, t2, t3}
  MaxUsize = 9
  Budget = 3
INVARIANTS
  NoDataRace
  GetMutIsExclusive
  AliveWhileOwned
  AllocCountIsExact
  CountWithinLimit
PROPERTIES
  Termination
