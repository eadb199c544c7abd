CONSTANTS
  t1 = t1
  t2 = t2
  t3 = t3
  Main = Main
  Nobody = Nobody
  Threads = {t1, t2, t3}
  Calls = 4
  Limit = 3
  Modulus = 7
  Workers = {t1, t2}
  Items = 2
  Times = {1, 2}
SPECIFICATION MCSpec
INVARIANTS IdsAreExact ReportsAreConsistent
PROPERTY Termination
