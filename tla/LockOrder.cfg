SPECIFICATION Spec
CONSTANTS
  t1 = t1
  t2 = t2
  t3 = t3
  Txns = {t1, t2, t3}
  Customers = {1, 2, 4}
  Staff = {3, 5}
  MaxId = 5
  PoolSize = 3
  Workloads <- WorkloadsOfRun
INVARIANTS OrderlyNeverStandStill
SYMMETRY Interchangeable
CHECK_DEADLOCK FALSE
