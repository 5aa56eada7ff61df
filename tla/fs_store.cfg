SPECIFICATION Spec
CONSTANTS
  Threads = {t1, t2}
  Files = {f1, f2, f3, f4}
  MaxFiles = 2
  MaxBatches = 1
  MaxConnections = 3
  Stale = Stale
  None = None
INVARIANTS
  TypeOK
  OvershootBounded
  RemoveErases
PROPERTIES
  AloneCorrect
SYMMETRY Symmetry
CHECK_DEADLOCK FALSE
