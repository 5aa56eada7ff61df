SPECIFICATION Spec
CONSTANTS
  Threads = {t1, t2}
  Files = {f1, f2, f3}
  MaxFiles = 1
  MaxBatches = 1
  MaxConnections = 2
  Stale = Stale
  None = None
INVARIANT
  LimitKept
SYMMETRY Symmetry
CHECK_DEADLOCK FALSE
