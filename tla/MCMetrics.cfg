CONSTANTS
  t1 = t1
  t2 = t2
  Threads = {t1, t2}
  METRICS_FLUSH_THRESHOLD = 2
  MaxCalls = 3
SYMMETRY Symmetry
SPECIFICATION Spec
INVARIANTS
  CountsConserved
  KindsAddUp
  ActiveNotOverstated
