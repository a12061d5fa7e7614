CONSTANTS
  t1 = t1
  t2 = t2
  p1 = p1
  p2 = p2
  p3 = p3
  p4 = p4
  p5 = p5
  Threads = {t1, t2}
  Allocators = {t1, t2}
  Pages = {p1, p2}
  PerPage = 2
  MAX_FREE_LIST_LENGTH = 2
  GLOBAL_FREE_BATCH = 1
  MaxLive = 3
  Null = Null
  s1 = s1
  s2 = s2
  Sizes = {s1}
SYMMETRY Symmetry
SPECIFICATION Spec
INVARIANTS
  BlocksOnce
