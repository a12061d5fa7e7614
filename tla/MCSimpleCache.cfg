CONSTANTS
  t1 = t1
  t2 = t2
  p1 = p1
  p2 = p2
  p3 = p3
  p4 = p4
  p5 = p5
  Threads = {t1, t2}
  Allocators = {t1}
  Pages = {p1, p2, p3, p4, p5}
  PerPage = 2
  MAX_FREE_LIST_LENGTH = 4
  GLOBAL_FREE_BATCH = 2
  MaxLive = 2
  Null = Null
  s1 = s1
  s2 = s2
  Sizes = {s1, s2}
SYMMETRY Symmetry
SPECIFICATION Spec
INVARIANTS
  
  CountsExact
  FootprintBounded
PROPERTIES
  IsBlockHeap
