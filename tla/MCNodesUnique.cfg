CONSTANTS
  t1 = t1
  t2 = t2
  t3 = t3
  p1 = p1
  p2 = p2
  p3 = p3
  Null = Null
  Threads = {t1, t2}
  Pages = {p1, p2, p3}
  PerPage = 2
SYMMETRY Symmetry
SPECIFICATION Spec
INVARIANT NodesUnique
