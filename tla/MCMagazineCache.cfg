CONSTANTS
  t1 = t1
  t2 = t2
  p1 = p1
  p2 = p2
  n1 = n1
  n2 = n2
  Null = Null
  Threads = {t1, t2}
  Classes <- TwoClasses
  Sizes <- TwoSizes
  ClassOf <- TwoClassOf
  PerPage <- TwoPerPage
  Pages = {p1, p2}
  Nodes = {n1, n2}
  Capacity = 2
SYMMETRY Symmetry
SPECIFICATION Spec
INVARIANTS
  ExclusiveBlocks
  ClassesNeverMix
  FullMagazinesAreFull
  BlocksAccounted
  FullStackIntact
  PopSeesCurrentNext
PROPERTIES
  IsBlockHeap
