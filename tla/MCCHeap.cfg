CONSTANTS
  p1 = p1
  p2 = p2
  p3 = p3
  t1 = t1
  Pages = {p1, p2, p3}
  NoPage = NoPage
  Zeroes <- ZeroRegion
  Threads = {t1}
  Bits = 18
  Sizes = {20, 73700}
  Members = {4}
  Alignments = {64}
  Marks = {0, 25}
  MaxBlocks = 2
SYMMETRY Symmetry
SPECIFICATION Spec
INVARIANTS
  SizesRemembered
  

  
  
