CONSTANTS
  p1 = p1
  p2 = p2
  p3 = p3
  p4 = p4
  Pages = {p1, p2, p3, p4}
  MaxSlots = 2
  MaxSlabPages = 2
  SlotsPerPage = 2
  CACHE_SIZE = 2
  Bits = 14
  Sizes = {40, 64, 5000}
SYMMETRY Symmetry
SPECIFICATION Spec
INVARIANTS
  RegionsOwned
  SlabListExact
  CacheListsExact
