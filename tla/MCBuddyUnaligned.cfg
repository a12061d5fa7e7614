CONSTANTS
  TopOrder = 2
  Regions = {5}
  Contents <- FreeLookalikes
SPECIFICATION Spec
INVARIANTS
  BlocksDisjoint
