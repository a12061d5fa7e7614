CONSTANTS
  TopOrder = 2
  Regions = {4, 8}
  Contents <- FreeLookalikes
SPECIFICATION Spec
INVARIANTS
  
  NothingLost
  
  WholeAgain
