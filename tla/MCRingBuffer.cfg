CONSTANTS
  e1 = e1
  e2 = e2
  e3 = e3
  None = None
  Entries = {e1, e2}
  Capacity = 4
SPECIFICATION FairSpec
INVARIANTS
  SlotsOwned
  ShadowsSafe
  LenSafe
PROPERTIES
  IsBoundedFifo
  PushEnds
  EntriesHandled
