CONSTANTS
  Bits = 19
  MaxSize = 300000
SPECIFICATION Spec
INVARIANTS
  RoundsUpLeast
  ClassFits
  CarvedBlocksFit
  LargeBlockFits
  SlotsAgree
CHECK_DEADLOCK FALSE
