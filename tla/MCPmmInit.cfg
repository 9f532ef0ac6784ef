SPECIFICATION Spec
CONSTANTS
  PAGE_SIZE = 2
  MaxEntries = 3
  MMaps <- MCMMaps
INVARIANTS
  ClearedExact
  BitmapReserved
  WritesInside
CHECK_DEADLOCK FALSE
