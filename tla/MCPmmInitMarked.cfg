SPECIFICATION Spec
CONSTANTS
  PAGE_SIZE = 2
  MaxEntries = 3
  MMaps <- MCMMaps
INVARIANT
  UsedStaysMarked
CHECK_DEADLOCK FALSE
