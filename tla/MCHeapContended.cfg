SPECIFICATION FairSpec
CONSTANTS
  Client = {c1, c2}
  MAX = 2
  Bases <- MCBases
INVARIANTS
  Tiling
  OneInside
PROPERTY
  LockReleased
CHECK_DEADLOCK FALSE
