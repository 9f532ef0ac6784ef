SPECIFICATION Spec
CONSTANTS
  Client = {c1}
  MAX = 3
  Bases <- MCBases
INVARIANTS
  TypeOK
  Tiling
  MergeSound
  FullyCoalesced
CHECK_DEADLOCK FALSE
