SPECIFICATION FairSpec
CONSTANTS
  Client = {c1, c2}
  NBits = 5
  InitFree <- MCInitFree
  Counts <- MCCounts
INVARIANTS
  TypeOK
  Accounting
  SingleOwner
  LoopsExact
PROPERTIES
  Refines
  LockReleased
CHECK_DEADLOCK TRUE
