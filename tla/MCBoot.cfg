SPECIFICATION Spec
CONSTANTS
  Machines <- MCMachines
  Before <- MCBefore
  After <- MCAfter
  Width = 3
  Height = 3
  Advance = 2
  Line = 2
  Stray = {1, 65535}
  MaxKeys = 3
INVARIANT InterruptsServed
INVARIANT ScreenKept
INVARIANT ShiftHeld
PROPERTY AllUp
CHECK_DEADLOCK FALSE
