CONSTANTS
  p1 = p1
  p2 = p2
  Proc = {p1, p2}
  Images <- MCImages
  Inner <- MCInner
  ProgPath <- MCProgPath
  Paths <- MCPaths
  Hidden = {".h"}
  LookupNames <- MCLookupNames
  Sizes = {3}
  PageSize = 4
  MaxCalls = 4
  MaxNodes = 5
  MaxDesc = 7
  MaxOffset = 6
  MaxTty = 3
  NFrames = 7
SPECIFICATION Spec
INVARIANT CreatedWhereNamed
CHECK_DEADLOCK FALSE
