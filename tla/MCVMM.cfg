CONSTANTS
  p1 = p1
  p2 = p2
  p3 = p3
  Proc = {p1, p2, p3}
  NFrames = 34
  Fan = 2
  PageSize = 2
  Programs <- MCPrograms
  UserStack = 6
  StackPages = 2
  MaxStarts = 2
SYMMETRY Sym
SPECIFICATION Spec
INVARIANTS TypeOK OwnMemory StrayPages FramesAccounted ArgsOnOwnStack
CHECK_DEADLOCK FALSE
