SPECIFICATION Spec
CONSTANTS
  p0 = p0
  p1 = p1
  p2 = p2
  t0 = t0
  t1 = t1
  t2 = t2
  Proc = {p0, p1, p2}
  Thread = {t0, t1, t2}
  init_process = p0
  init_thread = t0
  Null = Null
  NIds = 3
  OverridePid = 2
  OverrideTid = 2
  MaxForks = 1
INVARIANT FreedNeverQueued
CHECK_DEADLOCK FALSE
