SPECIFICATION Spec
SYMMETRY Slots
CONSTANTS
  p0 = p0
  p1 = p1
  p2 = p2
  p3 = p3
  t0 = t0
  t1 = t1
  t2 = t2
  t3 = t3
  Proc = {p0, p1, p2, p3}
  Thread = {t0, t1, t2, t3}
  init_process = p0
  init_thread = t0
  Null = Null
  NIds = 3
  OverridePid = 2
  OverrideTid = 2
  MaxForks = 1
INVARIANTS TypeOK LockHolders InOnePlace NoThreadLost ResumesOwn TidsUnique PidsUnique ListedWhileScheduled
CHECK_DEADLOCK FALSE
