CONSTANTS
  p1 = p1
  p2 = p2
  p3 = p3
  Procs = {p1, p2, p3}
  MaxDeaths = 0
  None = None
SPECIFICATION LockSpec
INVARIANT Exclusive
CHECK_DEADLOCK FALSE
