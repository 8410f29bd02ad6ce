CONSTANTS
  f1 = f1
  f2 = f2
  Flushers = {f1, f2}
  MaxRequests = 3
  MaxVersion = 2
  t1 = t1
  t2 = t2
  t3 = t3
  Threads = {t1, t2, t3}
  MaxIds = 6
  N = 4
  Key <- AliasKey
  Threshold = 2
  Silent = {1, 2, 3}
  RoundBudget = 1
  RecentCap = 2
  MaxSwitches = 1
  MaxChanges = 3
  MaxBuildFailures = 1
  EarlySwitch = FALSE
  Texts <- MCTexts
  Kind <- MCKind
  Mode <- MCMode
  NeedsRestart = {"c2"}
  First = "c1"
  MaxEdits = 3
  StartupEdits = FALSE
  None = None
  c1 = c1
  c2 = c2
  Callers = {c1, c2}
  q1 = q1
  q2 = q2
  q3 = q3
  q4 = q4
  Connections = {q1, q2, q3, q4}
  RetireAfter = 1
  MaxTime = 2
SPECIFICATION EngineSpec
INVARIANTS FlushBarrier 
PROPERTIES CallsReturn TrailingChangeSaved Atomic SwitchEarned   RequestsEnd
CHECK_DEADLOCK FALSE
