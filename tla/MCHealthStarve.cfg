CONSTANTS
  N = 4
  Key <- DistinctKey
  Threshold = 1
  Silent = {1, 2, 3, 4}
  RoundBudget = 1
  RecentCap = 2
  MaxSwitches = 1
  MaxChanges = 3
  MaxBuildFailures = 1
  EarlySwitch = FALSE
SPECIFICATION HealthFairSpec
PROPERTIES FailsOver
CHECK_DEADLOCK FALSE
