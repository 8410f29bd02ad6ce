CONSTANTS
  Procs = {1}
  Nodes = {"a", "b"}
  FirstNode = "a"
  Privileges <- FirstPrivileged
  BypassBudget = 2
  MaxAttempts = 1
  MaxSwitches = 1
  MaxKills = 0
SPECIFICATION Spec
INVARIANT TeardownComplete
CHECK_DEADLOCK FALSE
