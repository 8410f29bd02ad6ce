CONSTANTS
  Procs = {1, 2}
  Instances = {1, 2}
  Nodes = {"a", "b"}
  FirstNode = "a"
  Privileges <- FirstPrivileged
  BypassBudget = 2
  MaxAttempts = 2
  MaxSwitches = 1
  MaxKills = 2
  UserSettings <- OffOrOn
  Ports = {"a", "b"}
  MaxFailures = 1
  MaxUserChanges = 1
  ProxyKills = 1
  PartialWrites = FALSE
  Repoint = FALSE
SPECIFICATION DesktopSpec
INVARIANTS NothingLeftBehind 
PROPERTIES LiveProxyKept LiveTunKept DeadOwnerCleared DeadTunCleared
CHECK_DEADLOCK FALSE
