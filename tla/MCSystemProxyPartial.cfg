CONSTANTS
  UserSettings <- OffWithAddress
  Instances = {1}
  Ports = {"a"}
  MaxFailures = 2
  MaxUserChanges = 0
  ProxyKills = 1
  PartialWrites = TRUE
  Repoint = FALSE
SPECIFICATION ProxySpec
INVARIANTS NothingLeftBehind
CHECK_DEADLOCK FALSE
