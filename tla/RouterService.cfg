CONSTANTS
  Faults = {"crash"}
  MaxFaults = 1
  Requests = {"restart"}
  MaxRequests = 1
  Strikes = 3
  CleanupFails = FALSE
SPECIFICATION ServiceSpec
PROPERTY Heals
CHECK_DEADLOCK FALSE
