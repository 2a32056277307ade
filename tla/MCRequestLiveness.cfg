SPECIFICATION FairSpec
CONSTANTS
  Requests = {r1, r2}
  Nobody = Nobody
  MaxId = 2
  MaxConnections = 1
PROPERTIES
  DeadlineSettles
  ShutdownWakes
  AbandonedIsTold
CHECK_DEADLOCK FALSE
