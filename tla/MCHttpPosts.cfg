SPECIFICATION Spec
CONSTANTS
  r1 = r1
  r2 = r2
  n1 = n1
  x = x
  here = here
  there = there
  Client = {here, there}
  Caller <- Tasks
  ClientOf <- Clients
  Lone = here
  MaxToken = 3
  MaxFaults = 1
  Request = {r1}
  Note = {n1}
  Permits = 1
  UseOAuth = TRUE
INVARIANTS SpentOnce RetryHasNewToken
PROPERTIES NeverOlder
CHECK_DEADLOCK FALSE
