SPECIFICATION FairSpec
CONSTANTS
  r1 = r1
  r2 = r2
  n1 = n1
  x = x
  here = here
  there = there
  Client = {here}
  Caller = {}
  ClientOf <- NoTask
  Lone = here
  MaxToken = 1
  MaxFaults = 0
  Request = {r1, r2}
  Note = {n1}
  Permits = 1
  UseOAuth = FALSE
PROPERTY NeverStuck
CHECK_DEADLOCK FALSE
