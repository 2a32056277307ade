CONSTANTS
  i1 = i1
  c1 = c1
  k1 = k1
  n1 = n1
  Nobody = Nobody
  Inits <- MCInits
  Calls <- MCCalls
  Cancels <- NoCancels
  Notes <- NoNotes
  Target <- NoTarget
  MaxSessions = 1
  IncomingBuffer = 1
  Embedded = FALSE
SPECIFICATION FairSpec
PROPERTY EndedSessionReleases
CHECK_DEADLOCK FALSE
