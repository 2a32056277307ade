CONSTANTS
  i1 = i1
  c1 = c1
  k1 = k1
  n1 = n1
  Nobody = Nobody
  Inits <- MCInits
  Calls <- MCCalls
  Cancels <- MCCancels
  Notes <- MCNotes
  Target <- MCTarget
  MaxSessions = 1
  IncomingBuffer = 1
  Embedded = FALSE
SPECIFICATION FairSpec
INVARIANTS
  FailedInitLeavesNothing
  GoneForGood
PROPERTIES
  AnsweredOrEnded
  RemovedSessionEnds
CHECK_DEADLOCK FALSE
