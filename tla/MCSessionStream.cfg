CONSTANTS
  ReplayCapacity = 2
  StreamCapacity = 2
  WireCapacity = 1
  MaxEvents = 4
  MaxStreams = 10
  MaxFailures = 2
SPECIFICATION StreamFairSpec
INVARIANTS
  InOrderOnce
  NoSilentLoss
PROPERTY CatchesUp
CHECK_DEADLOCK FALSE
