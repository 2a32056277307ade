SPECIFICATION FairSpec
CONSTANTS
  Id = {i1}
  MaxConns = 2
  MaxInits = 2
  MaxInbox = 1
INVARIANTS
  OkMeansConnected
  FailedHandshakeLeavesNothing
  NoResponseAfterCancel
PROPERTIES
  HandshakeEnds
  DisconnectReleases
