SPECIFICATION FairSpec
CONSTANTS
  Requests = {r1}
  Notes = {n1}
  Gated = {n1}
  Server = Server
  Nobody = Nobody
  MayPanic = {r1}
  NotificationBuffer = 1
  OutboundBuffer = 1
INVARIANTS
  CancelSuppresses
  GatedAfterInitialize
PROPERTIES
  DrainLeavesNothing
  DrainEnds
  StopEnds
  Answered
CHECK_DEADLOCK FALSE
