SPECIFICATION Spec
CONSTANTS
  Requests = {r1, r2}
  Nobody = Nobody
  MaxId = 2
  MaxConnections = 2
SYMMETRY Symmetry
INVARIANTS
  NoSlotLeaks
  NoOrphanedWait
  AnswersItsRequest
  NoticeFollowsRequest
PROPERTY
  ImplementsLifecycle
CHECK_DEADLOCK FALSE
