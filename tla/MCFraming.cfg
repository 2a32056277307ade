SPECIFICATION Spec
CONSTANTS
  MaxFrame = 3
  MaxStream = 7
INVARIANTS
  FramesAreLines
  NothingHeld
  EncodedNeverSevers
CHECK_DEADLOCK FALSE
