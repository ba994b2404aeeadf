SPECIFICATION Spec
CONSTANTS
  N = 2
  Messages = 2
  HighWaterMark = 2
CHECK_DEADLOCK FALSE
INVARIANTS
  ErrorsReachTheHandler
