SPECIFICATION FairSpec
CONSTANTS
  N = 3
  Messages = 6
  HighWaterMark = 3
CHECK_DEADLOCK FALSE
INVARIANTS
  EveryMessageOnce
  BackpressureKept
  OvertakenOnlyAfterError
PROPERTIES
  PipelineProceeds
