SPECIFICATION FairSpec
CONSTANTS
  Partitions = {0, 1}
  InitialLog <- OneSingle
  FirstOffset <- NoneTrimmed
  Faults = {}
  BufferSize = 2
  MaxLog = 2
CHECK_DEADLOCK FALSE
PROPERTY EndsOnceConsumed
