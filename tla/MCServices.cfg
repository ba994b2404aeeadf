SPECIFICATION ServicesSpec
CONSTANTS
  a = a
  b = b
  x = x
  Topics = {a, b, x}
  Configured = {a, b}
  Keys = {1, 2, 3, 4, 5}
  Sources <- MCSources
  HighWaterMark = 4
  c1 = c1
  c2 = c2
  Callers = {c1, c2}
  Margin = 1
  MaxTime = 3
  MaxIssued = 2
  Responses <- MCResponses
CHECK_DEADLOCK FALSE
INVARIANTS
  AckedIsStored
  EveryChunkAccounted
  OrderedUntilError
  PreviousIsConservative
PROPERTIES
  CallbackAlwaysCalled
  HeaderNoOlderThanAtCall
  HeldUpByOwnExchangeOnly
