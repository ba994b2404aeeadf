SPECIFICATION FairSpec
CONSTANTS
  c1 = c1
  c2 = c2
  Callers = {c1, c2}
  NoFlight = NoFlight
  Margin = 1
  MaxTime = 3
  MaxIssued = 3
  Responses <- MCResponses
INVARIANTS
  TypeOK
  NoOrphans
  ExpiryIsConservative
  CachedTokenIsAlive
PROPERTIES
  TokenNeverGoesBack
  EveryCallerAnswered
  ImplementsTokenSource
