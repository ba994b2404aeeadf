SPECIFICATION FairSpec
CONSTANTS
  p1 = p1
  p2 = p2
  c1 = c1
  c2 = c2
  orders = orders
  bills = bills
  v1 = v1
  v2 = v2
  old1 = old1
  old2 = old2
  broken = broken
  x = x
  y = y
  Foreign = Foreign
  Producers = {p1, p2}
  Consumers = {c1, c2}
  Subjects = {orders, bills}
  Schemas = {v1, v2, old1, old2, broken}
  Malformed = {broken}
  Values = {x, y}
  Encodes <- MCEncodes
  Requests <- MCRequests
  IdBits = 3
  Starts <- MCStarts
  HighWaterMark = 2
  MaxDeletes = 1
CHECK_DEADLOCK FALSE
INVARIANTS
  EncodedAsRegistered
  WholeRequestsOnly
PROPERTIES
  EverythingSettles
  ImplementsChannel
