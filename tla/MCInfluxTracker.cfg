SPECIFICATION FairSpec
CONSTANTS
  t1 = t1
  t2 = t2
  Trackers = {t1, t2}
  BATCH_SIZE_LIMIT = 2
  MAX_NUMBER_OF_ATTEMPTS = 15
  ONE_SECOND = 1
  MAX_TIMEOUT = 2147483
  MaxPoints = 5
CHECK_DEADLOCK FALSE
INVARIANTS
  Partitioned
  FillerDelivers
  StoredIsDelivered
  BackoffDoubles
PROPERTIES
  FullBatchSettles
