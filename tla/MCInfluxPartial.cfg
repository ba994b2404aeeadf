SPECIFICATION FairSpec
CONSTANTS
  t1 = t1
  t2 = t2
  Trackers = {t1, t2}
  BATCH_SIZE_LIMIT = 3
  MAX_NUMBER_OF_ATTEMPTS = 1
  ONE_SECOND = 1
  MAX_TIMEOUT = 2147483
  MaxPoints = 4
PROPERTIES
  PointStoredOrLogged
CHECK_DEADLOCK FALSE
