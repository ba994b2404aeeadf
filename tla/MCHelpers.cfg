SPECIFICATION Spec
CONSTANTS
  Byte = 4
  Bytes = 3
  Finer = 100
  Places <- MCPlaces
  Precision = 1000
  DayMs = 4
  MaxMs = 16
  Items <- MCItems
  Names <- MCNames
  Texts <- MCTexts
  Calls <- MCCalls
  Listed <- MCListed
  Searches <- MCSearches
  VersionIds <- MCVersionIds
CHECK_DEADLOCK FALSE
INVARIANT ItemsAreTargeted
