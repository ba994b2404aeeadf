SPECIFICATION ToolsSpec
CONSTANTS
  Byte = 4
  Bytes = 3
  Finer = 100
  Places <- MCPlaces
  Precision = 1000
  DayMs = 4
  MaxMs = 16
  Items <- MCItems
  Names <- MCNames
  Texts <- MCTexts
  Calls <- MCCalls
  Listed <- MCListed
  Searches <- MCSearches
  VersionIds <- MCVersionIds
  c1 = c1
  c2 = c2
  c3 = c3
  api = api
  other = other
  None = None
  Clients = {c1, c2, c3}
  Requests <- MCRequests
  Text <- MCText
  MaxAges = {1}
  PostMaxAges <- MCPostMaxAges
  Layers = 2
  Second = 3
  Instants = {0, 1, 3}
  MaxPosts = 1
  MaxSets = 2
  MaxAgain = 1
SYMMETRY ClientSymmetry
CHECK_DEADLOCK FALSE
INVARIANTS
  ConversionsKeepValues
  TelemetryAccounted
  LoggingIsDiscreet
  SettingsComeResolved
  CommandsAreComplete
  AnswersTheRequest
  AnswerWasCurrent
PROPERTIES
  ExitsUnlessKafkaFails
