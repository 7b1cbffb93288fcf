SPECIFICATION BackgroundSpec
CONSTANTS
  Results = 5
  Collectors = {1, 2}
  QueueCap = 1
  ReceiveCap = 1
  ErrorCap = 1
  MaxTicks = 2
  MaxMessages = 3
  Sizes = {1, 2, 5}
  InitialSize = 3
  MaxSize = 6
  ChannelSize = 2
  MaxFailures = 2
  MaxFlushes = 1
  Connectors <- Backends
  Unresolved = {"broken"}
  Operations = {"index", "delete"}
  MaxEntries = 2
  Ids = {"i1", "i2", "i3"}
  Pushes <- AllPushes
  MaxLast = 2
  MaxLogs = 1
  PushCap = 1
  LogCap = 1
  MatcherCap = 1
  Debug = TRUE
  Callers = {"c1", "c2", "c3"}
  AgentOf <- TwoAgents
  Durations = {1, 3}
  Thresholds = {2}
  PoolSize = 2
  Percentiles = {5, 50, 95}
  SampleCap = 1
  AgentCap = 1
  TopAgents = 1
  MaxReports = 1
  Reports <- MCReports
  MaxNesting = 3
  Values <- ValuesRead
  Places <- SixPlaces
INVARIANTS
  SenderFollows
  ComparesBoth
  DifferencesAreFound
  LogsAreAccountedFor
  BulkAnswersInPlace
  ConsoleRemembers
  ReportsAreExact
PROPERTIES
  EverybodyGoesOn
CHECK_DEADLOCK FALSE
