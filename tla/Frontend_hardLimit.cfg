SPECIFICATION FrontendSpec
CONSTANTS
  s1 = s1
  s2 = s2
  s3 = s3
  Searches = {s1, s2, s3}
  Plan <- MCPlan
  MaxParallelQueries = 3
  r1 = r1
  r2 = r2
  r3 = r3
  alice = alice
  NoHeader = NoHeader
  Requests = {r1, r2, r3}
  Headers = {alice}
  HeaderOf <- OneAnonymous
  Limit = 1
  DisableAuth = FALSE
  Null = Null
  Files <- FilesRead
  SomeRequests <- RequestsSent
  Patterns <- NamesAndPatterns
  AsyncIds = {"quesma_1"}
  KibanaNames = {".kibana"}
  CommonTable = "quesma_common"
  PatternNames = {"*", "a*"}
  Alphabet <- SomeWords
  Numerals <- SomeNumbers
  Menu <- Answerable
INVARIANT HardLimit
