SPECIFICATION MetadataFairSpec
CONSTANTS
  l1 = l1
  l2 = l2
  Loops = {l1, l2}
  Readers = {"registry", "resolver", "client"}
  CommonTable = "common"
  Databases <- SmallDatabases
  Ingested <- WrittenTables
  Configured <- ConfiguredTables
  Ignored <- IgnoredColumns
  Unresolved <- OddColumns
  MaxEvents = 2
  MaxMessages = 1
  Finder = "registry"
  Indexes <- OneIndex
  Fields <- TwoFields
  Encode <- Encoding
  Overrides <- Override
  TypeOf <- Types
  GeoParts <- Geo
  Mappings <- OneMapping
  Resolver = "resolver"
  IndexConfig <- IndexConfiguration
  DefaultTargets <- Defaults
  CommonForWildcard = TRUE
  Internal <- KibanaIndexes
  Patterns <- SomePatterns
  ElasticIndexes <- InElastic
  MaxDecisions = 1
CHECK_DEADLOCK FALSE
INVARIANTS SchemasAreCurrent DecisionsAreCurrent DecisionIgnoresOrder
PROPERTIES ReadersAreServed TablesConverge
