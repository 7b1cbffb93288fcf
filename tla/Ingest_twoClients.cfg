SPECIFICATION IngestFairSpec
CONSTANTS
  i1 = i1
  i2 = i2
  f = f
  g = g
  Int64 = Int64
  String = String
  Ours = Ours
  Fields = {f, g}
  Types = {Int64}
  Ingesters = {i1, i2}
  Batches <- TwoClients
  Reloaders = {r1, r2}
  AlwaysAddColumnLimit = 9
  SkipUnknownFields = TRUE
  Paced = TRUE
  MaxFailures = 0
  NumFields = 4
  BaseColumns = 2
  Untyped <- NoFields
  Always <- LastField
  PromotionLimit = 3
  AlterColumnUpperLimit = 5
  FieldFrequency = 3
  OtherTables = FALSE
  Focuses = {"tables", "promotion"}
CHECK_DEADLOCK FALSE
PROPERTIES EveryIngestAnswered MemoryConverges PresentBecomesColumn
