SPECIFICATION IngestSpec
CONSTANTS
  i1 = i1
  i2 = i2
  f = f
  g = g
  Int64 = Int64
  String = String
  Ours = Ours
  Fields = {f, g}
  Types = {Int64, String}
  Ingesters = {i1}
  Batches <- OneClient
  Reloaders = {}
  AlwaysAddColumnLimit = 2
  SkipUnknownFields = TRUE
  Paced = FALSE
  MaxFailures = 1
  NumFields = 3
  BaseColumns = 2
  Untyped <- FirstField
  Always <- NoFields
  PromotionLimit = 3
  AlterColumnUpperLimit = 3
  FieldFrequency = 2
  OtherTables = TRUE
  Focuses = {"tables", "promotion"}
CHECK_DEADLOCK FALSE
INVARIANT AcknowledgedIsComplete
