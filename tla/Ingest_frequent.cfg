SPECIFICATION IngestSpec
CONSTANTS
  i1 = i1
  i2 = i2
  f = f
  g = g
  Int64 = Int64
  String = String
  Ours = Ours
  Fields = {f, g}
  Types = {Int64}
  Ingesters = {i1, i2}
  Batches <- TwoClients
  Reloaders = {r1}
  AlwaysAddColumnLimit = 9
  SkipUnknownFields = TRUE
  Paced = FALSE
  MaxFailures = 0
  NumFields = 3
  BaseColumns = 2
  Untyped <- NoFields
  Always <- NoFields
  PromotionLimit = 2
  AlterColumnUpperLimit = 4
  FieldFrequency = 2
  OtherTables = FALSE
  Focuses = {"tables", "promotion"}
CHECK_DEADLOCK FALSE
INVARIANT OnlyFrequentFieldsPromoted
