--------------------------- MODULE ColumnPromotion ---------------------------
(***************************************************************************)
(* Which new fields become columns: shouldAlterColumns and the selection   *)
(* in generateNewColumns of quesma/ingest/processor.go.                    *)
(*                                                                         *)
(* Below alwaysAddColumnLimit columns every field does.  Above it fields   *)
(* are counted, and those present in FieldFrequency documents are to       *)
(* become columns; the counts restart every alwaysAddColumnLimit           *)
(* documents.  The counter that restarts them is shared by all tables.     *)
(*                                                                         *)
(* Fields are numbers: their order is the one of BuildAttrsMap, by name.   *)
(***************************************************************************)
EXTENDS Naturals, FiniteSets, Sequences, SequencesExt

CONSTANTS NumFields,
          BaseColumns,     \* columns that are not among the fields
          Untyped,         \* fields whose values have no ClickHouse type (null)
          Always,          \* fields that are in every document
          PromotionLimit,  \* alwaysAddColumnLimit
          AlterColumnUpperLimit, FieldFrequency,
          OtherTables      \* whether other tables are ingested into as well

FieldNumbers == 1 .. NumFields

ASSUME ColumnPromotionAssumption ==
  /\ NumFields \in Nat \ {0} /\ BaseColumns \in Nat
  /\ Untyped \subseteq FieldNumbers /\ Always \subseteq FieldNumbers
  /\ PromotionLimit \in Nat \ {0}
  /\ AlterColumnUpperLimit \in Nat /\ FieldFrequency \in Nat \ {0}
  /\ OtherTables \in BOOLEAN

VARIABLES
  cols,       \* fields that are columns of the table
  counter,    \* ingestCounter, saturated at PromotionLimit
  statistics, \* ingestFieldStatistics of the table
  frequent,   \* what shouldAlterColumns chose for the last document
  added,      \* what generateNewColumns added for it
  recent      \* history: the fields counted for the last documents

promotionVars == <<cols, counter, statistics, frequent, added, recent>>

NoStatistics == [f \in FieldNumbers |-> 0]
NumColumns   == BaseColumns + Cardinality(cols)
Least(a, b)  == IF a < b THEN a ELSE b

\* One iteration of statistics, and the documents that can fall into it.
Window == PromotionLimit + 1

PromotionInit ==
  /\ cols \in SUBSET (FieldNumbers \ Untyped)
  /\ counter = 0 /\ statistics = NoStatistics
  /\ frequent = {} /\ added = {}
  /\ recent = <<>>

\* The n-th in order has n that are not after it.
InOrder(S) ==
  [n \in 1 .. Cardinality(S) |->
     CHOOSE f \in S : Cardinality({g \in S : g <= f}) = n]

\* The fields of a document that are not columns, by name.
AttrKeys(doc) == InOrder(doc \ cols)

-----------------------------------------------------------------------------
\* Mutants: statistics restart with every field; they never restart.
RestartAlways(s, f) ==
  [stats   |-> NoStatistics, counter |-> 0,
   chosen  |-> IF s.stats[f] + 1 >= FieldFrequency THEN s.chosen \union {f} ELSE s.chosen]

NeverRestart(s, f) ==
  [stats   |-> [s.stats EXCEPT ![f] = Least(@ + 1, FieldFrequency)],
   counter |-> s.counter,
   chosen  |-> IF s.stats[f] + 1 >= FieldFrequency THEN s.chosen \union {f} ELSE s.chosen]

\* One iteration of the loop over the attributes: the field is counted, the
\* statistics restart, also in the middle of a document.
CountField(s, f) ==
  LET restart == s.counter >= PromotionLimit
  IN  [stats   |-> IF restart THEN NoStatistics ELSE [s.stats EXCEPT ![f] = @ + 1],
       counter |-> IF restart THEN 0 ELSE s.counter,
       chosen  |-> IF s.stats[f] + 1 >= FieldFrequency
                   THEN s.chosen \union {f} ELSE s.chosen]

\* The loop: the statistics after a document, and the fields it chooses.
Counted(keys) ==
  LET after[n \in 0 .. Len(keys)] ==
        IF n = 0
        THEN [stats   |-> statistics,
              counter |-> Least(counter + 1, PromotionLimit),
              chosen  |-> {}]
        ELSE CountField(after[n - 1], keys[n])
  IN  after[Len(keys)]

\* There are too many columns to add any.
TooMany(n) == n > AlterColumnUpperLimit

\* generateNewColumns ranges over the positions in the list it was given and
\* not over the list: it adds as many fields as were chosen, the first ones.
AddedOf(keys, chosen) ==
  {keys[n] : n \in 1 .. Cardinality(chosen)} \ Untyped

\* Every field has a column already: nothing is counted.
Known(doc) ==
  /\ doc \subseteq cols
  /\ UNCHANGED promotionVars

AddAll(doc) ==
  LET keys == AttrKeys(doc)
  IN  /\ keys # <<>> /\ NumColumns < PromotionLimit
      /\ counter'  = Least(counter + 1, PromotionLimit)
      /\ frequent' = ToSet(keys)
      /\ added'    = AddedOf(keys, ToSet(keys))
      /\ cols'     = cols \union added'
      /\ UNCHANGED <<statistics, recent>>

AddNone(doc) ==
  /\ AttrKeys(doc) # <<>>
  /\ NumColumns >= PromotionLimit /\ TooMany(NumColumns)
  /\ counter' = Least(counter + 1, PromotionLimit)
  /\ frequent' = {} /\ added' = {}
  /\ UNCHANGED <<cols, statistics, recent>>

Remember(fields) ==
  recent' = IF Len(recent) = Window THEN Append(Tail(recent), fields)
            ELSE Append(recent, fields)

AddFrequent(doc) ==
  LET keys == AttrKeys(doc)
      s    == Counted(keys)
  IN  /\ keys # <<>>
      /\ NumColumns >= PromotionLimit /\ ~TooMany(NumColumns)
      /\ statistics' = s.stats /\ counter' = s.counter
      /\ frequent' = s.chosen
      /\ added'    = AddedOf(keys, s.chosen)
      /\ cols'     = cols \union added'
      /\ Remember(ToSet(keys))

\* A document of another table moves the same counter, and restarts all
\* statistics when the time has come.
OtherTable ==
  /\ OtherTables
  /\ IF counter + 1 >= PromotionLimit
     THEN counter' = 0 /\ statistics' = NoStatistics
     ELSE counter' = counter + 1 /\ UNCHANGED statistics
  /\ frequent' = {} /\ added' = {}
  /\ Remember({})
  /\ UNCHANGED cols

Promote(doc) == Known(doc) \/ AddAll(doc) \/ AddNone(doc) \/ AddFrequent(doc)

DocumentsOf == {doc \in SUBSET FieldNumbers : Always \subseteq doc /\ doc # {}}

PromotionNext == (\E doc \in DocumentsOf : Promote(doc)) \/ OtherTable

PromotionSpec == PromotionInit /\ [][PromotionNext]_promotionVars

\* Documents keep coming; those that bring nothing new change nothing.
PromotionFairSpec == PromotionSpec /\ WF_promotionVars(PromotionNext)

-----------------------------------------------------------------------------
\* A field is chosen only if FieldFrequency of the documents of one iteration
\* had it: restarts, also in the middle of a document, and documents of other
\* tables count no document twice (shouldAlterColumns).
ChosenWereFrequent ==
  NumColumns - Cardinality(added) >= PromotionLimit =>
    \A f \in frequent :
      Cardinality({n \in DOMAIN recent : f \in recent[n]}) >= FieldFrequency

\* What becomes a column above the limit is what is frequent
\* (generateNewColumns with the indexes of shouldAlterColumns).
OnlyFrequentFieldsPromoted == added \subseteq frequent

\* A field that is in every document becomes a column, unless there are too
\* many: restarts of the statistics do not put it off for ever.
PresentIsPromoted == <>(Always \subseteq cols \/ TooMany(NumColumns))
=============================================================================
