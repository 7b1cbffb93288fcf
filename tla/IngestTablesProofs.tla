--------------------------- MODULE IngestTablesProofs ---------------------------
(***************************************************************************)
(* Proofs about IngestTables for any fields, types, batches and limits:    *)
(* how often a batch is inserted, whoever ingests, reloads or fails, and   *)
(* which fields of a document can be lost on the way, and why.  And about  *)
(* ColumnPromotion: what is chosen to become a column was frequent.        *)
(***************************************************************************)
EXTENDS IngestTables, ColumnPromotion, FiniteSetTheorems, SequenceTheorems,
        NaturalsInduction, WellFoundedInduction, TLAPS

-----------------------------------------------------------------------------
(* Lemmas about columns and documents: partial functions to types.         *)

\* The columns of a table in ClickHouse, with or without ours.
TableColumns == Columns(Fields \union {Ours})

LEMMA ColumnsAre ==
  ASSUME NEW F, NEW c
  PROVE  c \in Columns(F) <=> c \in [DOMAIN c -> Types] /\ DOMAIN c \subseteq F
BY DEF Columns

LEMMA DocumentsAreColumns == Documents \subseteq TableColumns
BY DEF Documents, TableColumns, Columns

LEMMA NoColumnsType ==
  /\ NoColumns \in Documents /\ NoColumns \in TableColumns /\ DOMAIN NoColumns = {}
  /\ OurColumns \in TableColumns
<1> DEFINE t == CHOOSE t \in Types : TRUE
<1>1. t \in Types
  BY IngestTablesAssumption
<1> HIDE DEF t
<1>2. /\ NoColumns = [f \in {} |-> t] /\ DOMAIN NoColumns = {} /\ NoColumns \in [{} -> Types]
      /\ OurColumns = [f \in {Ours} |-> t] /\ DOMAIN OurColumns = {Ours}
      /\ OurColumns \in [{Ours} -> Types]
  BY <1>1 DEF NoColumns, OurColumns, t
<1>3. NoColumns \in Documents /\ NoColumns \in TableColumns /\ OurColumns \in TableColumns
  BY <1>2, ColumnsAre DEF Documents, TableColumns
<1> QED BY <1>2, <1>3

LEMMA RestrictType ==
  ASSUME NEW F, NEW c \in Columns(F), NEW S, S \subseteq DOMAIN c
  PROVE  Restrict(c, S) \in Columns(F) /\ DOMAIN Restrict(c, S) = S
<1>1. c \in [DOMAIN c -> Types] /\ DOMAIN c \subseteq F
  BY ColumnsAre
<1>2. DOMAIN Restrict(c, S) = S /\ Restrict(c, S) \in [S -> Types]
  BY <1>1 DEF Restrict
<1> QED BY <1>1, <1>2, ColumnsAre

LEMMA MergeType ==
  ASSUME NEW F, NEW c \in Columns(F), NEW d \in Columns(F)
  PROVE  Merge(c, d) \in Columns(F) /\ DOMAIN Merge(c, d) = DOMAIN c \union DOMAIN d
<1>1. /\ c \in [DOMAIN c -> Types] /\ DOMAIN c \subseteq F
      /\ d \in [DOMAIN d -> Types] /\ DOMAIN d \subseteq F
  BY ColumnsAre
<1>2. /\ DOMAIN Merge(c, d) = DOMAIN c \union DOMAIN d
      /\ Merge(c, d) \in [DOMAIN c \union DOMAIN d -> Types]
  BY <1>1 DEF Merge
<1> QED BY <1>1, <1>2, ColumnsAre

\* The parts of a document that are columns of a table, and the others.
LEMMA PartsType ==
  ASSUME NEW doc \in Documents, NEW present \in TableColumns
  PROVE  /\ DifferenceMap(doc, present) \in Documents
         /\ DOMAIN DifferenceMap(doc, present) = DOMAIN doc \ DOMAIN present
         /\ RemoveNonSchemaFields(doc, present) \in Documents
         /\ DOMAIN RemoveNonSchemaFields(doc, present) = DOMAIN doc \intersect DOMAIN present
BY RestrictType DEF DifferenceMap, RemoveNonSchemaFields, Documents

\* A new object can always be had: there is one for each ingester, and one more.
LEMMA FreeObject ==
  ASSUME NEW T \in [Ingesters -> Objects \union {NoTable}], NEW I \in SUBSET Ingesters,
         NEW X \in SUBSET Objects, IsFiniteSet(X),
         Cardinality(X) + Cardinality(I) <= Cardinality(Ingesters)
  PROVE  \E o \in Objects : o \notin X /\ \A i \in I : o # T[i]
<1> DEFINE used == {T[i] : i \in I}
<1>1. IsFiniteSet(I) /\ Cardinality(I) \in Nat /\ Cardinality(X) \in Nat
      /\ Cardinality(Ingesters) \in Nat
  BY IngestTablesAssumption, FS_Subset, FS_CardinalityType
<1>2. IsFiniteSet(used) /\ Cardinality(used) <= Cardinality(I)
  <2> DEFINE g == [i \in I |-> T[i]]
  <2>1. g \in Surjection(I, used)
    BY DEF Surjection
  <2> HIDE DEF g, used
  <2> QED BY <1>1, <2>1, FS_Surjection
<1> HIDE DEF used
<1>3. /\ IsFiniteSet(X \union used)
      /\ Cardinality(X \union used) <= Cardinality(X) + Cardinality(used)
  <2>1. /\ IsFiniteSet(X \union used)
        /\ Cardinality(X \union used)
             = Cardinality(X) + Cardinality(used) - Cardinality(X \intersect used)
    BY <1>2, FS_Union
  <2>2. Cardinality(X \intersect used) \in Nat /\ Cardinality(used) \in Nat
    BY <1>2, FS_CardinalityType, FS_Intersection
  <2> QED BY <1>1, <2>1, <2>2
<1>4. IsFiniteSet(Objects) /\ Cardinality(Objects) = Cardinality(Ingesters) + 1
  <2> DEFINE m == Cardinality(Ingesters) + 1
  <2>1. m \in Nat /\ m >= 1 /\ Objects = 1 .. m
    BY <1>1 DEF Objects
  <2> HIDE DEF m
  <2>2. IsFiniteSet(1 .. m) /\ Cardinality(1 .. m) = m
    BY <2>1, FS_Interval
  <2> QED BY <2>1, <2>2 DEF m
<1>5. ~(Objects \subseteq X \union used)
  BY <1>1, <1>2, <1>3, <1>4, FS_Subset, FS_CardinalityType
<1> QED BY <1>5 DEF used

-----------------------------------------------------------------------------
(* The invariant of every ingester by itself.                              *)

Row == [data : Documents, attributes : Documents]

AStatement == [kind : {"create", "alter", "insert"}, cols : TableColumns, rows : Seq(Row)]

Locals == [k : Nat \ {0}, valid : Seq(Documents), invalid : Seq(Documents),
           attrs : Documents, promoted : SUBSET Fields, copy : TableColumns,
           rows : Seq(Row), stmts : Seq(AStatement)]

Places == {"idle", "create", "publish", "decorate", "refind", "validate", "diff",
           "copy", "assign", "filter", "execute", "failed"}

Shape ==
  /\ db \in TableColumns
  /\ heap \in [Objects -> TableColumns] /\ published \in Objects \union {NoTable}
  /\ pc \in [Ingesters -> Places] /\ turn \in [Ingesters -> Nat \ {0}]
  /\ table \in [Ingesters -> Objects \union {NoTable}]
  /\ work \in [Ingesters -> Locals]
  /\ stored \in [Requests -> Seq(Seq(Row))] /\ lost \in [Requests -> Nat]
  /\ outcome \in [Requests -> {"pending", "acknowledged", "gaveUp"}]
  /\ snapshot \in [Reloaders -> [read : BOOLEAN, cols : TableColumns]]

HasTable(i) == pc[i] \in {"decorate", "refind", "validate", "diff", "copy", "assign", "filter"}

Placed(i) ==
  /\ pc[i] # "idle" => turn[i] \in 1 .. Len(Batches[i])
  /\ HasTable(i) => table[i] \in Objects

NoInsert(stmts) == \A n \in 1 .. Len(stmts) : stmts[n].kind # "insert"

\* An INSERT is the last statement, and the last statement is an INSERT.
InsertIsLast(stmts) ==
  \A n \in 1 .. Len(stmts) : stmts[n].kind = "insert" <=> n = Len(stmts)

\* How far the batch is: validated document by document, then made a row, then
\* the statements are executed.
InProgress(i) ==
  /\ pc[i] \in {"idle", "create", "publish", "decorate", "failed"} => work[i] = NoWork
  /\ pc[i] \in {"refind", "execute"} => work[i] = [NoWork EXCEPT !.stmts = work[i].stmts]
  /\ pc[i] \notin {"execute"} => NoInsert(work[i].stmts)
  /\ pc[i] = "execute" => InsertIsLast(work[i].stmts)
  /\ pc[i] = "validate" =>
       /\ work[i].k <= Len(Batch(i)) /\ work[i].rows = <<>>
       /\ Len(work[i].valid) = work[i].k - 1 /\ Len(work[i].invalid) = work[i].k - 1
  /\ pc[i] \in {"diff", "copy", "assign", "filter"} =>
       /\ work[i].k <= Len(Batch(i))
       /\ Len(work[i].valid) = Len(Batch(i)) /\ Len(work[i].invalid) = Len(Batch(i))
  /\ pc[i] \in {"copy", "assign"} => work[i].promoted \subseteq DOMAIN work[i].attrs

\* A request inserts its batch once, at its very end, beside the times its
\* answer was lost; one that has not begun inserts nothing.
CountsInsertions(i) ==
  \A n \in 1 .. Len(Batches[i]) :
    /\ n > turn[i] => Len(stored[<<i, n>>]) = 0
    /\ n < turn[i] => Len(stored[<<i, n>>]) <= 1 + lost[<<i, n>>]
    /\ n = turn[i] =>
         \/ Len(stored[<<i, n>>]) <= lost[<<i, n>>]
         \/ /\ pc[i] = "execute" /\ work[i].stmts = <<>>
            /\ Len(stored[<<i, n>>]) <= 1 + lost[<<i, n>>]

IngesterInv(i) == Placed(i) /\ InProgress(i) /\ CountsInsertions(i)

IngestInv == Shape /\ \A i \in Ingesters : IngesterInv(i)

-----------------------------------------------------------------------------
(* Lemmas about types.                                                     *)

LEMMA NoWorkType ==
  /\ NoWork \in Locals /\ NoInsert(NoWork.stmts)
  /\ NoWork.k = 1 /\ NoWork.valid = <<>> /\ NoWork.invalid = <<>>
  /\ NoWork.rows = <<>> /\ NoWork.stmts = <<>>
BY NoColumnsType DEF NoWork, Locals, NoInsert

LEMMA RequestsAre ==
  ASSUME NEW i \in Ingesters, NEW n \in 1 .. Len(Batches[i])
  PROVE  <<i, n>> \in Requests
BY DEF Requests

\* The batch of a request in progress, and the document it is at.
LEMMA BatchType ==
  ASSUME Shape, NEW i \in Ingesters, Placed(i), pc[i] # "idle"
  PROVE  /\ Request(i) \in Requests
         /\ Batch(i) \in Seq(Documents) /\ Len(Batch(i)) \in Nat \ {0}
         /\ work[i].k <= Len(Batch(i)) => Doc(i) \in Documents
         /\ Batch(i)[1] \in Documents
<1>1. turn[i] \in 1 .. Len(Batches[i])
  BY DEF Placed
<1>2. Request(i) \in Requests
  BY <1>1, RequestsAre DEF Request
<1>3. Batches[i] \in Seq(Seq(Documents) \ {<<>>})
  BY IngestTablesAssumption
<1>4. Batch(i) \in Seq(Documents) \ {<<>>}
  BY <1>1, <1>3 DEF Batch
<1>5. Len(Batch(i)) \in Nat \ {0}
  BY <1>4, EmptySeq
<1>6. work[i].k \in Nat \ {0}
  BY DEF Shape, Locals
<1>7. work[i].k <= Len(Batch(i)) => Doc(i) \in Documents
  <2> HIDE DEF Documents
  <2>1. \A n \in 1 .. Len(Batch(i)) : Batch(i)[n] \in Documents
    BY <1>4
  <2>2. work[i].k <= Len(Batch(i)) => work[i].k \in 1 .. Len(Batch(i))
    BY <1>5, <1>6
  <2> QED BY <2>1, <2>2 DEF Doc
<1>8. Batch(i)[1] \in Documents
  BY <1>4, <1>5
<1> QED BY <1>2, <1>4, <1>5, <1>7, <1>8

\* What an ingester does is its own business.
LEMMA OthersKeep ==
  ASSUME IngestInv, Shape', NEW i \in Ingesters, IngesterInv(i)',
         \A j \in Ingesters \ {i} :
           /\ pc'[j] = pc[j] /\ turn'[j] = turn[j] /\ work'[j] = work[j]
           /\ table'[j] = table[j]
           /\ \A n \in 1 .. Len(Batches[j]) :
                /\ stored'[<<j, n>>] = stored[<<j, n>>] /\ lost'[<<j, n>>] = lost[<<j, n>>]
  PROVE  IngestInv'
<1>1. ASSUME NEW j \in Ingesters, j # i
      PROVE  IngesterInv(j)'
  <2>1. IngesterInv(j)
    BY DEF IngestInv
  <2>2. /\ pc'[j] = pc[j] /\ turn'[j] = turn[j] /\ work'[j] = work[j] /\ table'[j] = table[j]
        /\ \A n \in 1 .. Len(Batches[j]) :
             /\ stored'[<<j, n>>] = stored[<<j, n>>] /\ lost'[<<j, n>>] = lost[<<j, n>>]
    BY <1>1
  <2>3. Placed(j)'
    BY <2>1, <2>2 DEF IngesterInv, Placed, HasTable
  <2>4. InProgress(j)'
    BY <2>1, <2>2 DEF IngesterInv, InProgress, Batch
  <2>5. CountsInsertions(j)'
    BY <2>1, <2>2 DEF IngesterInv, CountsInsertions
  <2> QED BY <2>3, <2>4, <2>5 DEF IngesterInv
<1> QED BY <1>1 DEF IngestInv

\* Nothing is inserted, and the request is not at its end.
LEMMA CountedKept ==
  ASSUME NEW i \in Ingesters, CountsInsertions(i), turn'[i] = turn[i], UNCHANGED <<stored, lost>>,
         ~(pc[i] = "execute" /\ work[i].stmts = <<>>)
  PROVE  CountsInsertions(i)'
BY DEF CountsInsertions

\* A step of an ingester that neither inserts nor ends its request.
LEMMA LocalStep ==
  ASSUME IngestInv, NEW i \in Ingesters, Shape', Placed(i)', InProgress(i)',
         ~(pc[i] = "execute" /\ work[i].stmts = <<>>), UNCHANGED <<turn, stored, lost>>,
         \A j \in Ingesters \ {i} : pc'[j] = pc[j] /\ work'[j] = work[j] /\ table'[j] = table[j]
  PROVE  IngestInv'
<1>1. CountsInsertions(i)
  BY DEF IngestInv, IngesterInv
<1>2. CountsInsertions(i)'
  BY <1>1, CountedKept
<1>3. IngesterInv(i)'
  BY <1>2 DEF IngesterInv
<1> QED BY <1>3, OthersKeep

-----------------------------------------------------------------------------
(* The steps of an ingester before it executes statements.                 *)

\* A request that fails forgets what it has built; what it has executed stays.
LEMMA FailStep ==
  ASSUME IngestInv, NEW i \in Ingesters, Fail(i), pc[i] # "idle",
         ~(pc[i] = "execute" /\ work[i].stmts = <<>>),
         UNCHANGED <<dbVars, memVars, snapshot, lost>>
  PROVE  IngestInv'
<1>1. /\ pc'[i] = "failed" /\ work'[i] = NoWork /\ table'[i] = NoTable /\ UNCHANGED <<turn, outcome>>
      /\ \A j \in Ingesters \ {i} : pc'[j] = pc[j] /\ work'[j] = work[j] /\ table'[j] = table[j]
  BY DEF Fail, Go, IngestInv, Shape
<1>2. Shape'
  BY NoWorkType DEF Fail, Go, IngestInv, Shape, Places, dbVars, memVars
<1>3. Placed(i)'
  BY <1>1 DEF IngestInv, IngesterInv, Placed, HasTable
<1>4. InProgress(i)'
  BY <1>1, NoWorkType DEF InProgress
<1> QED BY <1>1, <1>2, <1>3, <1>4, LocalStep DEF dbVars

LEMMA BeginStep ==
  ASSUME IngestInv, NEW i \in Ingesters, Begin(i)
  PROVE  IngestInv'
<1>1. Shape /\ IngesterInv(i) /\ pc[i] = "idle"
  BY DEF IngestInv, Begin
<1>2. /\ pc'[i] = (IF published = NoTable THEN "create" ELSE "validate")
      /\ table'[i] = published /\ work[i] = NoWork
      /\ UNCHANGED <<turn, work, outcome, db, stored, heap, published, snapshot, lost>>
      /\ \A j \in Ingesters \ {i} : pc'[j] = pc[j] /\ work'[j] = work[j] /\ table'[j] = table[j]
  BY <1>1 DEF Begin, Go, Shape, IngesterInv, InProgress, dbVars, memVars, faultVars
<1>3. Shape'
  BY <1>1 DEF Begin, Go, Shape, Places, dbVars, memVars, faultVars
<1>4. turn[i] \in 1 .. Len(Batches[i])
  BY <1>1, IngestTablesAssumption DEF Begin, Shape
<1>5. Placed(i)'
  BY <1>1, <1>2, <1>4 DEF Placed, HasTable, Shape
<1>6. Len(Batch(i)) \in Nat \ {0}
  <2>1. Batches[i] \in Seq(Seq(Documents) \ {<<>>})
    BY IngestTablesAssumption
  <2>2. Batch(i) \in Seq(Documents) \ {<<>>}
    BY <1>4, <2>1 DEF Batch
  <2> QED BY <2>2, EmptySeq
<1>7. Batch(i)' = Batch(i)
  BY <1>2 DEF Batch
<1>8. InProgress(i)'
  BY <1>2, <1>6, <1>7, NoWorkType DEF InProgress
<1> QED BY <1>1, <1>2, <1>3, <1>5, <1>8, LocalStep

LEMMA CreateTableStep ==
  ASSUME IngestInv, NEW i \in Ingesters, AlreadyExists(i) \/ CheckAbsent(i) \/ Refind(i)
  PROVE  IngestInv'
<1>1. Shape /\ IngesterInv(i)
  BY DEF IngestInv
<1>2. CASE AlreadyExists(i)
  BY <1>2, FailStep DEF AlreadyExists, dbVars, memVars, envVars, faultVars
<1>3. CASE CheckAbsent(i)
  <2>1. /\ pc[i] = "create" /\ pc'[i] = "publish"
        /\ UNCHANGED <<turn, table, work, outcome, db, stored, heap, published, snapshot, lost>>
        /\ \A j \in Ingesters \ {i} : pc'[j] = pc[j]
    BY <1>1, <1>3 DEF CheckAbsent, Go, Shape, dbVars, memVars, envVars, faultVars
  <2>2. Shape'
    BY <1>1, <1>3, <2>1 DEF CheckAbsent, Go, Shape, Places
  <2>3. Placed(i)' /\ InProgress(i)'
    BY <1>1, <2>1 DEF IngesterInv, Placed, HasTable, InProgress
  <2> QED BY <2>1, <2>2, <2>3, LocalStep
<1>4. CASE Refind(i) /\ published = NoTable
  BY <1>4, FailStep DEF Refind, dbVars, memVars, envVars, faultVars
<1>5. CASE Refind(i) /\ published # NoTable
  <2>1. /\ pc[i] = "refind" /\ pc'[i] = "validate" /\ table'[i] = published
        /\ UNCHANGED <<turn, work, outcome, db, stored, heap, published, snapshot, lost>>
        /\ \A j \in Ingesters \ {i} : pc'[j] = pc[j] /\ table'[j] = table[j]
    BY <1>1, <1>5 DEF Refind, Go, Shape, dbVars, memVars, envVars, faultVars
  <2>2. Shape'
    BY <1>1, <1>5, <2>1, ZenonT(60) DEF Refind, Go, Shape, Places
  <2>3. Placed(i)'
    BY <1>1, <1>5, <2>1 DEF IngesterInv, Placed, HasTable, Shape
  <2>4. Len(Batch(i)) \in Nat \ {0} /\ Batch(i)' = Batch(i)
    BY <1>1, <2>1, BatchType DEF IngesterInv, Batch
  <2>5. work[i] = [NoWork EXCEPT !.stmts = work[i].stmts] /\ NoInsert(work[i].stmts)
    BY <1>1, <2>1 DEF IngesterInv, InProgress
  <2>6. work[i].k = 1 /\ work[i].valid = <<>> /\ work[i].invalid = <<>> /\ work[i].rows = <<>>
    BY <2>5 DEF NoWork
  <2>7. InProgress(i)'
    BY <2>1, <2>4, <2>5, <2>6 DEF InProgress
  <2> QED BY <2>1, <2>2, <2>3, <2>7, LocalStep
<1> QED BY <1>2, <1>3, <1>4, <1>5

LEMMA FreshType ==
  ASSUME Shape, NEW i \in Ingesters
  PROVE  /\ Fresh(i) \in Objects /\ Fresh(i) # published
         /\ \A j \in Ingesters \ {i} : Fresh(i) # table[j]
<1> DEFINE X == {published} \ {NoTable}
<1>1. X \in SUBSET Objects /\ IsFiniteSet(X) /\ Cardinality(X) <= 1
  <2>1. IsFiniteSet({published}) /\ Cardinality({published}) = 1
    BY FS_Singleton
  <2>2. X \subseteq {published}
    OBVIOUS
  <2>3. X \subseteq Objects
    BY DEF Shape
  <2> HIDE DEF X
  <2> QED BY <2>1, <2>2, <2>3, FS_Subset
<1>2. Cardinality(Ingesters \ {i}) = Cardinality(Ingesters) - 1 /\ Cardinality(Ingesters) \in Nat
  BY IngestTablesAssumption, FS_RemoveElement, FS_CardinalityType
<1>3. Cardinality(X) \in Nat
  BY <1>1, FS_CardinalityType
<1> HIDE DEF X
<1>4. \E o \in Objects : o \notin X /\ \A j \in Ingesters \ {i} : o # table[j]
  <2>1. Cardinality(X) + Cardinality(Ingesters \ {i}) <= Cardinality(Ingesters)
    BY <1>1, <1>2, <1>3
  <2>2. table \in [Ingesters -> Objects \union {NoTable}]
    BY DEF Shape
  <2>3. Ingesters \ {i} \in SUBSET Ingesters
    OBVIOUS
  <2> QED BY <1>1, <2>1, <2>2, <2>3, FreeObject
<1>5. NoTable \notin Objects
  BY DEF Objects, NoTable
<1>6. \E o \in Objects : o # published /\ \A j \in Ingesters \ {i} : o # table[j]
  BY <1>4, <1>5 DEF X
<1> QED BY <1>6 DEF Fresh

LEMMA AddTableStep ==
  ASSUME IngestInv, NEW i \in Ingesters, AddTable(i)
  PROVE  IngestInv'
<1>1. Shape /\ IngesterInv(i) /\ pc[i] = "publish"
  BY DEF IngestInv, AddTable
<1>2. Fresh(i) \in Objects
  BY <1>1, FreshType
<1>3. Batch(i)[1] \in TableColumns
  BY <1>1, BatchType, DocumentsAreColumns DEF IngesterInv
<1>4. /\ pc'[i] = "decorate" /\ table'[i] = Fresh(i)
      /\ UNCHANGED <<turn, work, outcome, db, stored, snapshot, lost>>
      /\ \A j \in Ingesters \ {i} : pc'[j] = pc[j] /\ table'[j] = table[j]
  BY <1>1 DEF AddTable, Go, Shape, dbVars, envVars, faultVars
<1>5. heap' \in [Objects -> TableColumns] /\ published' \in Objects
  BY <1>1, <1>2, <1>3 DEF AddTable, Shape
<1>6. Shape'
  BY <1>1, <1>2, <1>4, <1>5 DEF AddTable, Go, Shape, Places
<1>7. Placed(i)' /\ InProgress(i)'
  BY <1>1, <1>2, <1>4 DEF IngesterInv, Placed, HasTable, InProgress
<1> QED BY <1>1, <1>4, <1>6, <1>7, LocalStep

LEMMA DecorateStep ==
  ASSUME IngestInv, NEW i \in Ingesters, Decorate(i)
  PROVE  IngestInv'
<1> DEFINE present == Merge(heap[table[i]], OurColumns)
           stmts == <<Statement("create", present, <<>>)>>
<1>1. Shape /\ IngesterInv(i) /\ pc[i] = "decorate"
  BY DEF IngestInv, Decorate
<1>2. table[i] \in Objects /\ work[i] = NoWork
  BY <1>1 DEF IngesterInv, Placed, HasTable, InProgress
<1>3. present \in TableColumns
  BY <1>1, <1>2, NoColumnsType, MergeType DEF Shape, TableColumns
<1> HIDE DEF present
<1>4. stmts \in Seq(AStatement) /\ NoInsert(stmts)
  BY <1>3 DEF Statement, AStatement, NoInsert
<1>5. /\ pc'[i] = "refind" /\ work'[i] = [NoWork EXCEPT !.stmts = stmts]
      /\ heap' = [heap EXCEPT ![table[i]] = present]
      /\ UNCHANGED <<turn, table, outcome, published, db, stored, snapshot, lost>>
      /\ \A j \in Ingesters \ {i} : pc'[j] = pc[j] /\ work'[j] = work[j]
  BY <1>1, <1>2 DEF Decorate, Go, Shape, dbVars, envVars, faultVars, present
<1> HIDE DEF stmts
<1>6. /\ work'[i] \in Locals /\ work'[i] = [NoWork EXCEPT !.stmts = work'[i].stmts]
      /\ work'[i].stmts = stmts
  BY <1>4, <1>5, NoWorkType DEF NoWork, Locals
<1>7. work' \in [Ingesters -> Locals] /\ heap' \in [Objects -> TableColumns]
  <2>1. DOMAIN work' = Ingesters /\ work' = [j \in Ingesters |-> work'[j]]
    BY <1>1 DEF Decorate, Shape
  <2>2. \A j \in Ingesters : work'[j] \in Locals
    BY <1>1, <1>5, <1>6 DEF Shape
  <2> QED BY <1>1, <1>3, <1>5, <2>1, <2>2 DEF Shape
<1>8. Shape'
  BY <1>1, <1>5, <1>7 DEF Decorate, Go, Shape, Places
<1>9. Placed(i)' /\ InProgress(i)'
  BY <1>1, <1>4, <1>5, <1>6 DEF IngesterInv, Placed, HasTable, InProgress
<1> QED BY <1>1, <1>5, <1>8, <1>9, LocalStep

LEMMA ValidateStep ==
  ASSUME IngestInv, NEW i \in Ingesters, Validate(i)
  PROVE  IngestInv'
<1>1. Shape /\ IngesterInv(i) /\ pc[i] = "validate"
  BY DEF IngestInv, Validate
<1>2. CASE published = NoTable
  BY <1>1, <1>2, FailStep DEF Validate, dbVars, memVars, envVars, faultVars
<1>3. CASE published # NoTable
  <2> DEFINE w == work[i]
             bad == Invalid(Doc(i), heap[published])
             fits == Restrict(Doc(i), DOMAIN Doc(i) \ bad)
             misfits == Restrict(Doc(i), bad)
             last == w.k = Len(Batch(i))
             new == [w EXCEPT !.valid = Append(@, fits), !.invalid = Append(@, misfits),
                              !.k = IF last THEN 1 ELSE @ + 1]
  <2>1. /\ w \in Locals /\ w.k <= Len(Batch(i)) /\ w.rows = <<>>
        /\ Len(w.valid) = w.k - 1 /\ Len(w.invalid) = w.k - 1 /\ NoInsert(w.stmts)
    BY <1>1 DEF IngesterInv, InProgress, Shape
  <2>2. Doc(i) \in Documents /\ Len(Batch(i)) \in Nat \ {0}
    BY <1>1, <2>1, BatchType DEF IngesterInv
  <2>3. fits \in Documents /\ misfits \in Documents
    <3>1. bad \subseteq DOMAIN Doc(i)
      BY DEF Invalid
    <3> HIDE DEF bad
    <3> QED BY <2>2, <3>1, RestrictType DEF Documents
  <2> HIDE DEF fits, misfits, bad
  <2>4. /\ new \in Locals /\ new.stmts = w.stmts /\ new.rows = <<>>
        /\ Len(new.valid) = w.k /\ Len(new.invalid) = w.k
        /\ new.k = IF last THEN 1 ELSE w.k + 1
    <3> DEFINE v == Append(w.valid, fits)
               x == Append(w.invalid, misfits)
               m == IF last THEN 1 ELSE w.k + 1
    <3>1. w.valid \in Seq(Documents) /\ w.invalid \in Seq(Documents) /\ w.k \in Nat \ {0}
      BY <2>1 DEF Locals
    <3>2. v \in Seq(Documents) /\ Len(v) = Len(w.valid) + 1
          /\ x \in Seq(Documents) /\ Len(x) = Len(w.invalid) + 1
      <4> HIDE DEF Documents
      <4> QED BY <2>3, <3>1
    <3>3. m \in Nat \ {0} /\ Len(v) = w.k /\ Len(x) = w.k
      BY <2>1, <3>1, <3>2
    <3>4. new = [w EXCEPT !.valid = v, !.invalid = x, !.k = m]
      OBVIOUS
    <3> HIDE DEF v, x, m, new
    <3>5. new \in Locals /\ new.stmts = w.stmts /\ new.rows = w.rows /\ new.valid = v
          /\ new.invalid = x /\ new.k = m
      BY <2>1, <3>2, <3>3, <3>4 DEF Locals
    <3> QED BY <2>1, <3>3, <3>5 DEF m
  <2>5. /\ work'[i] = new /\ pc'[i] = (IF last THEN "diff" ELSE "validate")
        /\ UNCHANGED <<turn, table, outcome, db, stored, heap, published, snapshot, lost>>
        /\ \A j \in Ingesters \ {i} : pc'[j] = pc[j] /\ work'[j] = work[j]
        /\ DOMAIN work' = Ingesters /\ work' = [j \in Ingesters |-> work'[j]]
    BY <1>1, <1>3 DEF Validate, Go, Shape, dbVars, memVars, envVars, faultVars, bad, fits, misfits
  <2> HIDE DEF new
  <2>6. Shape'
    <3>1. work' \in [Ingesters -> Locals]
      BY <1>1, <2>4, <2>5 DEF Shape
    <3> QED BY <1>1, <1>3, <2>5, <3>1 DEF Validate, Go, Shape, Places
  <2>7. Placed(i)'
    BY <1>1, <2>5 DEF IngesterInv, Placed, HasTable
  <2>8. Batch(i)' = Batch(i) /\ w.k \in Nat \ {0}
    BY <2>1, <2>5 DEF Batch, Locals
  <2>9. InProgress(i)'
    BY <2>1, <2>2, <2>4, <2>5, <2>8 DEF InProgress
  <2> QED BY <1>1, <2>5, <2>6, <2>7, <2>9, LocalStep
<1> QED BY <1>2, <1>3

-----------------------------------------------------------------------------
(* The rows of the batch and the statements.                               *)

\* The document a batch is at, in its two parts.
LEMMA PartsOfDocument ==
  ASSUME IngestInv, NEW i \in Ingesters, pc[i] \in {"diff", "copy", "assign", "filter"}
  PROVE  /\ work[i] \in Locals /\ table[i] \in Objects /\ heap[table[i]] \in TableColumns
         /\ work[i].valid[work[i].k] \in Documents /\ work[i].invalid[work[i].k] \in Documents
         /\ NoInsert(work[i].stmts) /\ Len(Batch(i)) \in Nat
         /\ work[i].k \in 1 .. Len(Batch(i))
         /\ Len(work[i].valid) = Len(Batch(i)) /\ Len(work[i].invalid) = Len(Batch(i))
<1>1. Shape /\ IngesterInv(i)
  BY DEF IngestInv
<1>2. work[i] \in Locals /\ table[i] \in Objects /\ heap[table[i]] \in TableColumns
  BY <1>1 DEF Shape, IngesterInv, Placed, HasTable
<1>3. /\ NoInsert(work[i].stmts) /\ work[i].k <= Len(Batch(i))
      /\ Len(work[i].valid) = Len(Batch(i)) /\ Len(work[i].invalid) = Len(Batch(i))
  BY <1>1 DEF IngesterInv, InProgress
<1>4. Len(Batch(i)) \in Nat
  BY <1>1, BatchType DEF IngesterInv
<1>5. work[i].valid \in Seq(Documents) /\ work[i].invalid \in Seq(Documents)
      /\ work[i].k \in Nat \ {0}
  BY <1>2 DEF Locals
<1>6. work[i].k \in 1 .. Len(Batch(i))
  BY <1>3, <1>4, <1>5
<1>7. work[i].valid[work[i].k] \in Documents /\ work[i].invalid[work[i].k] \in Documents
  <2> HIDE DEF Documents
  <2> QED BY <1>3, <1>5, <1>6
<1> QED BY <1>2, <1>3, <1>4, <1>6, <1>7

\* Statements that were none of them an INSERT, and then the INSERT.
LEMMA AppendInsert ==
  ASSUME NEW stmts \in Seq(AStatement), NoInsert(stmts), NEW rows \in Seq(Row)
  PROVE  LET all == Append(stmts, Statement("insert", NoColumns, rows))
         IN  all \in Seq(AStatement) /\ InsertIsLast(all)
<1> DEFINE s == Statement("insert", NoColumns, rows)
           all == Append(stmts, s)
<1>1. s \in AStatement /\ s.kind = "insert"
  BY NoColumnsType DEF Statement, AStatement
<1> HIDE DEF s
<1>2. /\ all \in Seq(AStatement) /\ Len(all) = Len(stmts) + 1 /\ all[Len(stmts) + 1] = s
      /\ \A n \in 1 .. Len(stmts) : all[n] = stmts[n]
      /\ Len(stmts) \in Nat
  BY <1>1
<1> HIDE DEF all
<1>3. \A n \in 1 .. Len(all) : n = Len(stmts) + 1 \/ n \in 1 .. Len(stmts)
  BY <1>2
<1>4. InsertIsLast(all)
  BY <1>1, <1>2, <1>3 DEF InsertIsLast, NoInsert
<1> QED BY <1>2, <1>4 DEF all, s

\* A row is added; after the last one the statements are complete.
LEMMA AddRowStep ==
  ASSUME IngestInv, NEW i \in Ingesters, pc[i] \in {"diff", "filter"}, NEW row \in Row,
         NEW w \in Locals, w.k = work[i].k, w.valid = work[i].valid,
         w.invalid = work[i].invalid, w.stmts = work[i].stmts,
         AddRow(i, row, w),
         UNCHANGED <<turn, table, outcome, dbVars, memVars, envVars>>
  PROVE  IngestInv'
<1>1. Shape /\ IngesterInv(i)
  BY DEF IngestInv
<1>2. /\ NoInsert(w.stmts) /\ w.stmts \in Seq(AStatement) /\ w.k \in 1 .. Len(Batch(i))
      /\ Len(w.valid) = Len(Batch(i)) /\ Len(w.invalid) = Len(Batch(i))
      /\ Len(Batch(i)) \in Nat
  BY PartsOfDocument DEF Locals
<1> DEFINE rows == Append(w.rows, row)
           more == [w EXCEPT !.rows = rows, !.k = @ + 1]
           all  == Append(w.stmts, Statement("insert", NoColumns, rows))
           done == [NoWork EXCEPT !.stmts = all]
<1>3. rows \in Seq(Row)
  BY DEF Locals
<1> HIDE DEF rows
<1>4. more \in Locals /\ more.k = w.k + 1 /\ more.valid = w.valid /\ more.invalid = w.invalid
      /\ more.stmts = w.stmts
  <2> DEFINE m == w.k + 1
  <2>1. m \in Nat \ {0}
    BY DEF Locals
  <2>2. more = [w EXCEPT !.rows = rows, !.k = m]
    OBVIOUS
  <2> HIDE DEF m, more
  <2>3. /\ more \in Locals /\ more.k = m /\ more.valid = w.valid
        /\ more.invalid = w.invalid /\ more.stmts = w.stmts
    BY <1>3, <2>1, <2>2 DEF Locals
  <2> QED BY <2>3 DEF m
<1>5. all \in Seq(AStatement) /\ InsertIsLast(all)
  BY <1>2, <1>3, AppendInsert
<1> HIDE DEF all
<1>6. done \in Locals /\ done.stmts = all /\ done = [NoWork EXCEPT !.stmts = done.stmts]
  BY <1>5, NoWorkType DEF NoWork, Locals
<1>7. \/ w.k < Len(Batch(i)) /\ work' = [work EXCEPT ![i] = more] /\ Go(i, "diff")
      \/ ~(w.k < Len(Batch(i))) /\ work' = [work EXCEPT ![i] = done] /\ Go(i, "execute")
  BY DEF AddRow, rows, all
<1> HIDE DEF more, done
<1>8. /\ UNCHANGED <<turn, table, stored, lost>>
      /\ \A j \in Ingesters \ {i} : pc'[j] = pc[j] /\ work'[j] = work[j] /\ table'[j] = table[j]
      /\ \/ w.k < Len(Batch(i)) /\ work'[i] = more /\ pc'[i] = "diff"
         \/ work'[i] = done /\ pc'[i] = "execute"
  BY <1>1, <1>7 DEF Go, Shape, dbVars, envVars, faultVars
<1>9. Shape'
  <2>1. work' \in [Ingesters -> Locals]
    BY <1>1, <1>4, <1>6, <1>7 DEF Shape
  <2>2. pc' \in [Ingesters -> Places]
    BY <1>1, <1>7 DEF Go, Shape, Places
  <2> QED BY <1>1, <2>1, <2>2 DEF Shape, dbVars, memVars, envVars, faultVars
<1>10. Placed(i)'
  BY <1>1, <1>8 DEF IngesterInv, Placed, HasTable
<1>11. Batch(i)' = Batch(i)
  BY <1>8 DEF Batch
<1>12. InProgress(i)'
  <2>1. CASE w.k < Len(Batch(i)) /\ work'[i] = more /\ pc'[i] = "diff"
    <3>1. more.k <= Len(Batch(i))
      BY <1>2, <1>4, <2>1
    <3> QED BY <1>2, <1>4, <1>11, <2>1, <3>1 DEF InProgress
  <2>2. CASE work'[i] = done /\ pc'[i] = "execute"
    BY <1>5, <1>6, <2>2 DEF InProgress
  <2> QED BY <1>8, <2>1, <2>2
<1> QED BY <1>8, <1>9, <1>10, <1>12, LocalStep

LEMMA RowStep ==
  ASSUME IngestInv, NEW i \in Ingesters, NothingToAdd(i) \/ Filter(i)
  PROVE  IngestInv'
<1> DEFINE w == work[i]
           valid == w.valid[w.k]
           invalid == w.invalid[w.k]
<1>1. CASE NothingToAdd(i)
  <2>1. pc[i] = "diff" /\ w \in Locals /\ valid \in Documents
    BY <1>1, PartsOfDocument DEF NothingToAdd
  <2>2. [data |-> valid, attributes |-> NoColumns] \in Row
    BY <2>1, NoColumnsType DEF Row
  <2> QED BY <1>1, <2>1, <2>2, AddRowStep DEF NothingToAdd
<1>2. CASE Filter(i)
  <2> DEFINE row == [data |-> RemoveNonSchemaFields(valid, heap[table[i]]),
                     attributes |-> Merge(w.attrs, invalid)]
             left == [w EXCEPT !.attrs = NoColumns]
  <2>1. /\ pc[i] = "filter" /\ w \in Locals /\ valid \in Documents /\ invalid \in Documents
        /\ heap[table[i]] \in TableColumns /\ w.attrs \in Documents
    BY <1>2, PartsOfDocument DEF Filter, Locals
  <2>2. row \in Row
    BY <2>1, PartsType, MergeType DEF Row, Documents
  <2>3. /\ left \in Locals /\ left.k = w.k /\ left.valid = w.valid
        /\ left.invalid = w.invalid /\ left.stmts = w.stmts
    BY <2>1, NoColumnsType DEF Locals
  <2>4. AddRow(i, row, left) /\ UNCHANGED <<turn, table, outcome, dbVars, memVars, envVars>>
    BY <1>2 DEF Filter
  <2> HIDE DEF row, left
  <2> QED BY <2>1, <2>2, <2>3, <2>4, AddRowStep
<1> QED BY <1>1, <1>2

\* A step between the documents of a batch: only these locals change.
LEMMA ColumnsStep ==
  ASSUME IngestInv, NEW i \in Ingesters, pc[i] \in {"diff", "copy", "assign"},
         NEW w \in Locals, w.k = work[i].k, w.valid = work[i].valid,
         w.invalid = work[i].invalid, NoInsert(w.stmts), work' = [work EXCEPT ![i] = w],
         NEW to \in {"copy", "assign", "filter"}, Go(i, to),
         w.promoted \subseteq DOMAIN w.attrs,
         heap' \in [Objects -> TableColumns],
         UNCHANGED <<turn, table, outcome, published, dbVars, envVars>>
  PROVE  IngestInv'
<1>1. Shape /\ IngesterInv(i)
  BY DEF IngestInv
<1>2. /\ UNCHANGED <<turn, table, stored, lost>> /\ work'[i] = w /\ pc'[i] = to
      /\ \A j \in Ingesters \ {i} : pc'[j] = pc[j] /\ work'[j] = work[j] /\ table'[j] = table[j]
  BY <1>1 DEF Go, Shape, dbVars, envVars, faultVars
<1>3. Shape'
  <2>1. work' \in [Ingesters -> Locals] /\ pc' \in [Ingesters -> Places]
    BY <1>1 DEF Go, Shape, Places
  <2> QED BY <1>1, <2>1 DEF Shape, dbVars, envVars, faultVars
<1>4. Placed(i)'
  BY <1>1, <1>2 DEF IngesterInv, Placed, HasTable
<1>5. Batch(i)' = Batch(i)
  BY <1>2 DEF Batch
<1>6. InProgress(i)'
  BY <1>1, <1>2, <1>5 DEF IngesterInv, InProgress
<1> QED BY <1>2, <1>3, <1>4, <1>6, LocalStep

\* A statement that is not an INSERT.
LEMMA AppendOther ==
  ASSUME NEW stmts \in Seq(AStatement), NoInsert(stmts),
         NEW s \in AStatement, s.kind # "insert"
  PROVE  Append(stmts, s) \in Seq(AStatement) /\ NoInsert(Append(stmts, s))
<1>1. /\ Append(stmts, s) \in Seq(AStatement) /\ Len(Append(stmts, s)) = Len(stmts) + 1
      /\ Append(stmts, s)[Len(stmts) + 1] = s
      /\ \A n \in 1 .. Len(stmts) : Append(stmts, s)[n] = stmts[n]
      /\ Len(stmts) \in Nat
  OBVIOUS
<1>2. \A n \in 1 .. Len(stmts) + 1 : n = Len(stmts) + 1 \/ n \in 1 .. Len(stmts)
  BY <1>1
<1> QED BY <1>1, <1>2 DEF NoInsert

LEMMA DiffStep ==
  ASSUME IngestInv, NEW i \in Ingesters, Diff(i)
  PROVE  IngestInv'
<1> DEFINE attrs == DifferenceMap(work[i].valid[work[i].k], heap[table[i]])
<1>1. /\ pc[i] = "diff" /\ heap' = heap
      /\ UNCHANGED <<turn, table, outcome, published, dbVars, envVars>>
  BY DEF Diff, memVars
<1>2. /\ work[i] \in Locals /\ heap[table[i]] \in TableColumns /\ NoInsert(work[i].stmts)
      /\ work[i].valid[work[i].k] \in Documents
  BY <1>1, PartsOfDocument
<1>3. attrs \in Documents /\ DOMAIN attrs \subseteq Fields
  BY <1>2, PartsType, ColumnsAre DEF Documents
<1> HIDE DEF attrs
<1>4. PICK promoted \in SUBSET DOMAIN attrs, to \in {"copy", "filter"} :
        /\ work' = [work EXCEPT ![i].attrs = attrs, ![i].promoted = promoted]
        /\ Go(i, to)
  BY DEF Diff, Promotions, attrs
<1> DEFINE w == [work[i] EXCEPT !.attrs = attrs, !.promoted = promoted]
<1>5. /\ w \in Locals /\ w.k = work[i].k /\ w.valid = work[i].valid
      /\ w.invalid = work[i].invalid /\ w.stmts = work[i].stmts
      /\ w.promoted \subseteq DOMAIN w.attrs
  BY <1>2, <1>3 DEF Locals
<1>6. work' = [work EXCEPT ![i] = w] /\ heap' \in [Objects -> TableColumns]
  BY <1>1, <1>4 DEF IngestInv, Shape
<1> HIDE DEF w
<1> QED BY <1>1, <1>2, <1>4, <1>5, <1>6, ColumnsStep

LEMMA CopyColsStep ==
  ASSUME IngestInv, NEW i \in Ingesters, CopyCols(i)
  PROVE  IngestInv'
<1>1. /\ pc[i] = "copy" /\ heap' = heap /\ Go(i, "assign")
      /\ UNCHANGED <<turn, table, outcome, published, dbVars, envVars>>
  BY DEF CopyCols, memVars
<1>2. work[i] \in Locals /\ heap[table[i]] \in TableColumns /\ NoInsert(work[i].stmts)
      /\ work[i].promoted \subseteq DOMAIN work[i].attrs
  BY <1>1, PartsOfDocument DEF IngestInv, IngesterInv, InProgress
<1> DEFINE w == [work[i] EXCEPT !.copy = heap[table[i]]]
<1>3. /\ w \in Locals /\ w.k = work[i].k /\ w.valid = work[i].valid
      /\ w.invalid = work[i].invalid /\ w.stmts = work[i].stmts
      /\ w.promoted \subseteq DOMAIN w.attrs
  BY <1>2 DEF Locals
<1>4. work' = [work EXCEPT ![i] = w] /\ heap' \in [Objects -> TableColumns]
  BY <1>1 DEF CopyCols, IngestInv, Shape
<1> HIDE DEF w
<1> QED BY <1>1, <1>2, <1>3, <1>4, ColumnsStep

LEMMA AssignColsStep ==
  ASSUME IngestInv, NEW i \in Ingesters, AssignCols(i)
  PROVE  IngestInv'
<1> DEFINE new   == Restrict(work[i].attrs, work[i].promoted)
           alter == Statement("alter", new, <<>>)
           stmts == IF DOMAIN new = {} THEN work[i].stmts ELSE Append(work[i].stmts, alter)
           left  == Restrict(work[i].attrs, DOMAIN work[i].attrs \ work[i].promoted)
           w     == [work[i] EXCEPT !.attrs = left, !.promoted = {}, !.copy = NoColumns,
                                    !.stmts = stmts]
<1>1. /\ pc[i] = "assign" /\ Go(i, "filter") /\ work' = [work EXCEPT ![i] = w]
      /\ heap' = [heap EXCEPT ![table[i]] = Merge(work[i].copy, new)]
      /\ UNCHANGED <<turn, table, outcome, published, dbVars, envVars>>
  BY DEF AssignCols
<1>2. /\ work[i] \in Locals /\ NoInsert(work[i].stmts) /\ table[i] \in Objects
      /\ work[i].promoted \subseteq DOMAIN work[i].attrs
  BY <1>1, PartsOfDocument DEF IngestInv, IngesterInv, InProgress
<1>3. /\ work[i].attrs \in Documents /\ work[i].copy \in TableColumns
      /\ work[i].stmts \in Seq(AStatement)
  BY <1>2 DEF Locals
<1>4. new \in Documents /\ left \in Documents
  BY <1>2, <1>3, RestrictType DEF Documents
<1>5. new \in TableColumns /\ Merge(work[i].copy, new) \in TableColumns
  BY <1>3, <1>4, DocumentsAreColumns, MergeType DEF TableColumns
<1> HIDE DEF new, left
<1>6. stmts \in Seq(AStatement) /\ NoInsert(stmts)
  <2>1. alter \in AStatement /\ alter.kind # "insert"
    BY <1>5 DEF Statement, AStatement
  <2> HIDE DEF alter
  <2> QED BY <1>2, <1>3, <2>1, AppendOther
<1> HIDE DEF stmts
<1>7. /\ w \in Locals /\ w.k = work[i].k /\ w.valid = work[i].valid
      /\ w.invalid = work[i].invalid /\ w.stmts = stmts
      /\ w.promoted \subseteq DOMAIN w.attrs
  BY <1>2, <1>4, <1>6, NoColumnsType DEF Locals
<1>8. heap' \in [Objects -> TableColumns]
  BY <1>1, <1>2, <1>5 DEF IngestInv, Shape
<1> HIDE DEF w
<1> QED BY <1>1, <1>6, <1>7, <1>8, ColumnsStep

-----------------------------------------------------------------------------
(* The execution of the statements.                                        *)

\* A sequence of statements without its first one.
LEMMA TailOfStatements ==
  ASSUME NEW stmts \in Seq(AStatement), stmts # <<>>, InsertIsLast(stmts)
  PROVE  /\ Head(stmts) \in AStatement /\ Tail(stmts) \in Seq(AStatement)
         /\ InsertIsLast(Tail(stmts))
         /\ Head(stmts).kind = "insert" <=> Tail(stmts) = <<>>
         /\ \A s \in AStatement : s.kind = Head(stmts).kind =>
              /\ <<s>> \o Tail(stmts) \in Seq(AStatement) /\ <<s>> \o Tail(stmts) # <<>>
              /\ InsertIsLast(<<s>> \o Tail(stmts))
<1> DEFINE r == Tail(stmts)
           h == Head(stmts)
<1>1. /\ h \in AStatement /\ r \in Seq(AStatement) /\ Len(r) = Len(stmts) - 1
      /\ \A n \in 1 .. Len(r) : r[n] = stmts[n + 1]
  BY HeadTailProperties
<1>2. h = stmts[1] /\ Len(stmts) \in Nat /\ Len(stmts) >= 1
  BY LenProperties, EmptySeq
<1>3. Len(r) \in Nat /\ Len(stmts) = Len(r) + 1
  BY <1>1, <1>2
<1> HIDE DEF r, h
<1>4. h.kind = "insert" <=> Len(r) = 0
  <2>1. h.kind = "insert" <=> 1 = Len(stmts)
    <3>1. 1 \in 1 .. Len(stmts)
      BY <1>2
    <3>2. stmts[1].kind = "insert" <=> 1 = Len(stmts)
      BY <3>1 DEF InsertIsLast
    <3> QED BY <1>2, <3>2
  <2> QED BY <1>3, <2>1
<1>5. Len(r) = 0 <=> r = <<>>
  BY <1>1, EmptySeq
<1>6. \A n \in 1 .. Len(r) : n + 1 \in 1 .. Len(stmts) /\ (n + 1 = Len(stmts) <=> n = Len(r))
  BY <1>3
<1>7. InsertIsLast(r)
  BY <1>1, <1>6 DEF InsertIsLast
<1>8. ASSUME NEW s \in AStatement, s.kind = h.kind
      PROVE  /\ <<s>> \o r \in Seq(AStatement) /\ <<s>> \o r # <<>>
             /\ InsertIsLast(<<s>> \o r)
  <2> DEFINE q == <<s>> \o r
  <2>1. /\ q \in Seq(AStatement) /\ Len(q) = Len(r) + 1 /\ q[1] = s
        /\ \A n \in 1 .. Len(r) : q[n + 1] = r[n]
    <3>1. <<s>> \in Seq(AStatement) /\ Len(<<s>>) = 1 /\ <<s>>[1] = s
      OBVIOUS
    <3> QED BY <1>1, <1>3, <3>1, ConcatProperties
  <2>2. q # <<>>
    BY <1>3, <2>1, EmptySeq
  <2> HIDE DEF q
  <2>3. \A n \in 1 .. Len(q) : n = 1 \/ (n - 1 \in 1 .. Len(r) /\ q[n] = r[n - 1])
    <3> TAKE n \in 1 .. Len(q)
    <3>1. CASE n # 1
      <4>1. n - 1 \in 1 .. Len(r) /\ (n - 1) + 1 = n
        BY <1>3, <2>1, <3>1
      <4> QED BY <2>1, <4>1
    <3> QED BY <3>1
  <2>4. ASSUME NEW n \in 1 .. Len(q)
        PROVE  q[n].kind = "insert" <=> n = Len(q)
    <3>1. CASE n = 1
      BY <1>3, <1>4, <1>8, <2>1, <3>1
    <3>2. CASE n # 1
      <4>1. n - 1 \in 1 .. Len(r) /\ q[n] = r[n - 1]
        BY <2>3, <3>2
      <4>2. n - 1 = Len(r) <=> n = Len(q)
        BY <1>3, <2>1
      <4> QED BY <1>7, <4>1, <4>2 DEF InsertIsLast
    <3> QED BY <3>1, <3>2
  <2> QED BY <2>1, <2>2, <2>4 DEF InsertIsLast, q
<1> QED BY <1>1, <1>4, <1>5, <1>7, <1>8 DEF r, h

\* What a statement does to the database, whether its answer arrives or not.
LEMMA DatabaseType ==
  ASSUME IngestInv, NEW i \in Ingesters, pc[i] = "execute", work[i].stmts # <<>>,
         \/ Create(i) \/ Insert(i)
         \/ \E f \in DOMAIN Head(work[i].stmts).cols : Alter(i, f)
  PROVE  /\ db' \in TableColumns /\ stored' \in [Requests -> Seq(Seq(Row))]
         /\ \A q \in Requests \ {Request(i)} : stored'[q] = stored[q]
         /\ IF Head(work[i].stmts).kind = "insert"
            THEN Len(stored'[Request(i)]) = Len(stored[Request(i)]) + 1
            ELSE stored' = stored
<1> DEFINE s == Head(work[i].stmts)
<1>1. Shape /\ IngesterInv(i) /\ Request(i) \in Requests
  BY BatchType DEF IngestInv, IngesterInv
<1>2. s \in AStatement
  BY <1>1, TailOfStatements DEF Shape, Locals, IngesterInv, InProgress
<1>3. CASE Create(i)
  <2>1. s.kind = "create" /\ stored' = stored /\ (db' = s.cols \/ db' = db)
    BY <1>3 DEF Create, NextStatement
  <2> QED BY <1>1, <1>2, <2>1 DEF Shape, AStatement
<1>4. ASSUME NEW f \in DOMAIN s.cols, Alter(i, f)
      PROVE  s.kind = "alter" /\ stored' = stored /\ db' \in TableColumns
  <2>1. s.kind = "alter" /\ stored' = stored /\ db' = Merge(Restrict(s.cols, {f}), db)
    BY <1>4 DEF Alter, NextStatement
  <2>2. s.cols \in TableColumns /\ {f} \subseteq DOMAIN s.cols
    BY <1>2 DEF AStatement
  <2>3. Restrict(s.cols, {f}) \in TableColumns
    BY <2>2, RestrictType DEF TableColumns
  <2> QED BY <1>1, <2>1, <2>3, MergeType DEF TableColumns, Shape
<1>5. CASE Insert(i)
  <2> DEFINE kept == [k \in DOMAIN s.rows |->
                        [s.rows[k] EXCEPT !.data = RemoveNonSchemaFields(@, db)]]
  <2>1. /\ s.kind = "insert" /\ db' = db
        /\ stored' = [stored EXCEPT ![Request(i)] = Append(@, kept)]
    BY <1>5 DEF Insert, NextStatement
  <2>2. kept \in Seq(Row)
    <3>1. s.rows \in Seq(Row) /\ DOMAIN s.rows = 1 .. Len(s.rows) /\ Len(s.rows) \in Nat
      BY <1>2, LenProperties DEF AStatement
    <3>2. ASSUME NEW k \in DOMAIN s.rows
          PROVE  kept[k] \in Row
      <4>1. s.rows[k] \in Row
        BY <3>1
      <4>2. RemoveNonSchemaFields(s.rows[k].data, db) \in Documents
        BY <1>1, <4>1, PartsType DEF Row, Shape
      <4> QED BY <4>1, <4>2 DEF Row
    <3>3. DOMAIN kept = 1 .. Len(s.rows) /\ kept = [k \in 1 .. Len(s.rows) |-> kept[k]]
      BY <3>1
    <3> HIDE DEF kept
    <3>4. kept \in [1 .. Len(s.rows) -> Row]
      BY <3>1, <3>2, <3>3
    <3> QED BY <3>1, <3>4
  <2> HIDE DEF kept
  <2>3. Append(stored[Request(i)], kept) \in Seq(Seq(Row))
        /\ Len(Append(stored[Request(i)], kept)) = Len(stored[Request(i)]) + 1
    BY <1>1, <2>2 DEF Shape
  <2> QED BY <1>1, <2>1, <2>3 DEF Shape
<1> QED BY <1>1, <1>3, <1>4, <1>5 DEF Shape

\* The requests of the other ingesters are other requests.
LEMMA OtherRequests ==
  ASSUME NEW i \in Ingesters, NEW j \in Ingesters \ {i}, NEW n \in 1 .. Len(Batches[j])
  PROVE  <<j, n>> \in Requests \ {Request(i)}
BY RequestsAre DEF Request

\* After the statement the ingester goes on with those that are left.
LEMMA ExecuteStep ==
  ASSUME IngestInv, NEW i \in Ingesters, pc[i] = "execute", work[i].stmts # <<>>,
         \/ Create(i) \/ Insert(i)
         \/ \E f \in DOMAIN Head(work[i].stmts).cols : Alter(i, f),
         NEW stmts \in Seq(AStatement), InsertIsLast(stmts),
         Head(work[i].stmts).kind = "insert" => stmts = <<>>,
         work' = [work EXCEPT ![i].stmts = stmts],
         UNCHANGED <<pc, turn, table, outcome, memVars, envVars>>
  PROVE  IngestInv'
<1>1. Shape /\ IngesterInv(i) /\ turn[i] \in 1 .. Len(Batches[i])
  BY DEF IngestInv, IngesterInv, Placed
<1>2. /\ db' \in TableColumns /\ stored' \in [Requests -> Seq(Seq(Row))]
      /\ \A q \in Requests \ {Request(i)} : stored'[q] = stored[q]
      /\ IF Head(work[i].stmts).kind = "insert"
         THEN Len(stored'[Request(i)]) = Len(stored[Request(i)]) + 1
         ELSE stored' = stored
  BY DatabaseType
<1>3. /\ work[i] = [NoWork EXCEPT !.stmts = work[i].stmts]
      /\ work'[i] = [work[i] EXCEPT !.stmts = stmts]
      /\ \A j \in Ingesters \ {i} : work'[j] = work[j]
  BY <1>1 DEF Shape, IngesterInv, InProgress
<1>4. /\ work'[i] \in Locals /\ work'[i].stmts = stmts
      /\ work'[i] = [NoWork EXCEPT !.stmts = stmts]
  BY <1>1, <1>3 DEF Shape, Locals, NoWork
<1>5. Shape'
  <2>1. work' \in [Ingesters -> Locals]
    BY <1>1, <1>3, <1>4 DEF Shape
  <2> QED BY <1>1, <1>2, <2>1 DEF Shape, memVars, envVars, faultVars
<1>6. Placed(i)'
  BY <1>1 DEF IngesterInv, Placed, HasTable
<1>7. InProgress(i)'
  BY <1>4 DEF InProgress
<1>8. \A n \in 1 .. Len(Batches[i]) : n # turn[i] => stored'[<<i, n>>] = stored[<<i, n>>]
  BY <1>2, RequestsAre DEF Request
<1>9. CountsInsertions(i)'
  <2> DEFINE q == <<i, turn[i]>>
  <2>1. Len(stored[q]) <= lost[q] /\ Len(stored[q]) \in Nat /\ lost[q] \in Nat
    BY <1>1, RequestsAre DEF IngesterInv, CountsInsertions, Shape
  <2>2. \/ Len(stored'[q]) <= lost[q]
        \/ stmts = <<>> /\ Len(stored'[q]) <= 1 + lost[q]
    BY <1>2, <2>1 DEF Request
  <2>3. lost' = lost /\ turn' = turn /\ pc' = pc
    BY DEF envVars, faultVars
  <2> HIDE DEF q
  <2>4. ASSUME NEW n \in 1 .. Len(Batches[i])
        PROVE  /\ n > turn[i] => Len(stored'[<<i, n>>]) = 0
               /\ n < turn[i] => Len(stored'[<<i, n>>]) <= 1 + lost[<<i, n>>]
    <3>1. n # turn[i] => stored'[<<i, n>>] = stored[<<i, n>>]
      BY <1>8
    <3>2. turn[i] \in Nat
      BY <1>1 DEF Shape
    <3> QED BY <1>1, <3>1, <3>2 DEF IngesterInv, CountsInsertions
  <2> QED BY <1>4, <2>2, <2>3, <2>4 DEF CountsInsertions, q
<1>10. \A j \in Ingesters \ {i} : \A n \in 1 .. Len(Batches[j]) :
         stored'[<<j, n>>] = stored[<<j, n>>]
  BY <1>2, OtherRequests
<1> QED BY <1>3, <1>5, <1>6, <1>7, <1>9, <1>10, OthersKeep DEF IngesterInv, envVars, faultVars

\* Creating a table and inserting are whole statements ...
LEMMA ExecuteWholeStep ==
  ASSUME IngestInv, NEW i \in Ingesters, ExecuteWhole(i)
  PROVE  IngestInv'
<1>1. /\ pc[i] = "execute" /\ work[i].stmts # <<>> /\ (Create(i) \/ Insert(i))
      /\ UNCHANGED <<pc, turn, table, outcome, memVars, envVars>>
      /\ work' = [work EXCEPT ![i].stmts = Tail(work[i].stmts)]
  BY DEF ExecuteWhole, Create, Insert, NextStatement, IngestInv, Shape
<1>2. /\ Tail(work[i].stmts) \in Seq(AStatement) /\ InsertIsLast(Tail(work[i].stmts))
      /\ Head(work[i].stmts).kind = "insert" => Tail(work[i].stmts) = <<>>
  BY <1>1, TailOfStatements DEF IngestInv, IngesterInv, InProgress, Shape, Locals
<1> QED BY <1>1, <1>2, ExecuteStep

\* ... adding columns takes one for each.
LEMMA ExecuteAlterStep ==
  ASSUME IngestInv, NEW i \in Ingesters, ExecuteAlter(i)
  PROVE  IngestInv'
<1> DEFINE s == Head(work[i].stmts)
<1>1. PICK f \in DOMAIN s.cols :
        /\ Alter(i, f)
        /\ work' = [work EXCEPT ![i].stmts =
             IF DOMAIN s.cols = {f} THEN Tail(@)
             ELSE <<[s EXCEPT !.cols = Restrict(@, DOMAIN @ \ {f})]>> \o Tail(@)]
  BY DEF ExecuteAlter
<1>2. /\ pc[i] = "execute" /\ work[i].stmts # <<>> /\ s.kind = "alter"
      /\ UNCHANGED <<pc, turn, table, outcome, memVars, envVars>>
  BY DEF ExecuteAlter, NextStatement
<1> DEFINE t == [s EXCEPT !.cols = Restrict(@, DOMAIN @ \ {f})]
           stmts == IF DOMAIN s.cols = {f} THEN Tail(work[i].stmts)
                    ELSE <<t>> \o Tail(work[i].stmts)
<1>3. work[i].stmts \in Seq(AStatement) /\ InsertIsLast(work[i].stmts)
  BY <1>2 DEF IngestInv, IngesterInv, InProgress, Shape, Locals
<1>4. t \in AStatement /\ t.kind = s.kind
  <2>1. s \in AStatement
    BY <1>2, <1>3, TailOfStatements
  <2>2. Restrict(s.cols, DOMAIN s.cols \ {f}) \in TableColumns
    BY <2>1, RestrictType DEF AStatement, TableColumns
  <2> QED BY <2>1, <2>2 DEF AStatement
<1>5. work' = [work EXCEPT ![i].stmts = stmts]
  BY <1>1 DEF IngestInv, Shape
<1> HIDE DEF t
<1>6. stmts \in Seq(AStatement) /\ InsertIsLast(stmts)
  BY <1>2, <1>3, <1>4, TailOfStatements
<1> HIDE DEF stmts
<1> QED BY <1>1, <1>2, <1>5, <1>6, ExecuteStep

\* The statement is executed, its answer is lost: the request fails, and may
\* be sent again with its rows already inserted.
LEMMA AnswerLostStep ==
  ASSUME IngestInv, NEW i \in Ingesters, AnswerLost(i)
  PROVE  IngestInv'
<1>1. /\ Shape /\ IngesterInv(i) /\ pc[i] = "execute" /\ work[i].stmts # <<>> /\ Fail(i)
      /\ UNCHANGED <<memVars, snapshot, attempt>>
  BY DEF IngestInv, AnswerLost
<1>2. turn[i] \in 1 .. Len(Batches[i]) /\ Request(i) \in Requests
  BY <1>1, BatchType DEF IngesterInv, Placed
<1>3. /\ db' \in TableColumns /\ stored' \in [Requests -> Seq(Seq(Row))]
      /\ \A q \in Requests \ {Request(i)} : stored'[q] = stored[q]
      /\ IF Head(work[i].stmts).kind = "insert"
         THEN Len(stored'[Request(i)]) = Len(stored[Request(i)]) + 1
         ELSE stored' = stored
  BY <1>1, DatabaseType DEF AnswerLost
<1>4. /\ pc'[i] = "failed" /\ work'[i] = NoWork /\ UNCHANGED <<turn, outcome>>
      /\ \A j \in Ingesters \ {i} : pc'[j] = pc[j] /\ work'[j] = work[j] /\ table'[j] = table[j]
  BY <1>1 DEF Fail, Go, Shape
<1>5. \/ lost' = lost /\ Head(work[i].stmts).kind # "insert"
      \/ lost' = [lost EXCEPT ![Request(i)] = @ + 1]
  BY DEF AnswerLost, Create, Alter, NextStatement
<1>6. lost' \in [Requests -> Nat] /\ \A q \in Requests \ {Request(i)} : lost'[q] = lost[q]
  BY <1>1, <1>2, <1>5 DEF Shape
<1>7. Shape'
  <2>1. pc' \in [Ingesters -> Places] /\ work' \in [Ingesters -> Locals]
        /\ table' \in [Ingesters -> Objects \union {NoTable}]
    BY <1>1, NoWorkType DEF Fail, Go, Shape, Places
  <2> QED BY <1>1, <1>3, <1>4, <1>6, <2>1 DEF Shape, memVars
<1>8. Placed(i)'
  BY <1>1, <1>4 DEF IngesterInv, Placed, HasTable
<1>9. InProgress(i)'
  BY <1>4, NoWorkType DEF InProgress
<1>10. CountsInsertions(i)'
  <2> DEFINE q == Request(i)
  <2>1. Len(stored[q]) <= lost[q] /\ Len(stored[q]) \in Nat /\ lost[q] \in Nat
    BY <1>1, <1>2 DEF IngesterInv, CountsInsertions, Shape, Request
  <2>2. Len(stored'[q]) <= lost'[q]
    BY <1>1, <1>2, <1>3, <1>5, <2>1 DEF Shape
  <2>3. ASSUME NEW n \in 1 .. Len(Batches[i]), n # turn[i]
        PROVE  stored'[<<i, n>>] = stored[<<i, n>>] /\ lost'[<<i, n>>] = lost[<<i, n>>]
    <3>1. <<i, n>> \in Requests \ {Request(i)}
      BY <2>3, RequestsAre DEF Request
    <3> QED BY <1>3, <1>6, <3>1
  <2>4. turn[i] \in Nat
    BY <1>1 DEF Shape
  <2> QED BY <1>1, <1>4, <2>2, <2>3, <2>4 DEF CountsInsertions, IngesterInv, Request
<1>11. \A j \in Ingesters \ {i} : \A n \in 1 .. Len(Batches[j]) :
         stored'[<<j, n>>] = stored[<<j, n>>] /\ lost'[<<j, n>>] = lost[<<j, n>>]
  BY <1>3, <1>6, OtherRequests
<1> QED BY <1>4, <1>7, <1>8, <1>9, <1>10, <1>11, OthersKeep DEF IngesterInv

\* The request is over; the next one has inserted nothing yet.
LEMMA FinishStep ==
  ASSUME IngestInv, NEW i \in Ingesters, NEW told \in {"acknowledged", "gaveUp"},
         Finish(i, told), pc[i] \in {"execute", "failed"},
         pc[i] = "execute" => work[i].stmts = <<>>
  PROVE  IngestInv'
<1>1. Shape /\ IngesterInv(i) /\ turn[i] \in Nat \ {0}
  BY DEF IngestInv, Shape
<1>2. /\ pc'[i] = "idle" /\ turn'[i] = turn[i] + 1 /\ table'[i] = NoTable
      /\ UNCHANGED <<work, db, stored, heap, published, snapshot, lost>>
      /\ \A j \in Ingesters \ {i} : pc'[j] = pc[j] /\ turn'[j] = turn[j] /\ table'[j] = table[j]
  BY <1>1 DEF Finish, Go, Shape, dbVars, memVars, faultVars
<1>3. Shape'
  <2>1. pc' \in [Ingesters -> Places] /\ table' \in [Ingesters -> Objects \union {NoTable}]
    BY <1>1 DEF Finish, Go, Shape, Places
  <2>2. turn' \in [Ingesters -> Nat \ {0}]
    BY <1>1 DEF Finish, Shape
  <2>3. outcome' \in [Requests -> {"pending", "acknowledged", "gaveUp"}]
    BY <1>1 DEF Finish, Shape
  <2> QED BY <1>1, <1>2, <2>1, <2>2, <2>3 DEF Shape
<1>4. work[i] = NoWork
  <2>1. CASE pc[i] = "execute"
    <3>1. work[i] = [NoWork EXCEPT !.stmts = <<>>]
      BY <1>1, <2>1 DEF IngesterInv, InProgress
    <3>2. [NoWork EXCEPT !.stmts = <<>>] = NoWork
      <4> HIDE DEF NoWork
      <4> QED BY NoWorkType DEF Locals
    <3> QED BY <3>1, <3>2
  <2> QED BY <1>1, <2>1 DEF IngesterInv, InProgress
<1>5. Placed(i)' /\ InProgress(i)'
  BY <1>2, <1>4, NoWorkType DEF Placed, HasTable, InProgress
<1>6. CountsInsertions(i)'
  <2>1. ASSUME NEW n \in 1 .. Len(Batches[i])
        PROVE  Len(stored[<<i, n>>]) \in Nat /\ lost[<<i, n>>] \in Nat
    BY <1>1, RequestsAre DEF Shape
  <2> QED BY <1>1, <1>2, <2>1 DEF IngesterInv, CountsInsertions
<1> QED BY <1>2, <1>3, <1>5, <1>6, OthersKeep DEF IngesterInv

\* The client sends the request again.
LEMMA RetryStep ==
  ASSUME IngestInv, NEW i \in Ingesters, Retry(i)
  PROVE  IngestInv'
<1>1. Shape /\ IngesterInv(i) /\ pc[i] = "failed"
  BY DEF IngestInv, Retry
<1>2. /\ pc'[i] = "idle"
      /\ UNCHANGED <<turn, table, work, outcome, db, stored, heap, published, snapshot, lost>>
      /\ \A j \in Ingesters \ {i} : pc'[j] = pc[j]
  BY <1>1 DEF Retry, Go, Shape, dbVars, memVars, faultVars
<1>3. Shape'
  BY <1>1, <1>2 DEF Retry, Go, Shape, Places
<1>4. Placed(i)' /\ InProgress(i)'
  BY <1>1, <1>2 DEF IngesterInv, Placed, HasTable, InProgress
<1> QED BY <1>1, <1>2, <1>3, <1>4, LocalStep

-----------------------------------------------------------------------------
(* The reload loops do not touch what ingesters hold.                      *)

LEMMA EnvironmentStep ==
  ASSUME IngestInv, Shape', UNCHANGED <<pc, turn, table, work, stored, lost>>
  PROVE  IngestInv'
<1>1. ASSUME NEW i \in Ingesters
      PROVE  IngesterInv(i)'
  <2>1. IngesterInv(i)
    BY DEF IngestInv
  <2>2. Placed(i)'
    BY <2>1 DEF IngesterInv, Placed, HasTable
  <2>3. InProgress(i)'
    BY <2>1 DEF IngesterInv, InProgress, Batch
  <2>4. CountsInsertions(i)'
    BY <2>1 DEF IngesterInv, CountsInsertions
  <2> QED BY <2>2, <2>3, <2>4 DEF IngesterInv
<1> QED BY <1>1 DEF IngestInv

\* A reload has an object that no ingester holds.
LEMMA UnusedObject ==
  ASSUME Shape
  PROVE  \E o \in Objects : \A i \in Ingesters : o # table[i]
<1>1. {} \in SUBSET Objects /\ IsFiniteSet({}) /\ Cardinality({}) = 0
  BY FS_EmptySet
<1>2. Cardinality(Ingesters) \in Nat
  BY IngestTablesAssumption, FS_CardinalityType
<1>3. Cardinality({}) + Cardinality(Ingesters) <= Cardinality(Ingesters)
  BY <1>1, <1>2
<1>4. table \in [Ingesters -> Objects \union {NoTable}] /\ Ingesters \in SUBSET Ingesters
  BY DEF Shape
<1> QED BY <1>1, <1>3, <1>4, FreeObject

LEMMA ReloadStep ==
  ASSUME IngestInv, NEW r \in Reloaders, Reload(r)
  PROVE  IngestInv'
<1>1. Shape
  BY DEF IngestInv
<1>2. CASE ReadTables(r)
  <2>1. Shape'
    BY <1>1, <1>2 DEF ReadTables, Shape, dbVars, memVars, localVars, faultVars
  <2> QED BY <1>2, <2>1, EnvironmentStep DEF ReadTables, dbVars, localVars, faultVars
<1>3. CASE Populate(r)
  <2> DEFINE o == CHOOSE o \in Objects : \A i \in Ingesters : o # table[i]
  <2>1. o \in Objects
    BY <1>1, UnusedObject
  <2> HIDE DEF o
  <2>2. snapshot[r].cols \in TableColumns
    BY <1>1 DEF Shape
  <2>3. snapshot' \in [Reloaders -> [read : BOOLEAN, cols : TableColumns]]
    BY <1>1, <1>3, NoColumnsType DEF Populate, Shape
  <2>4. heap' \in [Objects -> TableColumns] /\ published' \in Objects \union {NoTable}
    BY <1>1, <1>3, <2>1, <2>2 DEF Populate, Shape, memVars, o
  <2>5. Shape'
    BY <1>1, <1>3, <2>3, <2>4 DEF Populate, Shape, dbVars, localVars, faultVars
  <2> QED BY <1>3, <2>5, EnvironmentStep DEF Populate, dbVars, localVars, faultVars
<1>4. CASE ReadFails(r)
  <2>1. Shape'
    BY <1>1, <1>4 DEF ReadFails, Shape, dbVars, localVars
  <2> QED BY <1>4, <2>1, EnvironmentStep DEF ReadFails, dbVars, localVars
<1> QED BY <1>2, <1>3, <1>4 DEF Reload

-----------------------------------------------------------------------------
(* The invariant holds for ever.                                           *)

LEMMA IngestInvInit == Init => IngestInv
<1> SUFFICES ASSUME Init
             PROVE  IngestInv
  OBVIOUS
<1>1. db \in TableColumns
  <2>1. ASSUME NEW present \in Documents
        PROVE  Merge(present, OurColumns) \in TableColumns
    BY DocumentsAreColumns, NoColumnsType, MergeType DEF TableColumns
  <2> QED BY <2>1, NoColumnsType DEF Init
<1>2. 1 \in Objects
  <2>1. Cardinality(Ingesters) \in Nat
    BY IngestTablesAssumption, FS_CardinalityType
  <2> QED BY <2>1 DEF Objects
<1>3. heap \in [Objects -> TableColumns] /\ published \in Objects \union {NoTable}
  BY <1>1, <1>2, NoColumnsType DEF Init
<1>4. Shape
  <2>1. snapshot \in [Reloaders -> [read : BOOLEAN, cols : TableColumns]]
    BY NoColumnsType DEF Init
  <2>2. stored \in [Requests -> Seq(Seq(Row))] /\ lost \in [Requests -> Nat]
        /\ outcome \in [Requests -> {"pending", "acknowledged", "gaveUp"}]
    BY DEF Init
  <2>3. work \in [Ingesters -> Locals]
    BY NoWorkType DEF Init
  <2> QED BY <1>1, <1>3, <2>1, <2>2, <2>3 DEF Init, Shape, Places
<1>5. ASSUME NEW i \in Ingesters
      PROVE  IngesterInv(i)
  <2>1. Placed(i) /\ InProgress(i)
    BY NoWorkType DEF Init, Placed, HasTable, InProgress
  <2>2. CountsInsertions(i)
    BY RequestsAre DEF Init, CountsInsertions
  <2> QED BY <2>1, <2>2 DEF IngesterInv
<1> QED BY <1>4, <1>5 DEF IngestInv

LEMMA IngestInvNext ==
  ASSUME IngestInv, [Next]_vars
  PROVE  IngestInv'
<1>1. ASSUME NEW i \in Ingesters, Build(i)
      PROVE  IngestInv'
  BY <1>1, BeginStep, CreateTableStep, AddTableStep, DecorateStep, ValidateStep, RowStep,
     DiffStep, CopyColsStep, AssignColsStep DEF Build
<1>2. ASSUME NEW i \in Ingesters, Execute(i)
      PROVE  IngestInv'
  <2>1. CASE Refused(i)
    <3>1. pc[i] = "execute" /\ work[i].stmts # <<>> /\ Fail(i)
          /\ UNCHANGED <<dbVars, memVars, snapshot, lost>>
      BY <2>1 DEF Refused, NextStatement, envVars, faultVars
    <3> QED BY <3>1, FailStep
  <2>2. CASE ExecuteFails(i)
    BY <2>2, FailStep DEF ExecuteFails
  <2>3. CASE Acknowledge(i)
    BY <2>3, FinishStep DEF Acknowledge
  <2> QED BY <1>2, <2>1, <2>2, <2>3, ExecuteWholeStep, ExecuteAlterStep, AnswerLostStep
             DEF Execute
<1>3. ASSUME NEW i \in Ingesters, Retry(i) \/ GiveUp(i)
      PROVE  IngestInv'
  BY <1>3, RetryStep, FinishStep DEF GiveUp
<1>4. ASSUME NEW r \in Reloaders, Reload(r)
      PROVE  IngestInv'
  BY <1>4, ReloadStep
<1>5. CASE UNCHANGED vars
  <2>1. Shape'
    BY <1>5 DEF IngestInv, Shape, vars, dbVars, memVars, localVars, envVars, faultVars
  <2> QED BY <1>5, <2>1, EnvironmentStep DEF vars, dbVars, localVars, envVars, faultVars
<1> QED BY <1>1, <1>2, <1>3, <1>4, <1>5 DEF Next, Ingest

LEMMA IngestInvAlways == Spec => []IngestInv
<1>1. Init => IngestInv
  BY IngestInvInit
<1>2. IngestInv /\ [Next]_vars => IngestInv'
  BY IngestInvNext
<1> QED BY <1>1, <1>2, PTL DEF Spec

\* Whoever ingests into the same table, whatever is reloaded, created or altered
\* meanwhile and however often ClickHouse fails: a batch is inserted once, and
\* again only if the answer to its INSERT was lost.
THEOREM BatchesInsertedOnce == Spec => []InsertedOncePerAnswer
<1>1. ASSUME IngestInv, NEW q \in Requests
      PROVE  Len(stored[q]) <= 1 + lost[q]
  <2>1. PICK i \in Ingesters : q \in {i} \X (1 .. Len(Batches[i]))
    BY DEF Requests
  <2>2. PICK n \in 1 .. Len(Batches[i]) : q = <<i, n>>
    BY <2>1
  <2>3. CountsInsertions(i) /\ turn[i] \in Nat /\ Len(stored[q]) \in Nat /\ lost[q] \in Nat
    BY <1>1 DEF IngestInv, IngesterInv, Shape
  <2> QED BY <2>2, <2>3 DEF CountsInsertions
<1>2. IngestInv => InsertedOncePerAnswer
  BY <1>1 DEF InsertedOncePerAnswer
<1> QED BY <1>2, IngestInvAlways, PTL

-----------------------------------------------------------------------------
(* Where the columns of a table definition come from.                      *)

\* A request is going to add the column to the table in ClickHouse.
Awaited(x, i) ==
  \/ \E n \in 1 .. Len(work[i].stmts) : x \in DOMAIN work[i].stmts[n].cols
  \/ pc[i] = "decorate" /\ x \in DOMAIN Batch(i)[1]

\* ClickHouse has the column, somebody is going to add it, or has failed to.
Backed(x) ==
  \/ x \in DOMAIN db
  \/ x \in abandoned
  \/ \E i \in Ingesters : Awaited(x, i)

InUse(o) == o = published \/ \E i \in Ingesters : o = table[i]

\* Every column of a table definition, and of a copy of one, is backed.
TablesBacked ==
  /\ \A o \in Objects : InUse(o) => \A x \in DOMAIN heap[o] : Backed(x)
  /\ \A i \in Ingesters : pc[i] = "assign" => \A x \in DOMAIN work[i].copy : Backed(x)
  /\ \A r \in Reloaders : DOMAIN snapshot[r].cols \subseteq DOMAIN db

\* Nobody takes the columns out of a new table before its statement is made.
FirstDocument ==
  \A j \in Ingesters : pc[j] = "decorate" =>
    /\ DOMAIN Batch(j)[1] \subseteq DOMAIN heap[table[j]]
    /\ \A i \in Ingesters : pc[i] = "assign" /\ table[i] = table[j] =>
         DOMAIN Batch(j)[1] \subseteq DOMAIN work[i].copy

ColumnsInv == TablesBacked /\ FirstDocument

\* Every field of a document fits its column or does not.
DocumentsSplit(i) ==
  pc[i] \in {"validate", "diff", "copy", "assign", "filter"} =>
    \A m \in 1 .. Len(work[i].valid) :
      DOMAIN work[i].valid[m] \union DOMAIN work[i].invalid[m] = DOMAIN Batch(i)[m]

\* A field that fits is an attribute or a column, unless another goroutine has
\* dropped it: a column of the table object, or of the copy that replaces it.
AttributesAre(i) ==
  LET fields == DOMAIN work[i].valid[work[i].k]
      attrs  == DOMAIN work[i].attrs
  IN  /\ pc[i] \in {"copy", "assign", "filter"} => attrs \subseteq fields
      /\ pc[i] \in {"copy", "filter"} =>
           fields \subseteq attrs \union DOMAIN heap[table[i]] \union dropped[i]
      /\ pc[i] = "assign" =>
           fields \subseteq attrs \union DOMAIN work[i].copy \union dropped[i]

\* A row has no field but its document's, and misses dropped ones only.
Accounted(i, doc, row) ==
  /\ DOMAIN row.data \union DOMAIN row.attributes \subseteq DOMAIN doc
  /\ \A x \in DOMAIN row.data : Backed(x)
  /\ Missing(doc, row) \subseteq dropped[i]

RowsSoFar(i) ==
  pc[i] \in {"diff", "copy", "assign", "filter"} =>
    /\ Len(work[i].rows) = work[i].k - 1
    /\ \A m \in 1 .. Len(work[i].rows) : Accounted(i, Batch(i)[m], work[i].rows[m])

InsertAccounted(i) ==
  \A n \in 1 .. Len(work[i].stmts) :
    work[i].stmts[n].kind = "insert" =>
      /\ DOMAIN work[i].stmts[n].cols = {}
      /\ Len(work[i].stmts[n].rows) = Len(Batch(i))
      /\ \A m \in 1 .. Len(Batch(i)) :
           Accounted(i, Batch(i)[m], work[i].stmts[n].rows[m])

DocumentsInv(i) ==
  DocumentsSplit(i) /\ AttributesAre(i) /\ RowsSoFar(i) /\ InsertAccounted(i)

DroppedType == dropped \in [Ingesters -> SUBSET (Fields \union {Ours})]

LossInv ==
  /\ IngestInv /\ DroppedType /\ ColumnsInv
  /\ \A i \in Ingesters : DocumentsInv(i)

-----------------------------------------------------------------------------
(* What is backed stays so.                                                *)

LEMMA PendingIs ==
  ASSUME Shape, NEW i \in Ingesters, NEW x
  PROVE  x \in Pending(i) <=> Awaited(x, i)
<1>1. work[i].stmts \in Seq(AStatement)
  BY DEF Shape, Locals
<1> DEFINE s == work[i].stmts
           named == UNION {DOMAIN s[n].cols : n \in DOMAIN s}
<1>2. DOMAIN s = 1 .. Len(s)
  BY <1>1, LenProperties
<1>3. x \in named <=> \E n \in DOMAIN s : x \in DOMAIN s[n].cols
  <2> HIDE DEF s
  <2> QED OBVIOUS
<1>4. Pending(i) = (IF pc[i] = "decorate" THEN DOMAIN Batch(i)[1] ELSE {}) \union named
  BY DEF Pending
<1> HIDE DEF named
<1> QED BY <1>2, <1>3, <1>4 DEF Awaited

\* The other ingesters do nothing.
OthersRest(i) ==
  \A j \in Ingesters \ {i} :
    pc'[j] = pc[j] /\ turn'[j] = turn[j] /\ work'[j] = work[j] /\ table'[j] = table[j]

LEMMA BackedGrows ==
  ASSUME NEW i \in Ingesters, OthersRest(i), DOMAIN db \subseteq DOMAIN db',
         abandoned \subseteq abandoned', \A x : Awaited(x, i) => Backed(x)'
  PROVE  \A x : Backed(x) => Backed(x)'
<1> SUFFICES ASSUME NEW x, Backed(x)
             PROVE  Backed(x)'
  OBVIOUS
<1>1. ASSUME NEW j \in Ingesters \ {i}, Awaited(x, j)
      PROVE  Awaited(x, j)'
  BY <1>1 DEF Awaited, Batch, OthersRest
<1> QED BY <1>1 DEF Backed

LEMMA StatementsKept ==
  ASSUME NEW i \in Ingesters, pc[i] # "decorate",
         \A n \in 1 .. Len(work[i].stmts) :
           n \in 1 .. Len(work'[i].stmts) /\ work'[i].stmts[n] = work[i].stmts[n]
  PROVE  \A x : Awaited(x, i) => Backed(x)'
BY DEF Awaited, Backed

\* A step that leaves the table objects alone.
LEMMA QuietStep ==
  ASSUME IngestInv, ColumnsInv, NEW i \in Ingesters, OthersRest(i),
         UNCHANGED <<heap, published, snapshot>>,
         DOMAIN db \subseteq DOMAIN db', abandoned \subseteq abandoned',
         \A x : Awaited(x, i) => Backed(x)',
         table'[i] \in {table[i], published, NoTable}, pc'[i] # "decorate",
         pc'[i] = "assign" => work'[i].copy = heap[table[i]] /\ table'[i] = table[i]
                              /\ table[i] \in Objects
  PROVE  ColumnsInv' /\ \A x : Backed(x) => Backed(x)'
<1>1. \A x : Backed(x) => Backed(x)'
  BY BackedGrows
<1>2. NoTable \notin Objects
  BY DEF Objects, NoTable
<1>3. \A o \in Objects : InUse(o)' => InUse(o)
  BY <1>2 DEF InUse, OthersRest
<1>4. \A o \in Objects : InUse(o)' => \A x \in DOMAIN heap'[o] : Backed(x)'
  BY <1>1, <1>3 DEF ColumnsInv, TablesBacked
<1>5. ASSUME NEW j \in Ingesters, pc'[j] = "assign"
      PROVE  \A x \in DOMAIN work'[j].copy : Backed(x)'
  <2>1. CASE j = i
    BY <1>1, <1>5, <2>1 DEF ColumnsInv, TablesBacked, InUse
  <2>2. CASE j # i
    BY <1>1, <1>5, <2>2 DEF ColumnsInv, TablesBacked, OthersRest
  <2> QED BY <2>1, <2>2
<1>6. \A r \in Reloaders : DOMAIN snapshot'[r].cols \subseteq DOMAIN db'
  BY DEF ColumnsInv, TablesBacked
<1>7. TablesBacked'
  BY <1>4, <1>5, <1>6 DEF TablesBacked
<1>8. ASSUME NEW j \in Ingesters, pc'[j] = "decorate"
      PROVE  /\ DOMAIN Batch(j)'[1] \subseteq DOMAIN heap'[table'[j]]
             /\ \A m \in Ingesters : pc'[m] = "assign" /\ table'[m] = table'[j] =>
                  DOMAIN Batch(j)'[1] \subseteq DOMAIN work'[m].copy
  <2>1. j # i /\ pc[j] = "decorate" /\ table'[j] = table[j] /\ Batch(j)' = Batch(j)
    BY <1>8 DEF OthersRest, Batch
  <2>2. DOMAIN Batch(j)[1] \subseteq DOMAIN heap[table[j]]
    BY <2>1 DEF ColumnsInv, FirstDocument
  <2>3. ASSUME NEW m \in Ingesters, pc'[m] = "assign", table'[m] = table'[j]
        PROVE  DOMAIN Batch(j)[1] \subseteq DOMAIN work'[m].copy
    <3>1. CASE m = i
      BY <2>1, <2>2, <2>3, <3>1
    <3>2. CASE m # i
      BY <2>1, <2>3, <3>2 DEF ColumnsInv, FirstDocument, OthersRest
    <3> QED BY <3>1, <3>2
  <2> QED BY <2>1, <2>2, <2>3
<1>9. FirstDocument'
  BY <1>8 DEF FirstDocument
<1> QED BY <1>1, <1>7, <1>9 DEF ColumnsInv

-----------------------------------------------------------------------------
(* The columns of the table definitions stay backed.                       *)

\* A failure leaves the columns of its statements behind.
LEMMA FailColumns ==
  ASSUME IngestInv, ColumnsInv, NEW i \in Ingesters, Fail(i),
         UNCHANGED <<heap, published, snapshot>>, DOMAIN db \subseteq DOMAIN db'
  PROVE  ColumnsInv' /\ \A x : Backed(x) => Backed(x)'
<1>1. /\ pc' = [pc EXCEPT ![i] = "failed"] /\ table' = [table EXCEPT ![i] = NoTable]
      /\ work' = [work EXCEPT ![i] = NoWork] /\ turn' = turn
      /\ abandoned' = abandoned \union Pending(i)
  BY DEF Fail, Go
<1>2. OthersRest(i) /\ pc'[i] = "failed" /\ table'[i] = NoTable
  BY <1>1 DEF OthersRest, IngestInv, Shape
<1>3. \A x : Awaited(x, i) => Backed(x)'
  BY <1>1, PendingIs DEF IngestInv, Backed
<1> QED BY <1>1, <1>2, <1>3, QuietStep

\* Statements, and one more at the end.
LEMMA AppendKeeps ==
  ASSUME NEW stmts \in Seq(AStatement), NEW s \in AStatement
  PROVE  LET all == Append(stmts, s)
         IN  /\ \A n \in 1 .. Len(stmts) : n \in 1 .. Len(all) /\ all[n] = stmts[n]
             /\ Len(all) \in 1 .. Len(all) /\ all[Len(all)] = s
             /\ Len(all) = Len(stmts) + 1 /\ all \in Seq(AStatement)
<1>1. /\ Append(stmts, s) \in Seq(AStatement) /\ Len(Append(stmts, s)) = Len(stmts) + 1
      /\ Append(stmts, s)[Len(stmts) + 1] = s
      /\ \A n \in 1 .. Len(stmts) : Append(stmts, s)[n] = stmts[n]
      /\ Len(stmts) \in Nat
  OBVIOUS
<1> QED BY <1>1

\* What AddRow does to the statements.
LEMMA AddRowStatements ==
  ASSUME IngestInv, NEW i \in Ingesters, NEW row \in Row, NEW w \in Locals,
         w.stmts = work[i].stmts, AddRow(i, row, w)
  PROVE  /\ pc'[i] \in {"diff", "execute"}
         /\ \A j \in Ingesters \ {i} : pc'[j] = pc[j] /\ work'[j] = work[j]
         /\ \A n \in 1 .. Len(work[i].stmts) :
              n \in 1 .. Len(work'[i].stmts) /\ work'[i].stmts[n] = work[i].stmts[n]
<1> DEFINE rows == Append(w.rows, row)
           s    == Statement("insert", NoColumns, rows)
           all  == Append(w.stmts, s)
<1>1. Shape /\ w.stmts \in Seq(AStatement) /\ rows \in Seq(Row)
  BY DEF IngestInv, Locals
<1>2. s \in AStatement
  BY <1>1, NoColumnsType DEF Statement, AStatement
<1>3. \A n \in 1 .. Len(w.stmts) : n \in 1 .. Len(all) /\ all[n] = w.stmts[n]
  BY <1>1, <1>2, AppendKeeps
<1>4. \/ /\ work' = [work EXCEPT ![i] = [w EXCEPT !.rows = rows, !.k = @ + 1]]
         /\ pc' = [pc EXCEPT ![i] = "diff"]
      \/ /\ work' = [work EXCEPT ![i] = [NoWork EXCEPT !.stmts = all]]
         /\ pc' = [pc EXCEPT ![i] = "execute"]
  BY DEF AddRow, Go
<1> HIDE DEF all, rows
<1>5. work'[i].stmts = w.stmts \/ work'[i].stmts = all
  <2>1. CASE work' = [work EXCEPT ![i] = [w EXCEPT !.rows = rows, !.k = @ + 1]]
    <3>1. work'[i] = [w EXCEPT !.rows = rows, !.k = @ + 1]
      BY <1>1, <2>1 DEF Shape
    <3> QED BY <3>1 DEF Locals
  <2>2. CASE work' = [work EXCEPT ![i] = [NoWork EXCEPT !.stmts = all]]
    <3>1. work'[i] = [NoWork EXCEPT !.stmts = all]
      BY <1>1, <2>2 DEF Shape
    <3> QED BY <3>1 DEF NoWork
  <2> QED BY <1>4, <2>1, <2>2
<1>6. \A n \in 1 .. Len(work[i].stmts) :
        n \in 1 .. Len(work'[i].stmts) /\ work'[i].stmts[n] = work[i].stmts[n]
  BY <1>3, <1>5
<1>7. pc'[i] \in {"diff", "execute"}
      /\ \A j \in Ingesters \ {i} : pc'[j] = pc[j] /\ work'[j] = work[j]
  BY <1>1, <1>4 DEF Shape
<1> QED BY <1>6, <1>7

\* The row that a step adds, and the locals it is added to.
LEMMA RowAdded ==
  ASSUME IngestInv, NEW i \in Ingesters, NothingToAdd(i) \/ Filter(i)
  PROVE  \E row \in Row, w \in Locals :
           /\ AddRow(i, row, w) /\ w.k = work[i].k /\ w.valid = work[i].valid
           /\ w.invalid = work[i].invalid /\ w.stmts = work[i].stmts
           /\ w.rows = work[i].rows
           /\ \/ /\ pc[i] = "diff" /\ row.data = work[i].valid[work[i].k]
                 /\ DOMAIN row.data \subseteq DOMAIN heap[table[i]]
                 /\ DOMAIN row.attributes = {} /\ DOMAIN work[i].invalid[work[i].k] = {}
              \/ /\ pc[i] = "filter"
                 /\ DOMAIN row.data = DOMAIN work[i].valid[work[i].k]
                                        \intersect DOMAIN heap[table[i]]
                 /\ DOMAIN row.attributes = DOMAIN work[i].attrs
                                              \union DOMAIN work[i].invalid[work[i].k]
<1> DEFINE valid   == work[i].valid[work[i].k]
           invalid == work[i].invalid[work[i].k]
           present == heap[table[i]]
<1>1. /\ pc[i] \in {"diff", "filter"} /\ work[i] \in Locals /\ present \in TableColumns
      /\ valid \in Documents /\ invalid \in Documents /\ work[i].attrs \in Documents
  BY PartsOfDocument DEF NothingToAdd, Filter, Locals
<1>2. CASE NothingToAdd(i)
  <2> DEFINE row == [data |-> valid, attributes |-> NoColumns]
  <2>1. row \in Row /\ DOMAIN row.attributes = {}
    BY <1>1, NoColumnsType DEF Row
  <2>2. DOMAIN valid \ DOMAIN present = {} /\ DOMAIN invalid = {} /\ pc[i] = "diff"
    BY <1>1, <1>2, PartsType DEF NothingToAdd
  <2>3. AddRow(i, row, work[i]) /\ row.data = valid
    BY <1>2 DEF NothingToAdd
  <2> HIDE DEF row
  <2>4. DOMAIN row.data \subseteq DOMAIN present
    BY <2>2, <2>3
  <2> QED BY <1>1, <2>1, <2>2, <2>3, <2>4
<1>3. CASE Filter(i)
  <2> DEFINE data       == RemoveNonSchemaFields(valid, present)
             attributes == Merge(work[i].attrs, invalid)
             row        == [data |-> data, attributes |-> attributes]
             left       == [work[i] EXCEPT !.attrs = NoColumns]
  <2>1. data \in Documents /\ DOMAIN data = DOMAIN valid \intersect DOMAIN present
    BY <1>1, PartsType
  <2>2. attributes \in Documents /\ DOMAIN attributes = DOMAIN work[i].attrs \union DOMAIN invalid
    <3>1. attributes \in Documents
      BY <1>1, MergeType DEF Documents
    <3>2. DOMAIN attributes = DOMAIN work[i].attrs \union DOMAIN invalid
      BY DEF Merge
    <3> QED BY <3>1, <3>2
  <2>3. AddRow(i, row, left) /\ pc[i] = "filter"
    BY <1>3 DEF Filter
  <2> HIDE DEF data, attributes
  <2>4. row \in Row /\ row.data = data /\ row.attributes = attributes
    BY <2>1, <2>2 DEF Row
  <2>5. /\ left \in Locals /\ left.k = work[i].k /\ left.valid = work[i].valid
        /\ left.rows = work[i].rows
        /\ left.invalid = work[i].invalid /\ left.stmts = work[i].stmts
    BY <1>1, NoColumnsType DEF Locals
  <2> HIDE DEF row, left
  <2> QED BY <2>1, <2>2, <2>3, <2>4, <2>5
<1> QED BY <1>2, <1>3

\* The steps that neither change a table nor execute a statement.
LEMMA BuildingColumns ==
  ASSUME IngestInv, ColumnsInv, NEW i \in Ingesters,
         \/ Begin(i) \/ CheckAbsent(i) \/ AlreadyExists(i) \/ Refind(i) \/ Validate(i)
         \/ NothingToAdd(i) \/ Filter(i) \/ Diff(i) \/ CopyCols(i) \/ Retry(i)
  PROVE  ColumnsInv' /\ \A x : Backed(x) => Backed(x)'
<1>1. Shape
  BY DEF IngestInv
<1>2. CASE AlreadyExists(i) \/ (Refind(i) /\ published = NoTable)
           \/ (Validate(i) /\ published = NoTable)
  BY <1>2, FailColumns DEF AlreadyExists, Refind, Validate, dbVars, memVars, envVars
<1>3. CASE Begin(i) \/ CheckAbsent(i) \/ Retry(i) \/ (Refind(i) /\ published # NoTable)
  <2>1. /\ OthersRest(i) /\ work' = work /\ pc'[i] \notin {"decorate", "assign"}
        /\ pc[i] # "decorate" /\ table'[i] \in {table[i], published}
        /\ UNCHANGED <<heap, published, snapshot, db, abandoned>>
    BY <1>1, <1>3
       DEF Begin, CheckAbsent, Retry, Refind, Go, Shape, OthersRest, dbVars, memVars, envVars,
           historyVars
  <2>2. \A x : Awaited(x, i) => Backed(x)'
    BY <2>1, StatementsKept
  <2> QED BY <2>1, <2>2, QuietStep
<1>4. CASE Validate(i) /\ published # NoTable
  <2> DEFINE bad  == Invalid(Doc(i), heap[published])
             fits == Restrict(Doc(i), DOMAIN Doc(i) \ bad)
             misfits == Restrict(Doc(i), bad)
             last == work[i].k = Len(Batch(i))
  <2>1. /\ work' = [work EXCEPT ![i].valid = Append(@, fits), ![i].invalid = Append(@, misfits),
                                ![i].k = IF last THEN 1 ELSE @ + 1]
        /\ pc' = [pc EXCEPT ![i] = IF last THEN "diff" ELSE "validate"]
        /\ pc[i] = "validate"
        /\ UNCHANGED <<heap, published, snapshot, db, abandoned, turn, table>>
    BY <1>4 DEF Validate, Go, dbVars, memVars, envVars, historyVars
  <2> HIDE DEF fits, misfits, last
  <2>2. OthersRest(i) /\ pc'[i] \in {"diff", "validate"} /\ work'[i].stmts = work[i].stmts
    BY <1>1, <2>1 DEF Shape, Locals, OthersRest
  <2>3. \A x : Awaited(x, i) => Backed(x)'
    BY <2>1, <2>2, StatementsKept
  <2> QED BY <2>1, <2>2, <2>3, QuietStep
<1>5. CASE NothingToAdd(i) \/ Filter(i)
  <2>1. PICK row \in Row, w \in Locals : AddRow(i, row, w) /\ w.stmts = work[i].stmts
    BY <1>5, RowAdded
  <2>2. pc[i] # "decorate" /\ UNCHANGED <<heap, published, snapshot, db, abandoned, turn, table>>
    BY <1>5 DEF NothingToAdd, Filter, dbVars, memVars, envVars, historyVars
  <2>3. /\ pc'[i] \in {"diff", "execute"}
        /\ \A j \in Ingesters \ {i} : pc'[j] = pc[j] /\ work'[j] = work[j]
        /\ \A n \in 1 .. Len(work[i].stmts) :
             n \in 1 .. Len(work'[i].stmts) /\ work'[i].stmts[n] = work[i].stmts[n]
    BY <2>1, AddRowStatements
  <2>4. OthersRest(i)
    BY <2>2, <2>3 DEF OthersRest
  <2>5. \A x : Awaited(x, i) => Backed(x)'
    BY <2>2, <2>3, StatementsKept
  <2> QED BY <2>2, <2>3, <2>4, <2>5, QuietStep
<1>6. CASE Diff(i)
  <2> DEFINE attrs == DifferenceMap(work[i].valid[work[i].k], heap[table[i]])
  <2>1. PICK promoted \in SUBSET DOMAIN attrs, to \in {"copy", "filter"} :
          /\ work' = [work EXCEPT ![i].attrs = attrs, ![i].promoted = promoted]
          /\ Go(i, to)
    BY <1>6 DEF Diff, Promotions
  <2>2. /\ pc[i] = "diff"
        /\ UNCHANGED <<heap, published, snapshot, db, abandoned, turn, table>>
    BY <1>6 DEF Diff, dbVars, memVars, envVars, historyVars
  <2> HIDE DEF attrs
  <2>3. OthersRest(i) /\ pc'[i] \in {"copy", "filter"} /\ work'[i].stmts = work[i].stmts
    BY <1>1, <2>1, <2>2 DEF Shape, Locals, OthersRest, Go
  <2>4. \A x : Awaited(x, i) => Backed(x)'
    BY <2>2, <2>3, StatementsKept
  <2> QED BY <2>2, <2>3, <2>4, QuietStep
<1>7. CASE CopyCols(i)
  <2>1. /\ work' = [work EXCEPT ![i].copy = heap[table[i]]] /\ pc' = [pc EXCEPT ![i] = "assign"]
        /\ pc[i] = "copy"
        /\ UNCHANGED <<heap, published, snapshot, db, abandoned, turn, table>>
    BY <1>7 DEF CopyCols, Go, dbVars, memVars, envVars, historyVars
  <2>2. /\ OthersRest(i) /\ pc'[i] = "assign" /\ work'[i].stmts = work[i].stmts
        /\ work'[i].copy = heap[table[i]]
    BY <1>1, <2>1 DEF Shape, Locals, OthersRest
  <2>3. \A x : Awaited(x, i) => Backed(x)'
    BY <2>1, <2>2, StatementsKept
  <2>4. table[i] \in Objects
    BY <2>1, PartsOfDocument
  <2> QED BY <2>1, <2>2, <2>3, <2>4, QuietStep
<1> QED BY <1>2, <1>3, <1>4, <1>5, <1>6, <1>7

-----------------------------------------------------------------------------
\* A new table has the columns that its CREATE TABLE is going to have.
LEMMA AddTableColumns ==
  ASSUME IngestInv, ColumnsInv, NEW i \in Ingesters, AddTable(i)
  PROVE  ColumnsInv' /\ \A x : Backed(x) => Backed(x)'
<1> DEFINE o == Fresh(i)
<1>1. Shape /\ pc[i] = "publish" /\ Len(work[i].stmts) = 0
  <2>1. Shape /\ InProgress(i) /\ pc[i] = "publish"
    BY DEF IngestInv, IngesterInv, AddTable
  <2> QED BY <2>1, NoWorkType DEF InProgress
<1>2. o \in Objects /\ o # published /\ \A j \in Ingesters \ {i} : o # table[j]
  BY <1>1, FreshType
<1>3. /\ heap' = [heap EXCEPT ![o] = Batch(i)[1]] /\ published' = o
      /\ table' = [table EXCEPT ![i] = o] /\ pc' = [pc EXCEPT ![i] = "decorate"]
      /\ UNCHANGED <<turn, work, db, snapshot, abandoned>>
  BY DEF AddTable, Go, dbVars, envVars, historyVars
<1> HIDE DEF o
<1>4. /\ OthersRest(i) /\ pc'[i] = "decorate" /\ table'[i] = o
      /\ heap'[o] = Batch(i)[1] /\ \A p \in Objects \ {o} : heap'[p] = heap[p]
      /\ \A j \in Ingesters : Batch(j)' = Batch(j)
  BY <1>1, <1>2, <1>3 DEF OthersRest, Shape, Batch
<1>5. \A x : Awaited(x, i) => Backed(x)'
  BY <1>1 DEF Awaited
<1>6. \A x : Backed(x) => Backed(x)'
  BY <1>3, <1>4, <1>5, BackedGrows
<1>7. ASSUME NEW p \in Objects, InUse(p)'
      PROVE  \A x \in DOMAIN heap'[p] : Backed(x)'
  <2>1. CASE p = o
    BY <1>4, <2>1 DEF Backed, Awaited
  <2>2. CASE p # o
    <3>1. InUse(p)
      BY <1>3, <1>4, <1>7, <2>2 DEF InUse, OthersRest
    <3> QED BY <1>4, <1>6, <2>2, <3>1 DEF ColumnsInv, TablesBacked
  <2> QED BY <2>1, <2>2
<1>8. ASSUME NEW j \in Ingesters, pc'[j] = "assign"
      PROVE  \A x \in DOMAIN work'[j].copy : Backed(x)'
  BY <1>3, <1>4, <1>6, <1>8 DEF ColumnsInv, TablesBacked, OthersRest
<1>9. TablesBacked'
  BY <1>3, <1>7, <1>8 DEF ColumnsInv, TablesBacked
<1>10. ASSUME NEW j \in Ingesters, pc'[j] = "decorate"
       PROVE  /\ DOMAIN Batch(j)[1] \subseteq DOMAIN heap'[table'[j]]
              /\ \A m \in Ingesters : pc'[m] = "assign" /\ table'[m] = table'[j] =>
                   DOMAIN Batch(j)[1] \subseteq DOMAIN work'[m].copy
  <2>1. CASE j = i
    BY <1>2, <1>4, <2>1 DEF OthersRest
  <2>2. CASE j # i
    <3>1. pc[j] = "decorate" /\ table'[j] = table[j] /\ table[j] \in Objects \ {o}
      BY <1>2, <1>4, <1>10, <2>2 DEF OthersRest, IngestInv, IngesterInv, Placed, HasTable
    <3> QED BY <1>3, <1>4, <3>1 DEF ColumnsInv, FirstDocument, OthersRest
  <2> QED BY <2>1, <2>2
<1>11. FirstDocument'
  BY <1>4, <1>10 DEF FirstDocument
<1> QED BY <1>6, <1>9, <1>11 DEF ColumnsInv

\* A step that writes to the table object it holds: the columns it leaves are
\* backed, and those of a table still to be created stay.
LEMMA WritingStep ==
  ASSUME IngestInv, ColumnsInv, NEW i \in Ingesters, OthersRest(i), table[i] \in Objects,
         NEW widened, heap' = [heap EXCEPT ![table[i]] = widened],
         UNCHANGED <<published, snapshot, db, abandoned, table>>,
         pc'[i] \notin {"decorate", "assign"},
         \A x : Awaited(x, i) => Backed(x)', \A x \in DOMAIN widened : Backed(x)',
         \A j \in Ingesters \ {i} : pc[j] = "decorate" /\ table[j] = table[i] =>
           DOMAIN Batch(j)[1] \subseteq DOMAIN widened
  PROVE  ColumnsInv' /\ \A x : Backed(x) => Backed(x)'
<1>1. \A x : Backed(x) => Backed(x)'
  BY BackedGrows
<1>2. heap'[table[i]] = widened /\ \A p \in Objects \ {table[i]} : heap'[p] = heap[p]
  BY DEF IngestInv, Shape
<1>3. ASSUME NEW p \in Objects, InUse(p)'
      PROVE  \A x \in DOMAIN heap'[p] : Backed(x)'
  BY <1>1, <1>2, <1>3 DEF ColumnsInv, TablesBacked, InUse
<1>4. ASSUME NEW j \in Ingesters, pc'[j] = "assign"
      PROVE  \A x \in DOMAIN work'[j].copy : Backed(x)'
  BY <1>1, <1>4 DEF ColumnsInv, TablesBacked, OthersRest
<1>5. TablesBacked'
  BY <1>3, <1>4 DEF ColumnsInv, TablesBacked
<1>6. ASSUME NEW j \in Ingesters, pc'[j] = "decorate"
      PROVE  /\ DOMAIN Batch(j)'[1] \subseteq DOMAIN heap'[table'[j]]
             /\ \A m \in Ingesters : pc'[m] = "assign" /\ table'[m] = table'[j] =>
                  DOMAIN Batch(j)'[1] \subseteq DOMAIN work'[m].copy
  <2>1. j \in Ingesters \ {i} /\ pc[j] = "decorate" /\ Batch(j)' = Batch(j) /\ table[j] \in Objects
    BY <1>6 DEF OthersRest, Batch, IngestInv, IngesterInv, Placed, HasTable
  <2>2. DOMAIN Batch(j)[1] \subseteq DOMAIN heap'[table[j]]
    BY <1>2, <2>1 DEF ColumnsInv, FirstDocument
  <2> QED BY <2>1, <2>2 DEF ColumnsInv, FirstDocument, OthersRest
<1>7. FirstDocument'
  BY <1>6 DEF FirstDocument
<1> QED BY <1>1, <1>5, <1>7 DEF ColumnsInv

LEMMA DecorateColumns ==
  ASSUME IngestInv, ColumnsInv, NEW i \in Ingesters, Decorate(i)
  PROVE  ColumnsInv' /\ \A x : Backed(x) => Backed(x)'
<1> DEFINE widened == Merge(heap[table[i]], OurColumns)
           s    == Statement("create", widened, <<>>)
<1>1. /\ Shape /\ pc[i] = "decorate" /\ Len(work[i].stmts) = 0 /\ table[i] \in Objects
      /\ work[i] \in Locals
  BY NoWorkType DEF IngestInv, IngesterInv, InProgress, Placed, HasTable, Decorate, Shape
<1>2. DOMAIN heap[table[i]] \subseteq DOMAIN widened
  BY DEF Merge
<1>3. s.cols = widened
  BY DEF Statement
<1>4. /\ heap' = [heap EXCEPT ![table[i]] = widened] /\ work' = [work EXCEPT ![i].stmts = <<s>>]
      /\ pc' = [pc EXCEPT ![i] = "refind"]
      /\ UNCHANGED <<turn, table, published, db, snapshot, abandoned>>
  BY DEF Decorate, Go, dbVars, envVars, historyVars
<1> HIDE DEF widened, s
<1>5. OthersRest(i) /\ pc'[i] = "refind" /\ work'[i].stmts = <<s>>
  BY <1>1, <1>4 DEF OthersRest, Shape, Locals
<1>6. \A x \in DOMAIN widened : Backed(x)'
  <2>1. 1 \in 1 .. Len(work'[i].stmts) /\ work'[i].stmts[1].cols = widened
    BY <1>3, <1>5
  <2> QED BY <2>1 DEF Backed, Awaited
<1>7. DOMAIN Batch(i)[1] \subseteq DOMAIN widened
  BY <1>1, <1>2 DEF ColumnsInv, FirstDocument
<1>8. \A x : Awaited(x, i) => Backed(x)'
  BY <1>1, <1>6, <1>7 DEF Awaited
<1>9. \A j \in Ingesters \ {i} : pc[j] = "decorate" /\ table[j] = table[i] =>
        DOMAIN Batch(j)[1] \subseteq DOMAIN widened
  BY <1>2 DEF ColumnsInv, FirstDocument
<1> QED BY <1>1, <1>4, <1>5, <1>6, <1>8, <1>9, WritingStep

LEMMA AssignColsColumns ==
  ASSUME IngestInv, ColumnsInv, NEW i \in Ingesters, AssignCols(i)
  PROVE  ColumnsInv' /\ \A x : Backed(x) => Backed(x)'
<1> DEFINE w     == work[i]
           new   == Restrict(w.attrs, w.promoted)
           alter == Statement("alter", new, <<>>)
           widened == Merge(w.copy, new)
           all   == IF DOMAIN new = {} THEN w.stmts ELSE Append(w.stmts, alter)
<1>1. /\ Shape /\ pc[i] = "assign" /\ table[i] \in Objects /\ w \in Locals
      /\ w.stmts \in Seq(AStatement) /\ w.promoted \subseteq DOMAIN w.attrs
      /\ w.attrs \in Documents
  BY PartsOfDocument DEF AssignCols, IngestInv, IngesterInv, InProgress, Locals
<1>2. DOMAIN widened = DOMAIN w.copy \union DOMAIN new
  BY DEF Merge
<1>3. alter \in AStatement /\ alter.cols = new
  <2>1. new \in TableColumns
    BY <1>1, RestrictType, DocumentsAreColumns DEF Documents
  <2> QED BY <2>1 DEF Statement, AStatement
<1>4. /\ heap' = [heap EXCEPT ![table[i]] = widened] /\ pc' = [pc EXCEPT ![i] = "filter"]
      /\ UNCHANGED <<turn, table, published, db, snapshot, abandoned>>
      /\ \A j \in Ingesters \ {i} : work'[j] = work[j]
      /\ work'[i].stmts = all
  <2>1. work' = [work EXCEPT ![i] =
          [w EXCEPT !.attrs = Restrict(@, DOMAIN @ \ w.promoted), !.promoted = {},
                    !.copy = NoColumns, !.stmts = all]]
    BY DEF AssignCols
  <2> HIDE DEF all
  <2>2. work'[i].stmts = all /\ \A j \in Ingesters \ {i} : work'[j] = work[j]
    BY <1>1, <2>1 DEF Shape, Locals
  <2> QED BY <2>2 DEF AssignCols, Go, dbVars, envVars
<1>5. OthersRest(i) /\ pc'[i] = "filter"
  BY <1>1, <1>4 DEF OthersRest, Shape
<1> HIDE DEF alter, widened, new
<1>6. /\ \A n \in 1 .. Len(w.stmts) : n \in 1 .. Len(all) /\ all[n] = w.stmts[n]
      /\ \A x \in DOMAIN new : \E n \in 1 .. Len(all) : x \in DOMAIN all[n].cols
  BY <1>1, <1>3, AppendKeeps
<1> HIDE DEF all
<1>7. \A x \in DOMAIN new : Backed(x)'
  BY <1>4, <1>6 DEF Backed, Awaited
<1>8. \A x : Awaited(x, i) => Backed(x)'
  BY <1>1, <1>4, <1>6, StatementsKept
<1>9. \A x : Backed(x) => Backed(x)'
  BY <1>4, <1>5, <1>8, BackedGrows
<1>10. \A x \in DOMAIN widened : Backed(x)'
  BY <1>1, <1>2, <1>7, <1>9 DEF ColumnsInv, TablesBacked
<1>11. \A j \in Ingesters \ {i} : pc[j] = "decorate" /\ table[j] = table[i] =>
         DOMAIN Batch(j)[1] \subseteq DOMAIN widened
  BY <1>1, <1>2 DEF ColumnsInv, FirstDocument
<1> QED BY <1>1, <1>4, <1>5, <1>8, <1>10, <1>11, WritingStep

\* A reload brings columns that ClickHouse has.
LEMMA ReloadColumns ==
  ASSUME IngestInv, ColumnsInv, NEW r \in Reloaders, Reload(r)
  PROVE  ColumnsInv' /\ \A x : Backed(x) => Backed(x)'
<1>1. Shape /\ UNCHANGED <<db, pc, turn, table, work, abandoned>>
  BY DEF IngestInv, Reload, ReadTables, Populate, ReadFails, dbVars, localVars, historyVars
<1>2. /\ \A x : Backed(x) <=> Backed(x)'
      /\ \A j \in Ingesters : Batch(j)' = Batch(j)
  BY <1>1 DEF Backed, Awaited, Batch
<1>3. \A q \in Reloaders : DOMAIN snapshot'[q].cols \subseteq DOMAIN db'
  <2>1. PICK b \in BOOLEAN, widened \in {db, NoColumns} :
          snapshot' = snapshot \/ snapshot' = [snapshot EXCEPT ![r] = [read |-> b, cols |-> widened]]
    BY DEF Reload, ReadTables, Populate, ReadFails
  <2>2. DOMAIN widened \subseteq DOMAIN db
    BY <2>1, NoColumnsType
  <2>3. \A q \in Reloaders : snapshot'[q] = snapshot[q] \/ snapshot'[q].cols = widened
    BY <1>1, <2>1 DEF Shape
  <2> QED BY <1>1, <2>2, <2>3 DEF ColumnsInv, TablesBacked
<1>4. CASE ReadTables(r) \/ ReadFails(r)
  <2>1. heap' = heap /\ (published' = published \/ published' = NoTable)
    BY <1>4 DEF ReadTables, ReadFails, memVars
  <2>2. NoTable \notin Objects
    BY DEF Objects, NoTable
  <2>3. TablesBacked'
    BY <1>1, <1>2, <1>3, <2>1, <2>2 DEF ColumnsInv, TablesBacked, InUse
  <2>4. FirstDocument'
    BY <1>1, <1>2, <2>1 DEF ColumnsInv, FirstDocument
  <2> QED BY <1>2, <2>3, <2>4 DEF ColumnsInv
<1>5. CASE Populate(r)
  <2> DEFINE o == CHOOSE o \in Objects : \A i \in Ingesters : o # table[i]
             widened == snapshot[r].cols
  <2>1. o \in Objects /\ \A i \in Ingesters : o # table[i]
    BY <1>1, UnusedObject
  <2>2. \/ published' = NoTable /\ heap' = heap
        \/ published' = o /\ heap' = [heap EXCEPT ![o] = widened]
    BY <1>5 DEF Populate, memVars
  <2> HIDE DEF o
  <2>3. \A p \in Objects \ {o} : heap'[p] = heap[p]
    BY <1>1, <2>2 DEF Shape
  <2>4. published' = o => heap'[o] = widened
    <3>1. o # NoTable
      BY <2>1 DEF Objects, NoTable
    <3> QED BY <1>1, <2>1, <2>2, <3>1 DEF Shape
  <2>5. ASSUME NEW p \in Objects, InUse(p)'
        PROVE  \A x \in DOMAIN heap'[p] : Backed(x)'
    <3>1. CASE p = published'
      <4>1. p = o
        BY <2>2, <2>5, <3>1 DEF Objects, NoTable
      <4>2. DOMAIN heap'[p] \subseteq DOMAIN db
        BY <2>4, <3>1, <4>1 DEF ColumnsInv, TablesBacked
      <4> QED BY <1>1, <4>2 DEF Backed
    <3>2. CASE p # published'
      BY <1>1, <1>2, <2>1, <2>3, <2>5, <3>2 DEF ColumnsInv, TablesBacked, InUse
    <3> QED BY <3>1, <3>2
  <2>6. TablesBacked'
    BY <1>1, <1>2, <1>3, <2>5 DEF ColumnsInv, TablesBacked
  <2>7. FirstDocument'
    <3>1. \A j \in Ingesters : pc[j] = "decorate" => heap'[table[j]] = heap[table[j]]
      BY <2>1, <2>3 DEF IngestInv, IngesterInv, Placed, HasTable
    <3> QED BY <1>1, <1>2, <3>1 DEF ColumnsInv, FirstDocument
  <2> QED BY <1>2, <2>6, <2>7 DEF ColumnsInv
<1> QED BY <1>4, <1>5 DEF Reload

-----------------------------------------------------------------------------
\* ClickHouse loses no column.
LEMMA DatabaseGrows ==
  ASSUME NEW i \in Ingesters,
         \/ Create(i) \/ Insert(i)
         \/ \E f \in DOMAIN Head(work[i].stmts).cols : Alter(i, f)
  PROVE  DOMAIN db \subseteq DOMAIN db'
<1>1. CASE Create(i)
  BY <1>1, NoColumnsType DEF Create
<1>2. ASSUME NEW f \in DOMAIN Head(work[i].stmts).cols, Alter(i, f)
      PROVE  DOMAIN db \subseteq DOMAIN db'
  BY <1>2 DEF Alter, Merge
<1>3. CASE Insert(i)
  BY <1>3 DEF Insert
<1> QED BY <1>1, <1>2, <1>3

\* The statements of a request that executes them: the first and the others.
LEMMA StatementsAre ==
  ASSUME IngestInv, NEW i \in Ingesters, pc[i] = "execute", work[i].stmts # <<>>
  PROVE  /\ Shape /\ IngesterInv(i)
         /\ Head(work[i].stmts) \in AStatement
         /\ Tail(work[i].stmts) \in Seq(AStatement)
         /\ \A n \in 1 .. Len(Tail(work[i].stmts)) :
              n + 1 \in 1 .. Len(work[i].stmts)
              /\ Tail(work[i].stmts)[n] = work[i].stmts[n + 1]
         /\ \A n \in 1 .. Len(work[i].stmts) :
              \/ n = 1 /\ work[i].stmts[n] = Head(work[i].stmts)
              \/ n - 1 \in 1 .. Len(Tail(work[i].stmts))
                 /\ work[i].stmts[n] = Tail(work[i].stmts)[n - 1]
         /\ 1 \in 1 .. Len(work[i].stmts) /\ Head(work[i].stmts) = work[i].stmts[1]
         /\ Head(work[i].stmts).kind = "insert" <=> Tail(work[i].stmts) = <<>>
<1> DEFINE q == work[i].stmts
           r == Tail(q)
<1>1. Shape /\ IngesterInv(i) /\ q \in Seq(AStatement) /\ InsertIsLast(q)
  BY DEF IngestInv, IngesterInv, InProgress, Shape, Locals
<1>2. /\ Head(q) \in AStatement /\ r \in Seq(AStatement) /\ (Head(q).kind = "insert" <=> r = <<>>)
      /\ Head(q) = q[1] /\ Len(q) \in Nat \ {0} /\ Len(r) = Len(q) - 1
      /\ \A n \in 1 .. Len(r) : r[n] = q[n + 1]
  BY <1>1, TailOfStatements, HeadTailProperties, LenProperties, EmptySeq
<1> HIDE DEF q, r
<1>3. \A n \in 1 .. Len(r) : n + 1 \in 1 .. Len(q) /\ r[n] = q[n + 1]
  BY <1>2
<1>4. \A n \in 1 .. Len(q) : n = 1 \/ (n - 1 \in 1 .. Len(r) /\ (n - 1) + 1 = n)
  BY <1>2
<1>5. 1 \in 1 .. Len(q)
  BY <1>2
<1> QED BY <1>1, <1>2, <1>3, <1>4, <1>5 DEF q, r

\* What a request puts in the place of its first statement when that is done.
LEMMA HeadReplaced ==
  ASSUME IngestInv, NEW i \in Ingesters, pc[i] = "execute", work[i].stmts # <<>>,
         NEW t \in AStatement
  PROVE  LET r   == Tail(work[i].stmts)
             all == <<t>> \o r
         IN  /\ all \in Seq(AStatement) /\ all[1] = t /\ 1 \in 1 .. Len(all)
             /\ \A n \in 1 .. Len(r) : n + 1 \in 1 .. Len(all) /\ all[n + 1] = r[n]
             /\ \A n \in 1 .. Len(all) : n = 1 \/ (n - 1 \in 1 .. Len(r) /\ all[n] = r[n - 1])
<1> DEFINE r   == Tail(work[i].stmts)
           all == <<t>> \o r
<1>1. r \in Seq(AStatement) /\ Len(r) \in Nat
  BY StatementsAre, LenProperties
<1> HIDE DEF r
<1>2. <<t>> \in Seq(AStatement) /\ Len(<<t>>) = 1 /\ <<t>>[1] = t
  OBVIOUS
<1>3. /\ all \in Seq(AStatement) /\ Len(all) = Len(r) + 1 /\ all[1] = t
      /\ \A n \in 1 .. Len(r) : all[n + 1] = r[n]
  BY <1>1, <1>2, ConcatProperties
<1> HIDE DEF all
<1>4. /\ \A n \in 1 .. Len(all) : n = 1 \/ (n - 1 \in 1 .. Len(r) /\ (n - 1) + 1 = n)
      /\ \A n \in 1 .. Len(r) : n + 1 \in 1 .. Len(all)
      /\ 1 \in 1 .. Len(all)
  BY <1>1, <1>3
<1> QED BY <1>3, <1>4 DEF all, r

\* What ExecuteWhole and ExecuteAlter leave of the statements.
LEMMA ExecutedIs ==
  ASSUME IngestInv, NEW i \in Ingesters, ExecuteWhole(i) \/ ExecuteAlter(i)
  PROVE  /\ pc[i] = "execute" /\ work[i].stmts # <<>>
         /\ OthersRest(i) /\ UNCHANGED <<pc, turn, table, outcome, memVars, envVars, dropped>>
         /\ DOMAIN db \subseteq DOMAIN db' /\ abandoned \subseteq abandoned'
         /\ \/ /\ Create(i) \/ Insert(i)
               /\ work'[i].stmts = Tail(work[i].stmts)
               /\ DOMAIN Head(work[i].stmts).cols \subseteq DOMAIN db' \union abandoned'
            \/ /\ Head(work[i].stmts).kind = "alter" /\ stored' = stored
               /\ work'[i].stmts = Tail(work[i].stmts)
               /\ DOMAIN Head(work[i].stmts).cols \subseteq DOMAIN db'
            \/ /\ Head(work[i].stmts).kind = "alter" /\ stored' = stored
               /\ \E t \in AStatement :
                    /\ work'[i].stmts = <<t>> \o Tail(work[i].stmts)
                    /\ t.kind = "alter"
                    /\ DOMAIN Head(work[i].stmts).cols \subseteq DOMAIN db' \union DOMAIN t.cols
<1> DEFINE s == Head(work[i].stmts)
           r == Tail(work[i].stmts)
<1>1. /\ pc[i] = "execute" /\ work[i].stmts # <<>> /\ Shape
      /\ UNCHANGED <<pc, turn, table, outcome, memVars, envVars, dropped>>
  BY DEF ExecuteWhole, ExecuteAlter, Create, Insert, NextStatement, IngestInv, historyVars
<1>2. s \in AStatement
  BY <1>1, StatementsAre
<1>3. ASSUME NEW stmts, work' = [work EXCEPT ![i].stmts = stmts]
      PROVE  work'[i].stmts = stmts /\ OthersRest(i)
  BY <1>1, <1>3 DEF Shape, Locals, OthersRest
<1>4. CASE ExecuteWhole(i)
  <2>1. /\ Create(i) \/ Insert(i)
        /\ work' = [work EXCEPT ![i].stmts = r]
        /\ abandoned' = abandoned \union (DOMAIN s.cols \ DOMAIN db')
    BY <1>1, <1>4 DEF ExecuteWhole, Shape
  <2> HIDE DEF r
  <2>2. work'[i].stmts = r /\ OthersRest(i)
    BY <1>3, <2>1
  <2>3. DOMAIN db \subseteq DOMAIN db'
    BY <2>1, DatabaseGrows
  <2> QED BY <1>1, <2>1, <2>2, <2>3 DEF r
<1>5. CASE ExecuteAlter(i)
  <2>1. PICK f \in DOMAIN s.cols :
          /\ Alter(i, f)
          /\ work' = [work EXCEPT ![i].stmts =
               IF DOMAIN s.cols = {f} THEN Tail(@)
               ELSE <<[s EXCEPT !.cols = Restrict(@, DOMAIN @ \ {f})]>> \o Tail(@)]
    BY <1>5 DEF ExecuteAlter
  <2> DEFINE t == [s EXCEPT !.cols = Restrict(@, DOMAIN @ \ {f})]
             rest == <<t>> \o r
  <2>2. t \in AStatement /\ t.kind = s.kind /\ DOMAIN t.cols = DOMAIN s.cols \ {f}
    <3>1. /\ Restrict(s.cols, DOMAIN s.cols \ {f}) \in TableColumns
          /\ DOMAIN Restrict(s.cols, DOMAIN s.cols \ {f}) = DOMAIN s.cols \ {f}
      BY <1>2, RestrictType DEF AStatement, TableColumns
    <3> QED BY <1>2, <3>1 DEF AStatement
  <2>3. work' = [work EXCEPT ![i].stmts = IF DOMAIN s.cols = {f} THEN r ELSE rest]
    BY <1>1, <2>1 DEF Shape
  <2> HIDE DEF t
  <2>4. /\ s.kind = "alter" /\ stored' = stored /\ abandoned' = abandoned
        /\ DOMAIN db' = {f} \union DOMAIN db
    BY <1>5, <2>1 DEF ExecuteAlter, Alter, NextStatement, Merge, Restrict, historyVars
  <2>5. CASE DOMAIN s.cols = {f}
    <3>1. work'[i].stmts = r /\ OthersRest(i)
      <4>1. work' = [work EXCEPT ![i].stmts = r]
        BY <2>3, <2>5
      <4> HIDE DEF r
      <4> QED BY <1>3, <4>1
    <3> QED BY <1>1, <2>4, <2>5, <3>1
  <2>6. CASE DOMAIN s.cols # {f}
    <3>1. work'[i].stmts = rest /\ OthersRest(i)
      <4>1. work' = [work EXCEPT ![i].stmts = rest]
        BY <2>3, <2>6
      <4> HIDE DEF rest
      <4> QED BY <1>3, <4>1
    <3> QED BY <1>1, <2>2, <2>4, <3>1
  <2> QED BY <2>5, <2>6
<1> QED BY <1>4, <1>5

LEMMA ExecuteColumns ==
  ASSUME IngestInv, ColumnsInv, NEW i \in Ingesters, ExecuteWhole(i) \/ ExecuteAlter(i)
  PROVE  ColumnsInv' /\ \A x : Backed(x) => Backed(x)'
<1> DEFINE q == work[i].stmts
           s == Head(q)
           r == Tail(q)
<1>1. /\ pc[i] = "execute" /\ q # <<>>
      /\ OthersRest(i) /\ UNCHANGED <<pc, turn, table, outcome, memVars, envVars, dropped>>
      /\ DOMAIN db \subseteq DOMAIN db' /\ abandoned \subseteq abandoned'
  BY ExecutedIs
<1>2. ASSUME NEW x, Awaited(x, i)
      PROVE  Backed(x)'
  <2>1. PICK n \in 1 .. Len(q) : x \in DOMAIN q[n].cols
    BY <1>1, <1>2 DEF Awaited
  <2>2. \/ n = 1 /\ q[n] = s
        \/ n - 1 \in 1 .. Len(r) /\ q[n] = r[n - 1]
    BY <1>1, StatementsAre
  <2>3. CASE work'[i].stmts = r /\ DOMAIN s.cols \subseteq DOMAIN db' \union abandoned'
    BY <2>1, <2>2, <2>3 DEF Backed, Awaited
  <2>4. ASSUME NEW t \in AStatement, work'[i].stmts = <<t>> \o r,
               DOMAIN s.cols \subseteq DOMAIN db' \union DOMAIN t.cols
        PROVE  Backed(x)'
    <3> DEFINE all == <<t>> \o r
    <3>1. /\ all[1] = t /\ 1 \in 1 .. Len(all)
          /\ \A m \in 1 .. Len(r) : m + 1 \in 1 .. Len(all) /\ all[m + 1] = r[m]
      BY <1>1, HeadReplaced
    <3> HIDE DEF all
    <3>2. work'[i].stmts = all
      BY <2>4 DEF all
    <3>3. x \in DOMAIN db' \/ \E m \in 1 .. Len(all) : x \in DOMAIN all[m].cols
      BY <2>1, <2>2, <2>4, <3>1
    <3> QED BY <3>2, <3>3 DEF Backed, Awaited
  <2>5. \/ work'[i].stmts = r /\ DOMAIN s.cols \subseteq DOMAIN db' \union abandoned'
        \/ \E t \in AStatement :
             /\ work'[i].stmts = <<t>> \o r
             /\ DOMAIN s.cols \subseteq DOMAIN db' \union DOMAIN t.cols
    BY ExecutedIs
  <2> QED BY <2>3, <2>4, <2>5
<1> QED BY <1>1, <1>2, QuietStep DEF memVars, envVars

\* Every step: nothing that is backed stops being so.
LEMMA ColumnsNext ==
  ASSUME IngestInv, ColumnsInv, [Next]_vars
  PROVE  ColumnsInv' /\ \A x : Backed(x) => Backed(x)'
<1>1. ASSUME NEW i \in Ingesters, Build(i) \/ Retry(i)
      PROVE  ColumnsInv' /\ \A x : Backed(x) => Backed(x)'
  BY <1>1, BuildingColumns, AddTableColumns, DecorateColumns, AssignColsColumns DEF Build
<1>2. ASSUME NEW i \in Ingesters, Refused(i) \/ ExecuteFails(i)
      PROVE  ColumnsInv' /\ \A x : Backed(x) => Backed(x)'
  BY <1>2, FailColumns DEF Refused, ExecuteFails, dbVars, memVars, envVars
<1>3. ASSUME NEW i \in Ingesters, AnswerLost(i)
      PROVE  ColumnsInv' /\ \A x : Backed(x) => Backed(x)'
  <2>1. DOMAIN db \subseteq DOMAIN db'
    BY <1>3, DatabaseGrows DEF AnswerLost
  <2> QED BY <1>3, <2>1, FailColumns DEF AnswerLost, memVars
<1>4. ASSUME NEW i \in Ingesters, Acknowledge(i) \/ GiveUp(i)
      PROVE  ColumnsInv' /\ \A x : Backed(x) => Backed(x)'
  <2>1. /\ OthersRest(i) /\ work' = work /\ pc'[i] = "idle" /\ pc[i] # "decorate"
        /\ table'[i] = NoTable
        /\ UNCHANGED <<heap, published, snapshot, db, abandoned>>
    BY <1>4
       DEF Acknowledge, GiveUp, Finish, Go, IngestInv, Shape, OthersRest, dbVars, memVars,
           historyVars
  <2>2. \A x : Awaited(x, i) => Backed(x)'
    BY <2>1, StatementsKept
  <2> QED BY <2>1, <2>2, QuietStep
<1>5. ASSUME NEW r \in Reloaders, Reload(r)
      PROVE  ColumnsInv' /\ \A x : Backed(x) => Backed(x)'
  BY <1>5, ReloadColumns
<1>6. CASE UNCHANGED vars
  BY <1>6
     DEF vars, dbVars, memVars, localVars, envVars, historyVars, ColumnsInv, TablesBacked,
         FirstDocument, InUse, Backed, Awaited, Batch
<1>7. ASSUME NEW i \in Ingesters, Execute(i)
      PROVE  ColumnsInv' /\ \A x : Backed(x) => Backed(x)'
  BY <1>2, <1>3, <1>4, <1>7, ExecuteColumns DEF Execute
<1> QED BY <1>1, <1>4, <1>5, <1>6, <1>7 DEF Next, Ingest

-----------------------------------------------------------------------------
(* The rows account for every field of their documents.                    *)

\* Rows that do stay accounted for.
LEMMA StaysAccounted ==
  ASSUME NEW i \in Ingesters, \A x : Backed(x) => Backed(x)', dropped[i] \subseteq dropped'[i],
         NEW doc, NEW row, Accounted(i, doc, row)
  PROVE  Accounted(i, doc, row)'
BY DEF Accounted, Missing

\* A step of somebody else: what it takes out of the table object the ingester
\* holds is in dropped.
LEMMA OthersDocuments ==
  ASSUME NEW i \in Ingesters, DocumentsInv(i), \A x : Backed(x) => Backed(x)',
         pc'[i] = pc[i], turn'[i] = turn[i], table'[i] = table[i], work'[i] = work[i],
         dropped[i] \subseteq dropped'[i],
         HasTable(i) => DOMAIN heap[table[i]] \subseteq DOMAIN heap'[table[i]] \union dropped'[i]
  PROVE  DocumentsInv(i)'
<1>1. Batch(i)' = Batch(i)
  BY DEF Batch
<1>2. DocumentsSplit(i)'
  BY <1>1 DEF DocumentsInv, DocumentsSplit
<1>3. AttributesAre(i)'
  BY DEF DocumentsInv, AttributesAre, HasTable
<1>4. RowsSoFar(i)'
  BY <1>1, StaysAccounted DEF DocumentsInv, RowsSoFar
<1>5. InsertAccounted(i)'
  BY <1>1, StaysAccounted DEF DocumentsInv, InsertAccounted
<1> QED BY <1>2, <1>3, <1>4, <1>5 DEF DocumentsInv

\* What a step of one ingester leaves to another.
LEMMA OthersAre ==
  ASSUME IngestInv, DroppedType, NEW i \in Ingesters, Ingest(i), NEW j \in Ingesters \ {i}
  PROVE  /\ pc'[j] = pc[j] /\ turn'[j] = turn[j] /\ table'[j] = table[j] /\ work'[j] = work[j]
         /\ dropped[j] \subseteq dropped'[j]
         /\ HasTable(j) => DOMAIN heap[table[j]] \subseteq DOMAIN heap'[table[j]] \union dropped'[j]
<1>1. Shape /\ (HasTable(j) => table[j] \in Objects)
  BY DEF IngestInv, IngesterInv, Placed
<1>2. CASE Begin(i) \/ CheckAbsent(i) \/ Retry(i)
  BY <1>1, <1>2 DEF Begin, CheckAbsent, Retry, Go, Shape, DroppedType, memVars, historyVars
<1>3. ASSUME Fail(i), heap' = heap
      PROVE  /\ pc'[j] = pc[j] /\ turn'[j] = turn[j] /\ table'[j] = table[j] /\ work'[j] = work[j]
             /\ dropped[j] \subseteq dropped'[j] /\ heap' = heap
  BY <1>1, <1>3 DEF Fail, Go, Shape
<1>4. CASE AlreadyExists(i) \/ (Refind(i) /\ published = NoTable)
           \/ (Validate(i) /\ published = NoTable)
           \/ Refused(i) \/ ExecuteFails(i) \/ AnswerLost(i)
  <2>1. Fail(i) /\ heap' = heap
    BY <1>4 DEF AlreadyExists, Refind, Validate, Refused, ExecuteFails, AnswerLost, memVars
  <2> QED BY <1>3, <2>1
<1>5. CASE (Refind(i) \/ Validate(i)) /\ published # NoTable
  BY <1>1, <1>5 DEF Refind, Validate, Go, Shape, memVars, historyVars
<1>6. CASE AddTable(i)
  <2>1. Fresh(i) # table[j]
    BY <1>1, FreshType
  <2> QED BY <1>1, <1>6, <2>1 DEF AddTable, Go, Shape, historyVars
<1>7. CASE Decorate(i)
  <2>1. heap' = [heap EXCEPT ![table[i]] = Merge(heap[table[i]], OurColumns)]
    BY <1>7 DEF Decorate
  <2>2. HasTable(j) => DOMAIN heap[table[j]] \subseteq DOMAIN heap'[table[j]]
    BY <1>1, <2>1 DEF Shape, Merge
  <2> QED BY <1>1, <1>7, <2>2 DEF Decorate, Go, Shape, historyVars
<1>8. CASE NothingToAdd(i) \/ Filter(i)
  <2>1. PICK row \in Row, w \in Locals : AddRow(i, row, w) /\ w.stmts = work[i].stmts
    BY <1>8, RowAdded
  <2>2. pc'[j] = pc[j] /\ work'[j] = work[j]
    BY <2>1, AddRowStatements
  <2> QED BY <1>8, <2>2 DEF NothingToAdd, Filter, memVars, historyVars
<1>9. CASE Diff(i) \/ CopyCols(i)
  BY <1>1, <1>9 DEF Diff, CopyCols, Go, Shape, memVars, historyVars
<1>10. CASE AssignCols(i)
  <2> DEFINE widened == Merge(work[i].copy, Restrict(work[i].attrs, work[i].promoted))
             gone == DOMAIN heap[table[i]] \ DOMAIN widened
  <2>1. /\ heap' = [heap EXCEPT ![table[i]] = widened]
        /\ dropped'[j] = IF table[j] = table[i] THEN dropped[j] \union gone ELSE dropped[j]
        /\ pc'[j] = pc[j] /\ turn'[j] = turn[j] /\ table'[j] = table[j] /\ work'[j] = work[j]
    BY <1>1, <1>10 DEF AssignCols, Go, Shape
  <2> HIDE DEF widened
  <2> QED BY <1>1, <2>1 DEF Shape
<1>11. CASE ExecuteWhole(i) \/ ExecuteAlter(i)
  BY <1>11, ExecutedIs DEF OthersRest, memVars
<1>12. CASE Acknowledge(i) \/ GiveUp(i)
  BY <1>1, <1>12 DEF Acknowledge, GiveUp, Finish, Go, Shape, memVars, historyVars
<1> QED BY <1>2, <1>4, <1>5, <1>6, <1>7, <1>8, <1>9, <1>10, <1>11, <1>12
        DEF Ingest, Build, Execute

-----------------------------------------------------------------------------
(* The steps of an ingester that has no rows yet, or none any more.        *)

LEMMA NothingBuilt ==
  ASSUME IngestInv', NEW i \in Ingesters,
         pc'[i] \notin {"diff", "copy", "assign", "filter", "execute"},
         pc'[i] = "validate" => work'[i].valid = <<>>
  PROVE  DocumentsInv(i)'
<1>1. NoInsert(work'[i].stmts)
  BY DEF IngestInv, IngesterInv, InProgress
<1>2. InsertAccounted(i)'
  BY <1>1 DEF NoInsert, InsertAccounted
<1>3. DocumentsSplit(i)' /\ AttributesAre(i)' /\ RowsSoFar(i)'
  BY DEF DocumentsSplit, AttributesAre, RowsSoFar
<1> QED BY <1>2, <1>3 DEF DocumentsInv

LEMMA FailureDocuments ==
  ASSUME IngestInv, IngestInv', NEW i \in Ingesters, Fail(i)
  PROVE  DocumentsInv(i)'
<1>1. pc'[i] = "failed"
  BY DEF Fail, Go, IngestInv, Shape
<1> QED BY <1>1, NothingBuilt

LEMMA BeforeDocuments ==
  ASSUME IngestInv, IngestInv', NEW i \in Ingesters,
         \/ Begin(i) \/ AlreadyExists(i) \/ CheckAbsent(i) \/ Refind(i)
         \/ AddTable(i) \/ Decorate(i) \/ Retry(i) \/ Acknowledge(i) \/ GiveUp(i)
  PROVE  DocumentsInv(i)'
<1>1. Shape /\ InProgress(i) /\ NoWork.valid = <<>>
  BY NoWorkType DEF IngestInv, IngesterInv
<1>2. CASE Begin(i)
  BY <1>1, <1>2, NothingBuilt DEF Begin, Go, Shape, InProgress
<1>3. CASE AlreadyExists(i) \/ (Refind(i) /\ published = NoTable)
  BY <1>3, FailureDocuments DEF AlreadyExists, Refind
<1>4. CASE CheckAbsent(i) \/ AddTable(i) \/ Decorate(i) \/ Retry(i) \/ Acknowledge(i) \/ GiveUp(i)
  <2>1. pc'[i] \in {"publish", "decorate", "refind", "idle"}
    BY <1>1, <1>4 DEF CheckAbsent, AddTable, Decorate, Retry, Acknowledge, GiveUp, Finish, Go, Shape
  <2> QED BY <2>1, NothingBuilt
<1>5. CASE Refind(i) /\ published # NoTable
  <2>1. work'[i].valid = <<>> /\ pc'[i] = "validate"
    BY <1>1, <1>5 DEF Refind, Go, Shape, InProgress, NoWork
  <2> QED BY <2>1, NothingBuilt
<1> QED BY <1>2, <1>3, <1>4, <1>5

\* Validation splits the document.
LEMMA ValidateSplits ==
  ASSUME IngestInv, IngestInv', NEW i \in Ingesters, DocumentsInv(i), Validate(i)
  PROVE  DocumentsInv(i)'
<1>1. Shape /\ IngesterInv(i) /\ pc[i] = "validate"
  BY DEF IngestInv, Validate
<1>2. CASE published = NoTable
  BY <1>2, FailureDocuments DEF Validate
<1>3. CASE published # NoTable
  <2> DEFINE w == work[i]
             bad == Invalid(Doc(i), heap[published])
             fits == Restrict(Doc(i), DOMAIN Doc(i) \ bad)
             misfits == Restrict(Doc(i), bad)
             last == w.k = Len(Batch(i))
  <2>1. /\ w \in Locals /\ w.k <= Len(Batch(i)) /\ w.rows = <<>>
        /\ Len(w.valid) = w.k - 1 /\ Len(w.invalid) = w.k - 1 /\ NoInsert(w.stmts)
    BY <1>1 DEF IngesterInv, InProgress, Shape
  <2>2. DOMAIN fits \union DOMAIN misfits = DOMAIN Doc(i)
    BY DEF Invalid, Restrict
  <2>3. /\ work'[i] = [w EXCEPT !.valid = Append(@, fits), !.invalid = Append(@, misfits),
                                !.k = IF last THEN 1 ELSE @ + 1]
        /\ pc'[i] = (IF last THEN "diff" ELSE "validate") /\ turn' = turn
    BY <1>1, <1>3 DEF Validate, Go, Shape
  <2> HIDE DEF fits, misfits, bad
  <2>4. /\ work'[i].valid = Append(w.valid, fits) /\ work'[i].invalid = Append(w.invalid, misfits)
        /\ work'[i].rows = <<>> /\ work'[i].k = (IF last THEN 1 ELSE w.k + 1)
        /\ work'[i].stmts = w.stmts
    BY <2>1, <2>3 DEF Locals
  <2>5. w.valid \in Seq(Documents) /\ w.invalid \in Seq(Documents) /\ w.k \in Nat \ {0}
    BY <2>1 DEF Locals
  <2>6. \A m \in 1 .. Len(work'[i].valid) :
          \/ m = w.k /\ work'[i].valid[m] = fits /\ work'[i].invalid[m] = misfits
          \/ /\ m \in 1 .. Len(w.valid) /\ work'[i].valid[m] = w.valid[m]
             /\ work'[i].invalid[m] = w.invalid[m]
    <3> DEFINE n == Len(w.valid)
               vs == work'[i].valid
               us == work'[i].invalid
    <3>1. /\ n \in Nat /\ w.k = n + 1 /\ Len(w.invalid) = n
          /\ vs = Append(w.valid, fits) /\ us = Append(w.invalid, misfits)
      BY <2>1, <2>4, <2>5
    <3> DEFINE S == Documents \union {fits, misfits}
    <3>2. w.valid \in Seq(S) /\ w.invalid \in Seq(S) /\ fits \in S /\ misfits \in S
      BY <2>5
    <3> HIDE DEF n, vs, us, S, w
    <3>3. /\ Len(vs) = n + 1 /\ vs[n + 1] = fits /\ us[n + 1] = misfits
          /\ \A m \in 1 .. n : vs[m] = w.valid[m] /\ us[m] = w.invalid[m]
      BY <3>1, <3>2, AppendProperties DEF n
    <3>4. \A m \in 1 .. Len(vs) : m = w.k \/ m \in 1 .. n
      BY <3>1, <3>3
    <3> QED BY <3>1, <3>3, <3>4 DEF vs, us, n
  <2>7. Batch(i)' = Batch(i) /\ Doc(i) = Batch(i)[w.k]
    BY <2>3 DEF Batch, Doc
  <2>8. \A m \in 1 .. Len(w.valid) :
          DOMAIN w.valid[m] \union DOMAIN w.invalid[m] = DOMAIN Batch(i)[m]
    BY <1>1 DEF DocumentsInv, DocumentsSplit
  <2>9. DocumentsSplit(i)'
    BY <2>2, <2>6, <2>7, <2>8 DEF DocumentsSplit
  <2>10. AttributesAre(i)'
    BY <2>3 DEF AttributesAre
  <2>11. RowsSoFar(i)'
    BY <2>3, <2>4 DEF RowsSoFar
  <2>12. InsertAccounted(i)'
    BY <2>1, <2>4 DEF NoInsert, InsertAccounted
  <2> QED BY <2>9, <2>10, <2>11, <2>12 DEF DocumentsInv
<1> QED BY <1>2, <1>3

-----------------------------------------------------------------------------
(* The steps that build the rows.                                          *)

\* A row that accounts for its document is added to the others.
LEMMA AddRowDocuments ==
  ASSUME IngestInv, NEW i \in Ingesters, DocumentsInv(i), pc[i] \in {"diff", "filter"},
         NEW row \in Row, Accounted(i, Doc(i), row), NEW w \in Locals, w.k = work[i].k,
         w.valid = work[i].valid, w.invalid = work[i].invalid, w.rows = work[i].rows,
         w.stmts = work[i].stmts, AddRow(i, row, w),
         \A x : Backed(x) => Backed(x)', UNCHANGED <<turn, dropped>>
  PROVE  DocumentsInv(i)'
<1>1. /\ NoInsert(w.stmts) /\ w.stmts \in Seq(AStatement) /\ w.k \in 1 .. Len(Batch(i))
      /\ Len(Batch(i)) \in Nat /\ w.rows \in Seq(Row) /\ Shape
  BY PartsOfDocument DEF Locals, IngestInv
<1> DEFINE rows == Append(w.rows, row)
           s    == Statement("insert", NoColumns, rows)
           all  == Append(w.stmts, s)
<1>2. Len(w.rows) = w.k - 1 /\ \A m \in 1 .. Len(w.rows) : Accounted(i, Batch(i)[m], w.rows[m])
  BY DEF DocumentsInv, RowsSoFar
<1>3. /\ Len(rows) = w.k /\ rows \in Seq(Row)
      /\ \A m \in 1 .. Len(rows) : Accounted(i, Batch(i)[m], rows[m])
  <2>1. /\ Len(rows) = Len(w.rows) + 1 /\ rows \in Seq(Row) /\ rows[Len(w.rows) + 1] = row
        /\ \A m \in 1 .. Len(w.rows) : rows[m] = w.rows[m]
    BY <1>1
  <2> HIDE DEF rows
  <2>2. Len(rows) = w.k /\ \A m \in 1 .. Len(rows) : m = w.k \/ m \in 1 .. Len(w.rows)
    BY <1>1, <1>2, <2>1
  <2>3. Doc(i) = Batch(i)[w.k] /\ w.k = Len(w.rows) + 1
    BY <1>1, <1>2 DEF Doc
  <2> QED BY <1>2, <2>1, <2>2, <2>3
<1> HIDE DEF rows
<1>4. Batch(i)' = Batch(i)
  BY DEF Batch
<1>5. /\ pc' = [pc EXCEPT ![i] = IF w.k < Len(Batch(i)) THEN "diff" ELSE "execute"]
      /\ w.k < Len(Batch(i)) =>
           /\ work'[i].k = w.k + 1 /\ work'[i].rows = rows /\ work'[i].stmts = w.stmts
           /\ work'[i].valid = w.valid /\ work'[i].invalid = w.invalid
      /\ ~(w.k < Len(Batch(i))) => work'[i].stmts = all
  <2>1. CASE w.k < Len(Batch(i))
    <3> DEFINE m == w.k + 1
    <3>1. work' = [work EXCEPT ![i] = [w EXCEPT !.rows = rows, !.k = m]] /\ Go(i, "diff")
      BY <2>1 DEF AddRow, rows
    <3> HIDE DEF m
    <3>2. work'[i] = [w EXCEPT !.rows = rows, !.k = m]
      BY <1>1, <3>1 DEF Shape
    <3>3. /\ work'[i].k = m /\ work'[i].rows = rows /\ work'[i].stmts = w.stmts
          /\ work'[i].valid = w.valid /\ work'[i].invalid = w.invalid
      BY <3>2 DEF Locals
    <3> QED BY <2>1, <3>1, <3>3 DEF Go, m
  <2>2. CASE ~(w.k < Len(Batch(i)))
    <3>1. work' = [work EXCEPT ![i] = [NoWork EXCEPT !.stmts = all]] /\ Go(i, "execute")
      BY <2>2 DEF AddRow, rows
    <3> HIDE DEF all
    <3>2. work'[i] = [NoWork EXCEPT !.stmts = all]
      BY <1>1, <3>1 DEF Shape
    <3>3. work'[i].stmts = all
      BY <3>2 DEF NoWork
    <3> QED BY <2>2, <3>1, <3>3 DEF Go
  <2> QED BY <2>1, <2>2
<1>6. pc'[i] = IF w.k < Len(Batch(i)) THEN "diff" ELSE "execute"
  BY <1>1, <1>5 DEF Shape
<1>7. DocumentsSplit(i)' /\ AttributesAre(i)'
  BY <1>4, <1>5, <1>6 DEF DocumentsInv, DocumentsSplit, AttributesAre
<1>8. RowsSoFar(i)'
  <2>1. CASE w.k < Len(Batch(i))
    <3>1. Len(rows) = (w.k + 1) - 1
      BY <1>1, <1>3
    <3> QED BY <1>3, <1>4, <1>5, <1>6, <2>1, <3>1, StaysAccounted DEF RowsSoFar
  <2> QED BY <1>6, <2>1 DEF RowsSoFar
<1>9. InsertAccounted(i)'
  <2>1. CASE w.k < Len(Batch(i))
    BY <1>1, <1>5, <1>6, <2>1 DEF InsertAccounted, NoInsert
  <2>2. CASE ~(w.k < Len(Batch(i)))
    <3>1. Len(rows) = Len(Batch(i))
      BY <1>1, <1>3, <2>2
    <3>2. s \in AStatement /\ s.rows = rows /\ DOMAIN s.cols = {}
      BY <1>3, NoColumnsType DEF Statement, AStatement
    <3> HIDE DEF s
    <3>3. /\ Len(all) = Len(w.stmts) + 1 /\ all[Len(w.stmts) + 1] = s
          /\ \A n \in 1 .. Len(w.stmts) : all[n] = w.stmts[n]
          /\ Len(w.stmts) \in Nat
      BY <1>1, <3>2
    <3> HIDE DEF all
    <3>4. \A n \in 1 .. Len(all) : n = Len(w.stmts) + 1 \/ n \in 1 .. Len(w.stmts)
      BY <3>3
    <3>5. \A n \in 1 .. Len(all) : all[n].kind = "insert" => all[n] = s
      BY <1>1, <3>3, <3>4 DEF NoInsert
    <3>6. ASSUME NEW m \in 1 .. Len(Batch(i)), NEW r, r = rows[m]
          PROVE  Accounted(i, Batch(i)[m], r)'
      BY <1>3, <1>4, <3>1, <3>6, StaysAccounted
    <3> QED BY <1>4, <1>5, <2>2, <3>1, <3>2, <3>5, <3>6 DEF InsertAccounted
  <2> QED BY <2>1, <2>2
<1> QED BY <1>7, <1>8, <1>9 DEF DocumentsInv

\* The row of a document: a field that is neither a column of the table object
\* now nor was an attribute has been dropped meanwhile.
LEMMA RowDocuments ==
  ASSUME IngestInv, ColumnsInv, NEW i \in Ingesters, DocumentsInv(i),
         NothingToAdd(i) \/ Filter(i), \A x : Backed(x) => Backed(x)'
  PROVE  DocumentsInv(i)'
<1> DEFINE valid   == work[i].valid[work[i].k]
           invalid == work[i].invalid[work[i].k]
           present == heap[table[i]]
<1>1. PICK row \in Row, w \in Locals :
        /\ AddRow(i, row, w) /\ w.k = work[i].k /\ w.valid = work[i].valid
        /\ w.invalid = work[i].invalid /\ w.stmts = work[i].stmts
        /\ w.rows = work[i].rows
        /\ \/ /\ pc[i] = "diff" /\ row.data = valid
              /\ DOMAIN row.data \subseteq DOMAIN present
              /\ DOMAIN row.attributes = {} /\ DOMAIN invalid = {}
           \/ /\ pc[i] = "filter"
              /\ DOMAIN row.data = DOMAIN valid \intersect DOMAIN present
              /\ DOMAIN row.attributes = DOMAIN work[i].attrs \union DOMAIN invalid
  BY RowAdded
<1>2. /\ pc[i] \in {"diff", "filter"} /\ table[i] \in Objects
      /\ work[i].k \in 1 .. Len(work[i].valid) /\ UNCHANGED <<turn, dropped>>
  BY PartsOfDocument DEF NothingToAdd, Filter, historyVars
<1>3. DOMAIN valid \union DOMAIN invalid = DOMAIN Doc(i)
  BY <1>2 DEF DocumentsInv, DocumentsSplit, Doc
<1>4. pc[i] = "filter" => /\ DOMAIN work[i].attrs \subseteq DOMAIN valid
                          /\ DOMAIN valid \subseteq DOMAIN work[i].attrs
                               \union DOMAIN present \union dropped[i]
  BY DEF DocumentsInv, AttributesAre
<1>5. \A x \in DOMAIN present : Backed(x)
  BY <1>2 DEF ColumnsInv, TablesBacked, InUse
<1> HIDE DEF valid, invalid, present
<1>6. Accounted(i, Doc(i), row)
  BY <1>1, <1>3, <1>4, <1>5 DEF Accounted, Missing
<1> QED BY <1>1, <1>2, <1>6, AddRowDocuments

\* Between the documents: neither documents nor rows change.
LEMMA SameRows ==
  ASSUME IngestInv', NEW i \in Ingesters, DocumentsInv(i), pc[i] \in {"diff", "copy", "assign"},
         pc'[i] \in {"copy", "assign", "filter"}, work'[i].valid = work[i].valid,
         work'[i].invalid = work[i].invalid, work'[i].k = work[i].k, work'[i].rows = work[i].rows,
         turn' = turn, AttributesAre(i)', \A x : Backed(x) => Backed(x)',
         dropped'[i] = dropped[i]
  PROVE  DocumentsInv(i)'
<1>1. NoInsert(work'[i].stmts)
  BY DEF IngestInv, IngesterInv, InProgress
<1>2. InsertAccounted(i)'
  BY <1>1 DEF NoInsert, InsertAccounted
<1>3. Batch(i)' = Batch(i)
  BY DEF Batch
<1>4. DocumentsSplit(i)'
  BY <1>3 DEF DocumentsInv, DocumentsSplit
<1>5. RowsSoFar(i)'
  BY <1>3, StaysAccounted DEF DocumentsInv, RowsSoFar
<1> QED BY <1>2, <1>4, <1>5 DEF DocumentsInv

LEMMA ColumnsDocuments ==
  ASSUME IngestInv, IngestInv', DroppedType, NEW i \in Ingesters, DocumentsInv(i),
         Diff(i) \/ CopyCols(i) \/ AssignCols(i), \A x : Backed(x) => Backed(x)'
  PROVE  DocumentsInv(i)'
<1> DEFINE w == work[i]
           valid == w.valid[w.k]
           present == heap[table[i]]
<1>1. /\ pc[i] \in {"diff", "copy", "assign"} /\ w \in Locals /\ present \in TableColumns
      /\ valid \in Documents /\ table[i] \in Objects /\ Shape /\ IngesterInv(i)
      /\ UNCHANGED <<turn, table>> /\ dropped'[i] = dropped[i]
  BY PartsOfDocument DEF Diff, CopyCols, AssignCols, IngestInv, historyVars, DroppedType
<1>2. CASE Diff(i)
  <2> DEFINE attrs == DifferenceMap(valid, present)
  <2>1. DOMAIN attrs = DOMAIN valid \ DOMAIN present
    BY <1>1, PartsType
  <2>2. PICK promoted \in SUBSET DOMAIN attrs, to \in {"copy", "filter"} :
          /\ work' = [work EXCEPT ![i].attrs = attrs, ![i].promoted = promoted]
          /\ Go(i, to) /\ heap' = heap
    BY <1>2 DEF Diff, Promotions, memVars
  <2> HIDE DEF attrs
  <2>3. work'[i] = [w EXCEPT !.attrs = attrs, !.promoted = promoted] /\ pc'[i] = to
    BY <1>1, <2>2 DEF Shape, Go
  <2>4. /\ work'[i].attrs = attrs /\ work'[i].valid = w.valid /\ work'[i].invalid = w.invalid
        /\ work'[i].k = w.k /\ work'[i].rows = w.rows
    BY <1>1, <2>3 DEF Locals
  <2>5. AttributesAre(i)'
    BY <1>1, <2>1, <2>2, <2>3, <2>4 DEF AttributesAre
  <2> QED BY <1>1, <2>3, <2>4, <2>5, SameRows
<1>3. CASE CopyCols(i)
  <2>1. work'[i] = [w EXCEPT !.copy = present] /\ pc'[i] = "assign" /\ heap' = heap /\ pc[i] = "copy"
    BY <1>1, <1>3 DEF CopyCols, Shape, Go, memVars
  <2>2. /\ work'[i].attrs = w.attrs /\ work'[i].valid = w.valid /\ work'[i].invalid = w.invalid
        /\ work'[i].k = w.k /\ work'[i].rows = w.rows /\ work'[i].copy = present
    BY <1>1, <2>1 DEF Locals
  <2>3. AttributesAre(i)'
    BY <1>1, <2>1, <2>2 DEF DocumentsInv, AttributesAre
  <2> QED BY <1>1, <2>1, <2>2, <2>3, SameRows
<1>4. CASE AssignCols(i)
  <2> DEFINE new  == Restrict(w.attrs, w.promoted)
             left == Restrict(w.attrs, DOMAIN w.attrs \ w.promoted)
             all  == IF DOMAIN new = {} THEN w.stmts
                     ELSE Append(w.stmts, Statement("alter", new, <<>>))
  <2>1. /\ work'[i] = [w EXCEPT !.attrs = left, !.promoted = {}, !.copy = NoColumns,
                               !.stmts = all]
        /\ heap' = [heap EXCEPT ![table[i]] = Merge(w.copy, new)]
        /\ pc[i] = "assign" /\ pc'[i] = "filter"
    BY <1>1, <1>4 DEF AssignCols, Shape, Go
  <2>2. w.promoted \subseteq DOMAIN w.attrs /\ w.attrs \in Documents
    BY <1>1, <2>1 DEF IngesterInv, InProgress, Locals
  <2>3. DOMAIN new = w.promoted /\ DOMAIN left = DOMAIN w.attrs \ w.promoted
    BY <2>2, RestrictType DEF Documents
  <2> HIDE DEF new, left, all
  <2>4. /\ DOMAIN w.attrs \subseteq DOMAIN valid
        /\ DOMAIN valid \subseteq DOMAIN w.attrs \union DOMAIN w.copy \union dropped[i]
    BY <2>1 DEF DocumentsInv, AttributesAre
  <2>5. DOMAIN heap'[table[i]] = DOMAIN w.copy \union w.promoted
    <3>1. DOMAIN Merge(w.copy, new) = DOMAIN w.copy \union DOMAIN new
      BY DEF Merge
    <3>2. heap'[table[i]] = Merge(w.copy, new)
      BY <1>1, <2>1 DEF Shape
    <3> QED BY <2>3, <3>1, <3>2
  <2>6. /\ work'[i].attrs = left /\ work'[i].valid = w.valid /\ work'[i].invalid = w.invalid
        /\ work'[i].k = w.k /\ work'[i].rows = w.rows
    BY <1>1, <2>1 DEF Locals
  <2>7. /\ DOMAIN left \subseteq DOMAIN valid
        /\ DOMAIN valid \subseteq DOMAIN left \union DOMAIN heap'[table[i]] \union dropped[i]
    BY <2>3, <2>4, <2>5
  <2>8. AttributesAre(i)'
    BY <1>1, <2>1, <2>6, <2>7 DEF AttributesAre
  <2> QED BY <1>1, <2>1, <2>6, <2>8, SameRows
<1> QED BY <1>2, <1>3, <1>4

\* The INSERT among the statements that are left is the one there was.
LEMMA ExecuteDocuments ==
  ASSUME IngestInv, NEW i \in Ingesters, DocumentsInv(i), ExecuteWhole(i) \/ ExecuteAlter(i),
         \A x : Backed(x) => Backed(x)'
  PROVE  DocumentsInv(i)'
<1> DEFINE q   == work[i].stmts
           r   == Tail(q)
           new == work'[i].stmts
<1>1. /\ pc[i] = "execute" /\ q # <<>> /\ UNCHANGED <<pc, turn, dropped>>
      /\ \/ new = r
         \/ \E t \in AStatement : new = <<t>> \o r /\ t.kind = "alter"
  BY ExecutedIs
<1>2. \A n \in 1 .. Len(r) : n + 1 \in 1 .. Len(q) /\ r[n] = q[n + 1]
  BY <1>1, StatementsAre
<1>3. ASSUME NEW n \in 1 .. Len(new), new[n].kind = "insert"
      PROVE  \E m \in 1 .. Len(q) : new[n] = q[m]
  <2>1. CASE new = r
    BY <1>2, <2>1
  <2>2. ASSUME NEW t \in AStatement, new = <<t>> \o r, t.kind = "alter"
        PROVE  \E m \in 1 .. Len(q) : new[n] = q[m]
    <3> DEFINE all == <<t>> \o r
    <3>1. /\ all[1] = t
          /\ \A m \in 1 .. Len(all) : m = 1 \/ (m - 1 \in 1 .. Len(r) /\ all[m] = r[m - 1])
      BY <1>1, HeadReplaced
    <3> HIDE DEF all
    <3>2. new = all
      BY <2>2 DEF all
    <3>3. n - 1 \in 1 .. Len(r) /\ new[n] = r[n - 1]
      BY <1>3, <2>2, <3>1, <3>2
    <3> QED BY <1>2, <3>3
  <2> QED BY <1>1, <2>1, <2>2
<1>4. Batch(i)' = Batch(i)
  BY <1>1 DEF Batch
<1>5. InsertAccounted(i)'
  <2> HIDE DEF q, new, r
  <2>1. ASSUME NEW n \in 1 .. Len(new), new[n].kind = "insert"
        PROVE  /\ DOMAIN new[n].cols = {} /\ Len(new[n].rows) = Len(Batch(i))
               /\ \A m \in 1 .. Len(Batch(i)) : Accounted(i, Batch(i)[m], new[n].rows[m])
    BY <1>3, <2>1 DEF DocumentsInv, InsertAccounted, q
  <2> QED BY <1>1, <1>4, <2>1, StaysAccounted DEF InsertAccounted, new
<1>6. DocumentsSplit(i)' /\ AttributesAre(i)' /\ RowsSoFar(i)'
  BY <1>1 DEF DocumentsSplit, AttributesAre, RowsSoFar
<1> QED BY <1>5, <1>6 DEF DocumentsInv

-----------------------------------------------------------------------------
(* The invariant holds for ever.                                           *)

LEMMA DroppedNext ==
  ASSUME IngestInv, DroppedType, [Next]_vars
  PROVE  DroppedType'
<1>1. Shape
  BY DEF IngestInv
<1>2. ASSUME NEW i \in Ingesters, Begin(i)
      PROVE  DroppedType'
  BY <1>2 DEF Begin, DroppedType
<1>3. ASSUME NEW i \in Ingesters, AssignCols(i)
      PROVE  DroppedType'
  <2>1. DOMAIN heap[table[i]] \subseteq Fields \union {Ours}
    <3>1. heap[table[i]] \in TableColumns
      BY <1>3, PartsOfDocument DEF AssignCols
    <3> QED BY <3>1, ColumnsAre DEF TableColumns
  <2> DEFINE gone == DOMAIN heap[table[i]]
                       \ DOMAIN Merge(work[i].copy, Restrict(work[i].attrs, work[i].promoted))
  <2>2. dropped' = [j \in Ingesters |->
          IF j # i /\ table[j] = table[i] THEN dropped[j] \union gone ELSE dropped[j]]
    BY <1>3 DEF AssignCols
  <2>3. gone \subseteq Fields \union {Ours}
    BY <2>1
  <2> HIDE DEF gone
  <2> QED BY <2>2, <2>3 DEF DroppedType
<1>4. ASSUME dropped' = dropped
      PROVE  DroppedType'
  BY <1>4 DEF DroppedType
<1>5. ASSUME NEW i \in Ingesters, Ingest(i), ~Begin(i), ~AssignCols(i)
      PROVE  dropped' = dropped
  BY <1>5
     DEF Ingest, Build, Execute, AlreadyExists, CheckAbsent, AddTable, Decorate, Refind, Validate,
         NothingToAdd, Diff, CopyCols, Filter, ExecuteWhole, ExecuteAlter, Refused, ExecuteFails,
         AnswerLost, Acknowledge, Retry, GiveUp, Finish, Fail, historyVars
<1>6. ASSUME NEW r \in Reloaders, Reload(r)
      PROVE  dropped' = dropped
  BY <1>6 DEF Reload, ReadTables, Populate, ReadFails, historyVars
<1> QED BY <1>2, <1>3, <1>4, <1>5, <1>6 DEF Next, vars, historyVars

LEMMA LossInvInit == Init => LossInv
<1> SUFFICES ASSUME Init
             PROVE  LossInv
  OBVIOUS
<1>1. IngestInv
  BY IngestInvInit
<1>2. DroppedType
  BY DEF Init, DroppedType
<1>3. 1 \in Objects /\ NoTable \notin Objects
  BY <1>1, IngestTablesAssumption, FS_CardinalityType DEF Objects, NoTable
<1>4. ColumnsInv
  <2>1. \A o \in Objects : InUse(o) => heap[o] = db
    BY <1>3 DEF Init, InUse
  <2>2. \A r \in Reloaders : DOMAIN snapshot[r].cols \subseteq DOMAIN db
    BY NoColumnsType DEF Init
  <2> QED BY <2>1, <2>2 DEF Init, ColumnsInv, TablesBacked, FirstDocument, Backed
<1>5. ASSUME NEW i \in Ingesters
      PROVE  DocumentsInv(i)
  <2>1. NoInsert(work[i].stmts)
    BY NoWorkType DEF Init
  <2>2. InsertAccounted(i)
    BY <2>1 DEF NoInsert, InsertAccounted
  <2>3. DocumentsSplit(i) /\ AttributesAre(i) /\ RowsSoFar(i)
    BY DEF Init, DocumentsSplit, AttributesAre, RowsSoFar
  <2> QED BY <2>2, <2>3 DEF DocumentsInv
<1> QED BY <1>1, <1>2, <1>4, <1>5 DEF LossInv

LEMMA LossInvNext ==
  ASSUME LossInv, [Next]_vars
  PROVE  LossInv'
<1>1. IngestInv /\ IngestInv' /\ DroppedType /\ DroppedType' /\ ColumnsInv
  BY IngestInvNext, DroppedNext DEF LossInv
<1>2. ColumnsInv' /\ \A x : Backed(x) => Backed(x)'
  BY <1>1, ColumnsNext
<1>3. ASSUME NEW j \in Ingesters
      PROVE  DocumentsInv(j)'
  <2>1. DocumentsInv(j)
    BY DEF LossInv
  <2>2. ASSUME NEW i \in Ingesters, Ingest(i), j # i
        PROVE  DocumentsInv(j)'
    BY <1>1, <1>2, <2>1, <2>2, OthersAre, OthersDocuments
  <2>3. CASE Build(j)
    BY <1>1, <1>2, <2>1, <2>3, BeforeDocuments, ValidateSplits, RowDocuments, ColumnsDocuments
       DEF Build
  <2>4. CASE Execute(j)
    <3>1. CASE Refused(j) \/ ExecuteFails(j) \/ AnswerLost(j)
      BY <1>1, <3>1, FailureDocuments DEF Refused, ExecuteFails, AnswerLost
    <3> QED BY <1>1, <1>2, <2>1, <2>4, <3>1, ExecuteDocuments, BeforeDocuments DEF Execute
  <2>5. CASE Retry(j) \/ GiveUp(j)
    BY <1>1, <2>5, BeforeDocuments
  <2>6. ASSUME NEW r \in Reloaders, Reload(r)
        PROVE  DocumentsInv(j)'
    <3>1. HasTable(j) => heap'[table[j]] = heap[table[j]]
      <4>1. CASE Populate(r)
        <5> DEFINE o == CHOOSE o \in Objects : \A m \in Ingesters : o # table[m]
        <5>1. o # table[j]
          BY <1>1, UnusedObject DEF IngestInv
        <5> HIDE DEF o
        <5>2. heap' = heap \/ heap' = [heap EXCEPT ![o] = snapshot[r].cols]
          BY <4>1 DEF Populate, memVars, o
        <5> QED BY <1>1, <5>1, <5>2 DEF IngestInv, IngesterInv, Placed, Shape
      <4> QED BY <2>6, <4>1 DEF Reload, ReadTables, ReadFails, memVars
    <3>2. UNCHANGED <<localVars, historyVars>>
      BY <2>6 DEF Reload, ReadTables, Populate, ReadFails
    <3> QED BY <1>2, <2>1, <3>1, <3>2, OthersDocuments DEF localVars, historyVars
  <2>7. CASE UNCHANGED vars
    BY <1>2, <2>1, <2>7, OthersDocuments DEF vars, memVars, localVars, historyVars
  <2> QED BY <2>2, <2>3, <2>4, <2>5, <2>6, <2>7 DEF Next, Ingest
<1> QED BY <1>1, <1>2, <1>3 DEF LossInv

-----------------------------------------------------------------------------
(* What an INSERT stores.                                                  *)

\* What a step may add to what is stored for a request.
Explained(q) ==
  stored'[q] # stored[q] =>
    LET docs == Batches[q[1]][q[2]]
        rows == Last(stored'[q])
    IN  /\ DOMAIN rows = DOMAIN docs
        /\ \A k \in DOMAIN rows :
             /\ DOMAIN rows[k].data \union DOMAIN rows[k].attributes \subseteq DOMAIN docs[k]
             /\ Missing(docs[k], rows[k]) \subseteq
                  dropped[q[1]] \union (abandoned \ DOMAIN db)
                    \union UNION {Pending(j) : j \in Ingesters \ {q[1]}}

\* ClickHouse drops the columns it does not have: they were backed when the
\* rows were made, so somebody else is going to add them or has failed to.
LEMMA InsertExplained ==
  ASSUME LossInv, NEW i \in Ingesters, pc[i] = "execute", work[i].stmts # <<>>, Insert(i)
  PROVE  Explained(Request(i))
<1> DEFINE s    == Head(work[i].stmts)
           kept == [k \in DOMAIN s.rows |->
                      [s.rows[k] EXCEPT !.data = RemoveNonSchemaFields(@, db)]]
           docs == Batch(i)
           past == stored[Request(i)]
<1>1. /\ IngestInv /\ Shape /\ IngesterInv(i) /\ s \in AStatement /\ Tail(work[i].stmts) = <<>>
      /\ 1 \in 1 .. Len(work[i].stmts) /\ s = work[i].stmts[1]
      /\ \A n \in 1 .. Len(work[i].stmts) : n = 1
  <2>1. IngestInv /\ s.kind = "insert"
    BY DEF LossInv, Insert, NextStatement
  <2>2. Tail(work[i].stmts) = <<>> /\ 1 \in 1 .. Len(work[i].stmts) /\ s = work[i].stmts[1]
    BY <2>1, StatementsAre
  <2>3. \A n \in 1 .. Len(work[i].stmts) : n = 1 \/ n - 1 \in 1 .. Len(Tail(work[i].stmts))
    BY <2>1, StatementsAre
  <2>4. Len(Tail(work[i].stmts)) = 0
    <3>1. Len(<<>>) = 0
      BY EmptySeq
    <3> QED BY <2>2, <3>1
  <2> QED BY <2>1, <2>2, <2>3, <2>4, StatementsAre
<1>2. /\ s.kind = "insert" /\ stored' = [stored EXCEPT ![Request(i)] = Append(@, kept)]
      /\ Request(i) \in Requests
  BY <1>1, BatchType DEF Insert, NextStatement, IngesterInv
<1>3. /\ DOMAIN s.cols = {} /\ Len(s.rows) = Len(docs)
      /\ \A m \in 1 .. Len(docs) : Accounted(i, docs[m], s.rows[m])
  BY <1>1, <1>2 DEF LossInv, DocumentsInv, InsertAccounted
<1>4. s.rows \in Seq(Row) /\ docs \in Seq(Documents)
  BY <1>1, BatchType DEF AStatement, IngesterInv
<1>5. DOMAIN s.rows = 1 .. Len(docs) /\ DOMAIN docs = 1 .. Len(docs) /\ DOMAIN kept = DOMAIN s.rows
  BY <1>3, <1>4, LenProperties
<1>6. Last(stored'[Request(i)]) = kept
  <2>1. stored'[Request(i)] = Append(past, kept) /\ past \in Seq(Seq(Row))
    BY <1>1, <1>2 DEF Shape
  <2> DEFINE S == Seq(Row) \union {kept}
  <2>2. past \in Seq(S) /\ kept \in S
    BY <2>1
  <2> HIDE DEF S, past, kept
  <2>3. Append(past, kept)[Len(Append(past, kept))] = kept
    BY <2>2
  <2> QED BY <2>1, <2>3 DEF Last
<1>7. ASSUME NEW k \in DOMAIN s.rows
      PROVE  /\ DOMAIN kept[k].data = DOMAIN s.rows[k].data \intersect DOMAIN db
             /\ kept[k].attributes = s.rows[k].attributes
  <2>1. s.rows[k] \in Row
    BY <1>4
  <2>2. /\ kept[k].data = RemoveNonSchemaFields(s.rows[k].data, db)
        /\ kept[k].attributes = s.rows[k].attributes
    BY <2>1 DEF Row
  <2> QED BY <2>2 DEF RemoveNonSchemaFields, Restrict
<1> HIDE DEF kept
<1>8. ASSUME NEW x, Backed(x), x \notin DOMAIN db
      PROVE  x \in (abandoned \ DOMAIN db) \union UNION {Pending(j) : j \in Ingesters \ {i}}
  <2>1. ~Awaited(x, i)
    BY <1>1, <1>3 DEF Awaited
  <2>2. CASE x \in abandoned
    BY <1>8, <2>2
  <2>3. CASE \E j \in Ingesters : Awaited(x, j)
    <3>1. PICK j \in Ingesters \ {i} : Awaited(x, j)
      BY <2>1, <2>3
    <3>2. x \in Pending(j)
      BY <1>1, <3>1, PendingIs
    <3> QED BY <3>2
  <2> QED BY <1>8, <2>2, <2>3 DEF Backed
<1>9. ASSUME NEW k \in DOMAIN kept
      PROVE  /\ DOMAIN kept[k].data \union DOMAIN kept[k].attributes \subseteq DOMAIN docs[k]
             /\ Missing(docs[k], kept[k]) \subseteq
                  dropped[i] \union (abandoned \ DOMAIN db)
                    \union UNION {Pending(j) : j \in Ingesters \ {i}}
  <2>1. Accounted(i, docs[k], s.rows[k])
    BY <1>3, <1>5
  <2> DEFINE others == UNION {Pending(j) : j \in Ingesters \ {i}}
  <2>2. \A x \in DOMAIN s.rows[k].data \ DOMAIN db : x \in (abandoned \ DOMAIN db) \union others
    BY <1>8, <2>1 DEF Accounted
  <2> HIDE DEF others
  <2>3. /\ DOMAIN kept[k].data = DOMAIN s.rows[k].data \intersect DOMAIN db
        /\ kept[k].attributes = s.rows[k].attributes
    BY <1>5, <1>7
  <2>4. /\ DOMAIN kept[k].data \union DOMAIN kept[k].attributes \subseteq DOMAIN docs[k]
        /\ Missing(docs[k], kept[k]) \subseteq dropped[i] \union (abandoned \ DOMAIN db) \union others
    BY <2>1, <2>2, <2>3 DEF Accounted, Missing
  <2> QED BY <2>4 DEF others
<1>10. Request(i)[1] = i /\ Batches[Request(i)[1]][Request(i)[2]] = docs
  BY DEF Request, Batch
<1> HIDE DEF docs
<1> QED BY <1>5, <1>6, <1>9, <1>10 DEF Explained

LEMMA StepExplained ==
  ASSUME LossInv, [Next]_vars, NEW q \in Requests
  PROVE  Explained(q)
<1>1. IngestInv
  BY DEF LossInv
<1>2. ASSUME NEW i \in Ingesters, pc[i] = "execute", work[i].stmts # <<>>,
             \/ Create(i) \/ Insert(i)
             \/ \E f \in DOMAIN Head(work[i].stmts).cols : Alter(i, f)
      PROVE  Explained(q)
  <2>1. CASE Insert(i)
    BY <1>1, <1>2, <2>1, InsertExplained, DatabaseType DEF Explained
  <2>2. CASE ~Insert(i)
    BY <1>2, <2>2 DEF Explained, Create, Alter
  <2> QED BY <2>1, <2>2
<1>3. ASSUME NEW i \in Ingesters, ExecuteWhole(i) \/ ExecuteAlter(i) \/ AnswerLost(i)
      PROVE  Explained(q)
  <2>1. /\ pc[i] = "execute" /\ work[i].stmts # <<>>
        /\ \/ Create(i) \/ Insert(i)
           \/ \E f \in DOMAIN Head(work[i].stmts).cols : Alter(i, f)
    BY <1>3 DEF ExecuteWhole, ExecuteAlter, AnswerLost, Create, Insert, Alter, NextStatement
  <2> QED BY <1>2, <2>1
<1>4. ASSUME stored' = stored
      PROVE  Explained(q)
  BY <1>4 DEF Explained
<1>5. ASSUME NEW i \in Ingesters, Ingest(i), ~ExecuteWhole(i), ~ExecuteAlter(i), ~AnswerLost(i)
      PROVE  stored' = stored
  BY <1>5
     DEF Ingest, Build, Execute, Begin, AlreadyExists, CheckAbsent, AddTable, Decorate, Refind,
         Validate, NothingToAdd, Diff, CopyCols, AssignCols, Filter, Refused, ExecuteFails,
         Acknowledge, Retry, GiveUp, Finish, dbVars
<1>6. ASSUME NEW r \in Reloaders, Reload(r)
      PROVE  stored' = stored
  BY <1>6 DEF Reload, ReadTables, Populate, ReadFails, dbVars
<1> QED BY <1>3, <1>4, <1>5, <1>6 DEF Next, vars, dbVars

\* However many goroutines ingest into the table, whatever is reloaded and
\* whatever fails, processInsertQuery inserts a batch whole and in its order,
\* and a field of a document that does not reach ClickHouse has been taken out
\* of the table object by another goroutine (generateNewColumns), belongs to a
\* statement that failed or found another table, or is still to be added by
\* the statements of another request (executeStatements).
THEOREM LossesAreAlwaysExplained == Spec => LossesAreExplained
<1>1. Init => LossInv
  BY LossInvInit
<1>2. LossInv /\ [Next]_vars => LossInv'
  BY LossInvNext
<1>3. LossInv /\ [Next]_vars =>
        [\A q \in Requests : stored'[q] # stored[q] =>
           LET docs == Batches[q[1]][q[2]]
               rows == Last(stored'[q])
           IN  /\ DOMAIN rows = DOMAIN docs
               /\ \A k \in DOMAIN rows :
                    /\ DOMAIN rows[k].data \union DOMAIN rows[k].attributes \subseteq DOMAIN docs[k]
                    /\ Missing(docs[k], rows[k]) \subseteq
                         dropped[q[1]] \union (abandoned \ DOMAIN db)
                           \union UNION {Pending(j) : j \in Ingesters \ {q[1]}}]_vars
  BY StepExplained DEF Explained
<1> QED BY <1>1, <1>2, <1>3, PTL DEF Spec, LossesAreExplained

-----------------------------------------------------------------------------
(* Which fields become columns: sets of fields, and their order.           *)

LEMMA FieldSets ==
  ASSUME NEW S \in SUBSET FieldNumbers
  PROVE  IsFiniteSet(S) /\ Cardinality(S) \in Nat
<1>1. IsFiniteSet(FieldNumbers)
  BY ColumnPromotionAssumption, FS_Interval DEF FieldNumbers
<1> QED BY <1>1, FS_Subset, FS_CardinalityType

\* InOrder has every one of them, once: no two have as many that are not after
\* them.
LEMMA InOrderHasAll ==
  ASSUME NEW S \in SUBSET FieldNumbers
  PROVE  /\ InOrder(S) \in Seq(S) /\ Len(InOrder(S)) = Cardinality(S)
         /\ \A n, m \in 1 .. Len(InOrder(S)) : InOrder(S)[n] = InOrder(S)[m] => n = m
         /\ \A f \in S : \E n \in 1 .. Len(InOrder(S)) : InOrder(S)[n] = f
<1> DEFINE N       == Cardinality(S)
           s       == InOrder(S)
           upTo(f) == {g \in S : g <= f}
           rank    == [f \in S |-> Cardinality(upTo(f))]
<1>1. IsFiniteSet(S) /\ N \in Nat
  BY FieldSets
<1>2. \A f \in S : f \in Nat
  BY ColumnPromotionAssumption DEF FieldNumbers
<1>3. \A f \in S : /\ upTo(f) \in SUBSET S /\ f \in upTo(f) /\ IsFiniteSet(upTo(f))
                   /\ Cardinality(upTo(f)) \in Nat /\ Cardinality(upTo(f)) <= N
  BY <1>1, <1>2, FS_Subset, FS_CardinalityType
<1>4. rank \in [S -> 1 .. N]
  <2>1. \A f \in S : Cardinality(upTo(f)) # 0
    BY <1>3, FS_EmptySet
  <2> HIDE DEF upTo, N
  <2> QED BY <1>1, <1>3, <2>1
<1>5. \A f, g \in S : f < g => rank[f] < rank[g]
  <2> SUFFICES ASSUME NEW f \in S, NEW g \in S, f < g
               PROVE  Cardinality(upTo(f)) < Cardinality(upTo(g))
    OBVIOUS
  <2>1. upTo(f) \in SUBSET upTo(g) /\ g \in upTo(g) /\ g \notin upTo(f)
    BY <1>2
  <2> HIDE DEF upTo
  <2>2. Cardinality(upTo(f)) <= Cardinality(upTo(g)) /\ Cardinality(upTo(f)) # Cardinality(upTo(g))
    BY <1>3, <2>1, FS_Subset
  <2> QED BY <1>3, <2>2
<1> HIDE DEF rank, N, upTo, s
<1>6. rank \in Injection(S, 1 .. N)
  BY <1>2, <1>4, <1>5 DEF Injection, IsInjective
<1>7. rank \in Surjection(S, 1 .. N)
  <2>1. IsFiniteSet(1 .. N) /\ Cardinality(1 .. N) = N
    BY <1>1, FS_Interval
  <2> QED BY <1>6, <2>1, FS_Injection DEF N
<1>8. \A n \in 1 .. N : s[n] \in S /\ rank[s[n]] = n
  <2> SUFFICES ASSUME NEW n \in 1 .. N
               PROVE  s[n] \in S /\ rank[s[n]] = n
    OBVIOUS
  <2>1. s[n] = CHOOSE f \in S : Cardinality({g \in S : g <= f}) = n
    BY DEF N, s, InOrder
  <2>2. PICK f \in S : rank[f] = n
    BY <1>7 DEF Surjection
  <2>3. \A h \in S : rank[h] = Cardinality({g \in S : g <= h})
    BY DEF rank, upTo
  <2> QED BY <2>1, <2>2, <2>3
<1>9. s \in Seq(S) /\ Len(s) = N
  <2>1. DOMAIN s = 1 .. N /\ s = [n \in 1 .. N |-> s[n]]
    BY DEF N, s, InOrder
  <2>2. s \in [1 .. N -> S]
    BY <1>8, <2>1
  <2> QED BY <1>1, <2>2, SeqDef, LenProperties
<1>10. \A f \in S : s[rank[f]] = f
  <2> SUFFICES ASSUME NEW f \in S
               PROVE  s[rank[f]] = f
    OBVIOUS
  <2>1. rank[f] \in 1 .. N
    BY <1>4
  <2>2. s[rank[f]] \in S /\ rank[s[rank[f]]] = rank[f]
    BY <1>8, <2>1
  <2> QED BY <1>2, <1>5, <2>1, <2>2
<1> QED BY <1>4, <1>8, <1>9, <1>10 DEF N, s

-----------------------------------------------------------------------------
(* The loop over the fields of a document.                                 *)

\* ingestCounter with the document.
Started == Least(counter + 1, PromotionLimit)

\* after of Counted, for the first k fields.
IsCounting(a, keys, k) ==
  a = [n \in 0 .. k |-> IF n = 0 THEN [stats |-> statistics, counter |-> Started, chosen |-> {}]
                        ELSE CountField(a[n - 1], keys[n])]

Seen(keys, n) == {keys[m] : m \in 1 .. n}

\* What is chosen had been counted often enough before the document.  The
\* statistics have every field at most once more, or they have restarted with
\* this document.
CountedSoFar(s, keys, n) ==
  /\ s.stats \in [FieldNumbers -> Nat]
  /\ s.chosen \subseteq {f \in Seen(keys, n) : statistics[f] + 1 >= FieldFrequency}
  /\ \A f \in FieldNumbers \ Seen(keys, n) : s.stats[f] <= statistics[f]
  /\ IF n > 0 /\ Started = PromotionLimit
     THEN /\ s.counter = 0
          /\ \A f \in FieldNumbers : s.stats[f] <= (IF f \in Seen(keys, n) THEN 1 ELSE 0)
     ELSE /\ s.counter = Started
          /\ \A f \in FieldNumbers :
               s.stats[f] <= statistics[f] + (IF f \in Seen(keys, n) THEN 1 ELSE 0)

PromotionTypeOK ==
  /\ cols \in SUBSET FieldNumbers /\ counter \in 0 .. PromotionLimit
  /\ statistics \in [FieldNumbers -> Nat]
  /\ frequent \in SUBSET FieldNumbers /\ added \in SUBSET FieldNumbers
  /\ recent \in Seq(SUBSET FieldNumbers) /\ Len(recent) <= Window

\* A set of numbers has a least one (for the inductions below).
LEMMA LeastNatural ==
  ASSUME NEW T \in SUBSET Nat, T # {}
  PROVE  \E n \in T : \A k \in T : n <= k
<1> DEFINE Less == {p \in Nat \X Nat : p[1] < p[2]}
<1>1. OpToRel(<, Nat) = Less
  BY DEF OpToRel
<1>2. IsWellFoundedOn(Less, Nat)
  BY <1>1, NatLessThanWellFounded
<1> HIDE DEF Less
<1>3. PICK n \in T : \A y \in T : ~ (<<y, n>> \in Less)
  BY <1>2, WFMin
<1>4. \A y \in T : ~ (y < n)
  BY <1>3 DEF Less
<1> QED BY <1>4

\* There is such a function, for any k: if not, consider the least k.
LEMMA CountingExists ==
  ASSUME NEW keys, NEW k \in Nat
  PROVE  \E a : IsCounting(a, keys, k)
<1> DEFINE first == [stats |-> statistics, counter |-> Started, chosen |-> {}]
           bad   == {i \in Nat : ~ \E a : IsCounting(a, keys, i)}
<1> SUFFICES ASSUME bad # {}
             PROVE  FALSE
  OBVIOUS
<1>1. PICK n \in bad : \A i \in bad : n <= i
  <2> HIDE DEF bad
  <2>1. bad \in SUBSET Nat
    BY DEF bad
  <2> QED BY <2>1, LeastNatural
<1>2. CASE n = 0
  <2> DEFINE a == [i \in 0 .. 0 |-> first]
  <2>1. IsCounting(a, keys, 0)
    BY DEF IsCounting
  <2> QED BY <1>2, <2>1
<1>3. CASE n # 0
  <2>1. n - 1 \in Nat /\ n - 1 \notin bad
    BY <1>1, <1>3
  <2>2. PICK a : IsCounting(a, keys, n - 1)
    BY <2>1
  <2> DEFINE b == [i \in 0 .. n |-> IF i = n THEN CountField(a[n - 1], keys[n]) ELSE a[i]]
  <2>3. \A i \in 0 .. (n - 1) : a[i] = IF i = 0 THEN first ELSE CountField(a[i - 1], keys[i])
    BY <2>1, <2>2 DEF IsCounting
  <2> HIDE DEF first
  <2>4. \A i \in 0 .. n : b[i] = IF i = 0 THEN first ELSE CountField(b[i - 1], keys[i])
    BY <1>3, <2>1, <2>3
  <2>5. b = [i \in 0 .. n |-> IF i = 0 THEN first ELSE CountField(b[i - 1], keys[i])]
    BY <2>4
  <2>6. IsCounting(b, keys, n)
    <3> HIDE DEF b
    <3> QED BY <2>5 DEF IsCounting, first
  <2> QED BY <2>6
<1> QED BY <1>2, <1>3

LEMMA CountedIs ==
  ASSUME NEW keys, Len(keys) \in Nat
  PROVE  \E a : IsCounting(a, keys, Len(keys)) /\ Counted(keys) = a[Len(keys)]
<1> DEFINE a == CHOOSE b : IsCounting(b, keys, Len(keys))
<1>1. IsCounting(a, keys, Len(keys))
  BY CountingExists
<1>2. Counted(keys) = a[Len(keys)]
  BY DEF Counted, IsCounting, Started
<1> QED BY <1>1, <1>2

\* One iteration.
LEMMA CountFieldCounts ==
  ASSUME PromotionTypeOK, NEW n \in Nat, NEW keys, NEW s, CountedSoFar(s, keys, n),
         keys[n + 1] \in FieldNumbers, keys[n + 1] \notin Seen(keys, n)
  PROVE  CountedSoFar(CountField(s, keys[n + 1]), keys, n + 1)
<1> DEFINE f == keys[n + 1]
           t == CountField(s, f)
<1> SUFFICES CountedSoFar(t, keys, n + 1)
  OBVIOUS
<1>1. Seen(keys, n + 1) = Seen(keys, n) \union {f}
  <2>1. 1 .. n + 1 = (1 .. n) \union {n + 1}
    OBVIOUS
  <2> QED BY <2>1 DEF Seen
<1>2. /\ PromotionLimit \in Nat \ {0} /\ FieldFrequency \in Nat \ {0}
      /\ counter \in Nat /\ statistics \in [FieldNumbers -> Nat]
      /\ Started \in Nat /\ Started <= PromotionLimit
  BY ColumnPromotionAssumption DEF PromotionTypeOK, Started, Least
<1>3. s.stats[f] \in Nat /\ s.stats[f] <= statistics[f] /\ statistics[f] \in Nat
  BY <1>2 DEF CountedSoFar
<1>4. t.chosen \subseteq {g \in Seen(keys, n + 1) : statistics[g] + 1 >= FieldFrequency}
  <2>1. s.chosen \subseteq {g \in Seen(keys, n) : statistics[g] + 1 >= FieldFrequency}
    BY DEF CountedSoFar
  <2>2. t.chosen = IF s.stats[f] + 1 >= FieldFrequency THEN s.chosen \union {f} ELSE s.chosen
    BY DEF CountField
  <2> HIDE DEF t, f
  <2> QED BY <1>1, <1>2, <1>3, <2>1, <2>2
<1>5. CASE s.counter >= PromotionLimit
  <2>1. Started = PromotionLimit
    BY <1>2, <1>5 DEF CountedSoFar
  <2>2. t.stats = NoStatistics /\ t.counter = 0
    BY <1>5 DEF CountField
  <2> HIDE DEF t, f
  <2>3. /\ t.stats \in [FieldNumbers -> Nat]
        /\ \A g \in FieldNumbers : t.stats[g] = 0 /\ statistics[g] \in Nat
    BY <1>2, <2>2 DEF NoStatistics
  <2> QED BY <1>4, <2>1, <2>2, <2>3 DEF CountedSoFar
<1>6. CASE ~(s.counter >= PromotionLimit)
  <2>1. t.stats = [s.stats EXCEPT ![f] = @ + 1] /\ t.counter = s.counter
    BY <1>6 DEF CountField
  <2>2. s.stats \in [FieldNumbers -> Nat]
    BY DEF CountedSoFar
  <2>3. \A g \in FieldNumbers :
          t.stats[g] = (IF g = f THEN s.stats[g] + 1 ELSE s.stats[g]) /\ s.stats[g] \in Nat
    BY <2>1, <2>2
  <2>4. t.stats \in [FieldNumbers -> Nat]
    BY <2>1, <2>2
  <2>5. (n > 0 /\ Started = PromotionLimit) <=> (n + 1 > 0 /\ Started = PromotionLimit)
    BY <1>2, <1>6 DEF CountedSoFar
  <2>6. \A g \in FieldNumbers \ Seen(keys, n + 1) : t.stats[g] <= statistics[g]
    BY <1>1, <2>3 DEF CountedSoFar
  <2> HIDE DEF t
  <2>7. CASE n > 0 /\ Started = PromotionLimit
    <3>1. /\ s.counter = 0
          /\ \A g \in FieldNumbers : s.stats[g] <= (IF g \in Seen(keys, n) THEN 1 ELSE 0)
      BY <2>7 DEF CountedSoFar
    <3>2. \A g \in FieldNumbers : t.stats[g] <= (IF g \in Seen(keys, n + 1) THEN 1 ELSE 0)
      BY <1>1, <2>3, <3>1
    <3> QED BY <1>4, <2>1, <2>4, <2>5, <2>6, <2>7, <3>1, <3>2 DEF CountedSoFar
  <2>8. CASE ~(n > 0 /\ Started = PromotionLimit)
    <3>1. /\ s.counter = Started
          /\ \A g \in FieldNumbers :
               s.stats[g] <= statistics[g] + (IF g \in Seen(keys, n) THEN 1 ELSE 0)
      BY <2>8 DEF CountedSoFar
    <3>2. \A g \in FieldNumbers :
            t.stats[g] <= statistics[g] + (IF g \in Seen(keys, n + 1) THEN 1 ELSE 0)
      BY <1>1, <1>2, <2>3, <3>1
    <3> QED BY <1>4, <2>1, <2>4, <2>5, <2>6, <2>8, <3>1, <3>2 DEF CountedSoFar
  <2> QED BY <2>7, <2>8
<1> QED BY <1>5, <1>6

\* All iterations: consider the first that goes wrong.
LEMMA CountedCounts ==
  ASSUME PromotionTypeOK, NEW keys \in Seq(FieldNumbers),
         \A n, m \in 1 .. Len(keys) : keys[n] = keys[m] => n = m
  PROVE  CountedSoFar(Counted(keys), keys, Len(keys))
<1> DEFINE L == Len(keys)
<1>1. L \in Nat /\ \A n \in 1 .. L : keys[n] \in FieldNumbers
  OBVIOUS
<1>2. PICK a : IsCounting(a, keys, L) /\ Counted(keys) = a[L]
  BY <1>1, CountedIs
<1>3. /\ a[0] = [stats |-> statistics, counter |-> Started, chosen |-> {}]
      /\ \A n \in 1 .. L : a[n] = CountField(a[n - 1], keys[n])
  <2> DEFINE value(n) == IF n = 0 THEN [stats |-> statistics, counter |-> Started, chosen |-> {}]
                         ELSE CountField(a[n - 1], keys[n])
  <2>1. a = [n \in 0 .. L |-> value(n)]
    BY <1>2 DEF IsCounting
  <2> HIDE DEF value, L
  <2>2. \A n \in 0 .. L : a[n] = value(n)
    BY <2>1
  <2>3. 0 \in 0 .. L /\ \A n \in 1 .. L : n \in 0 .. L /\ n # 0
    BY <1>1
  <2>4. a[0] = value(0) /\ \A n \in 1 .. L : a[n] = value(n) /\ n # 0
    BY <2>2, <2>3
  <2>5. value(0) = [stats |-> statistics, counter |-> Started, chosen |-> {}]
    BY DEF value
  <2>6. \A n \in 1 .. L : n # 0 => value(n) = CountField(a[n - 1], keys[n])
    BY Zenon DEF value
  <2> QED BY <2>4, <2>5, <2>6
<1> HIDE DEF L
<1> DEFINE bad == {n \in Nat : n <= L /\ ~CountedSoFar(a[n], keys, n)}
<1>4. bad = {}
  <2> SUFFICES ASSUME bad # {}
               PROVE  FALSE
    OBVIOUS
  <2>1. PICK n \in bad : \A i \in bad : n <= i
    <3> HIDE DEF bad
    <3>1. bad \in SUBSET Nat
      BY DEF bad
    <3> QED BY <3>1, LeastNatural
  <2>2. CASE n = 0
    <3>1. CountedSoFar(a[0], keys, 0)
      BY <1>3, ColumnPromotionAssumption DEF CountedSoFar, PromotionTypeOK
    <3> QED BY <2>1, <2>2, <3>1
  <2>3. CASE n # 0
    <3>1. n \in 1 .. L /\ n - 1 \in Nat /\ n - 1 \notin bad /\ (n - 1) + 1 = n
      BY <1>1, <2>1, <2>3
    <3>2. CountedSoFar(a[n - 1], keys, n - 1)
      BY <1>1, <3>1
    <3>3. keys[n] \in FieldNumbers /\ keys[n] \notin Seen(keys, n - 1)
      BY <1>1, <3>1 DEF Seen, L
    <3>4. CountedSoFar(CountField(a[n - 1], keys[(n - 1) + 1]), keys, (n - 1) + 1)
      <4> DEFINE m == n - 1
                 s == a[m]
      <4>1. m \in Nat /\ keys[m + 1] = keys[n] /\ CountedSoFar(s, keys, m)
        BY <3>1, <3>2
      <4> HIDE DEF m, s
      <4>2. keys[m + 1] \in FieldNumbers /\ keys[m + 1] \notin Seen(keys, m)
        BY <3>3, <4>1 DEF m
      <4>3. CountedSoFar(CountField(s, keys[m + 1]), keys, m + 1)
        BY <4>1, <4>2, CountFieldCounts
      <4> QED BY <4>3 DEF m, s
    <3>5. CountedSoFar(a[n], keys, n)
      BY <1>3, <3>1, <3>4
    <3> QED BY <2>1, <3>5
  <2> QED BY <2>2, <2>3
<1> QED BY <1>1, <1>2, <1>4 DEF L

-----------------------------------------------------------------------------
(* The documents remembered.                                               *)

\* Those of the last k documents of r that had the field.
Having(r, f, k) == {n \in 1 .. Len(r) : n + k > Len(r) /\ f \in r[n]}

\* The statistics are of the documents since they last restarted, of which
\* there are no more than the counter says and the one in which they did.
StatisticsAreRecent ==
  \A f \in FieldNumbers :
    statistics[f] <= Cardinality(Having(recent, f, Least(counter + 1, PromotionLimit)))

PromotionInv == PromotionTypeOK /\ StatisticsAreRecent /\ ChosenWereFrequent

LEMMA HavingType ==
  ASSUME NEW r \in Seq(SUBSET FieldNumbers), NEW f, NEW k \in Nat
  PROVE  /\ Having(r, f, k) \in SUBSET (1 .. Len(r))
         /\ IsFiniteSet(Having(r, f, k)) /\ Cardinality(Having(r, f, k)) \in Nat
<1>1. Having(r, f, k) \in SUBSET (1 .. Len(r)) /\ Len(r) \in Nat
  BY DEF Having
<1>2. IsFiniteSet(1 .. Len(r))
  BY <1>1, FS_Interval
<1> QED BY <1>1, <1>2, FS_Subset, FS_CardinalityType

\* More documents, more that have the field.
LEMMA HavingGrows ==
  ASSUME NEW r \in Seq(SUBSET FieldNumbers), NEW f, NEW k \in Nat, NEW j \in Nat, k <= j
  PROVE  /\ Cardinality(Having(r, f, k)) <= Cardinality(Having(r, f, j))
         /\ Cardinality(Having(r, f, k)) <= Cardinality({n \in DOMAIN r : f \in r[n]})
<1> DEFINE all == {n \in DOMAIN r : f \in r[n]}
<1>1. DOMAIN r = 1 .. Len(r) /\ Len(r) \in Nat
  OBVIOUS
<1>2. Having(r, f, k) \in SUBSET Having(r, f, j) /\ Having(r, f, k) \in SUBSET all
  BY <1>1 DEF Having
<1>3. IsFiniteSet(all)
  <2>1. IsFiniteSet(1 .. Len(r)) /\ all \in SUBSET (1 .. Len(r))
    BY <1>1, FS_Interval
  <2> QED BY <2>1, FS_Subset
<1>4. IsFiniteSet(Having(r, f, j))
  BY HavingType
<1> HIDE DEF all
<1> QED BY <1>2, <1>3, <1>4, FS_Subset DEF all

\* What Remember does to the sequence: the first is forgotten if it is full.
LEMMA RememberIs ==
  ASSUME PromotionTypeOK, NEW fields \in SUBSET FieldNumbers, Remember(fields)
  PROVE  /\ recent' \in Seq(SUBSET FieldNumbers) /\ Len(recent') <= Window
         /\ \E d \in {0, 1} :
              /\ d = 1 => Len(recent) = Window
              /\ Len(recent') = Len(recent) + 1 - d
              /\ \A n \in 1 .. Len(recent) - d : recent'[n] = recent[n + d]
              /\ recent'[Len(recent')] = fields
<1>1. /\ recent \in Seq(SUBSET FieldNumbers) /\ Len(recent) \in Nat /\ Len(recent) <= Window
      /\ PromotionLimit \in Nat /\ Window = PromotionLimit + 1 /\ PromotionLimit > 0
  BY ColumnPromotionAssumption DEF PromotionTypeOK, Window
<1>2. CASE Len(recent) = Window
  <2> DEFINE rest == Tail(recent)
  <2>1. /\ rest \in Seq(SUBSET FieldNumbers) /\ Len(rest) = Len(recent) - 1
        /\ \A n \in 1 .. Len(recent) - 1 : rest[n] = recent[n + 1]
    <3>1. recent # <<>>
      BY <1>1, <1>2
    <3> QED BY <1>1, <3>1, HeadTailProperties
  <2>2. recent' = Append(rest, fields)
    BY <1>2 DEF Remember
  <2> HIDE DEF rest
  <2>3. /\ recent' \in Seq(SUBSET FieldNumbers) /\ Len(recent') = Len(rest) + 1
        /\ \A n \in 1 .. Len(rest) : recent'[n] = rest[n]
        /\ recent'[Len(rest) + 1] = fields
    BY <2>1, <2>2, AppendProperties
  <2> QED BY <1>1, <1>2, <2>1, <2>3
<1>3. CASE Len(recent) # Window
  <2>1. recent' = Append(recent, fields)
    BY <1>3 DEF Remember
  <2>2. /\ recent' \in Seq(SUBSET FieldNumbers) /\ Len(recent') = Len(recent) + 1
        /\ \A n \in 1 .. Len(recent) : recent'[n] = recent[n]
        /\ recent'[Len(recent) + 1] = fields
    BY <1>1, <2>1, AppendProperties
  <2>3. \A n \in 1 .. Len(recent) - 0 : recent'[n] = recent[n + 0]
    BY <1>1, <2>2
  <2> QED BY <1>1, <1>3, <2>2, <2>3
<1> QED BY <1>2, <1>3

\* A document more: of those that had the field there is one more if it had,
\* and none is forgotten.
LEMMA RememberCounts ==
  ASSUME PromotionTypeOK, NEW fields \in SUBSET FieldNumbers, Remember(fields),
         NEW f, NEW k \in Nat, k <= PromotionLimit
  PROVE  Cardinality(Having(recent', f, k + 1))
           = Cardinality(Having(recent, f, k)) + (IF f \in fields THEN 1 ELSE 0)
<1> DEFINE r == recent
           s == recent'
           H == Having(r, f, k)
<1>1. /\ r \in Seq(SUBSET FieldNumbers) /\ Len(r) \in Nat
      /\ s \in Seq(SUBSET FieldNumbers) /\ Len(s) \in Nat
      /\ Window = PromotionLimit + 1 /\ PromotionLimit \in Nat
  BY ColumnPromotionAssumption, RememberIs DEF PromotionTypeOK, Window
<1>2. PICK d \in {0, 1} : /\ d = 1 => Len(r) = Window
                          /\ Len(s) = Len(r) + 1 - d
                          /\ \A n \in 1 .. Len(r) - d : s[n] = r[n + d]
                          /\ s[Len(s)] = fields
  BY RememberIs
<1> DEFINE T == {n - d : n \in H}
           g == [n \in H |-> n - d]
<1>3. \A n \in H : n \in 1 .. Len(r) /\ n + k > Len(r) /\ f \in r[n]
  BY DEF Having
<1>4. \A n \in H : n - d \in 1 .. Len(r) - d /\ (n - d) + d = n
  BY <1>1, <1>2, <1>3
<1>5. Having(s, f, k + 1) = T \union (IF f \in fields THEN {Len(s)} ELSE {})
  <2>1. ASSUME NEW n \in Having(s, f, k + 1)
        PROVE  n \in T \union (IF f \in fields THEN {Len(s)} ELSE {})
    <3>1. n \in 1 .. Len(s) /\ n + (k + 1) > Len(s) /\ f \in s[n]
      BY DEF Having
    <3>2. CASE n = Len(s)
      BY <1>2, <3>1, <3>2
    <3>3. CASE n # Len(s)
      <4>1. n \in 1 .. Len(r) - d /\ n + d \in 1 .. Len(r) /\ (n + d) + k > Len(r) /\ (n + d) - d = n
        BY <1>1, <1>2, <3>1, <3>3
      <4>2. n + d \in H
        BY <1>2, <3>1, <4>1 DEF Having
      <4> QED BY <4>1, <4>2
    <3> QED BY <3>2, <3>3
  <2>2. ASSUME NEW n \in T
        PROVE  n \in Having(s, f, k + 1)
    <3>1. PICK m \in H : n = m - d
      OBVIOUS
    <3>2. n \in 1 .. Len(r) - d /\ n + d = m
      BY <1>4, <3>1
    <3>3. s[n] = r[m] /\ f \in r[m] /\ m + k > Len(r) /\ m \in 1 .. Len(r)
      BY <1>2, <1>3, <3>2
    <3>4. n \in 1 .. Len(s) /\ n + (k + 1) > Len(s)
      BY <1>1, <1>2, <3>2, <3>3
    <3> QED BY <3>3, <3>4 DEF Having
  <2>3. f \in fields => Len(s) \in Having(s, f, k + 1)
    <3>1. Len(s) \in 1 .. Len(s) /\ Len(s) + (k + 1) > Len(s)
      BY <1>1, <1>2
    <3> QED BY <1>2, <3>1 DEF Having
  <2> HIDE DEF T, s
  <2> QED BY <2>1, <2>2, <2>3
<1>6. IsFiniteSet(H) /\ Cardinality(H) \in Nat
  BY <1>1, HavingType
<1>7. IsFiniteSet(T) /\ Cardinality(T) = Cardinality(H)
  <2>1. g \in [H -> T]
    OBVIOUS
  <2>2. \A n, m \in H : g[n] = g[m] => n = m
    BY <1>4
  <2>3. \A t \in T : \E n \in H : g[n] = t
    OBVIOUS
  <2> HIDE DEF H, T, g
  <2>4. g \in Bijection(H, T)
    BY <2>1, <2>2, <2>3 DEF Bijection, Injection, Surjection, IsInjective
  <2>5. ExistsBijection(H, T)
    BY <2>4 DEF ExistsBijection
  <2> QED BY <1>6, <2>5, FS_Bijection
<1>8. Len(s) \notin T
  BY <1>1, <1>2, <1>4
<1> HIDE DEF T, H, s
<1>9. CASE f \in fields
  BY <1>5, <1>6, <1>7, <1>8, <1>9, FS_AddElement DEF s, H
<1>10. CASE f \notin fields
  <2>1. Having(s, f, k + 1) = T
    BY <1>5, <1>10
  <2> QED BY <1>6, <1>7, <1>10, <2>1 DEF s, H
<1> QED BY <1>9, <1>10

-----------------------------------------------------------------------------
(* The steps. *)

LEMMA CounterType ==
  ASSUME PromotionTypeOK
  PROVE  /\ PromotionLimit \in Nat \ {0} /\ FieldFrequency \in Nat \ {0} /\ BaseColumns \in Nat
         /\ counter \in Nat /\ counter <= PromotionLimit
         /\ Started \in 1 .. PromotionLimit
         /\ Started = Least(counter + 1, PromotionLimit)
BY ColumnPromotionAssumption DEF PromotionTypeOK, Started, Least

\* The fields of a document that are not columns, and what is added of them.
LEMMA KeysType ==
  ASSUME PromotionTypeOK, NEW doc \in DocumentsOf, NEW chosen \in SUBSET ToSet(AttrKeys(doc))
  PROVE  LET keys == AttrKeys(doc) IN
         /\ keys \in Seq(FieldNumbers)
         /\ \A n, m \in 1 .. Len(keys) : keys[n] = keys[m] => n = m
         /\ ToSet(keys) = doc \ cols /\ ToSet(keys) = Seen(keys, Len(keys))
         /\ AddedOf(keys, chosen) \in SUBSET (doc \ cols)
         /\ doc \ cols \in SUBSET FieldNumbers
<1> DEFINE new  == doc \ cols
           keys == AttrKeys(doc)
<1>1. new \in SUBSET FieldNumbers
  BY DEF DocumentsOf
<1>2. keys = InOrder(new)
  BY DEF AttrKeys
<1> HIDE DEF new, keys
<1>3. /\ keys \in Seq(new) /\ Len(keys) = Cardinality(new)
      /\ \A n, m \in 1 .. Len(keys) : keys[n] = keys[m] => n = m
      /\ \A f \in new : \E n \in 1 .. Len(keys) : keys[n] = f
  BY <1>1, <1>2, InOrderHasAll
<1>4. /\ Len(keys) \in Nat /\ DOMAIN keys = 1 .. Len(keys)
      /\ \A n \in 1 .. Len(keys) : keys[n] \in new
  BY <1>3
<1>5. keys \in Seq(FieldNumbers)
  BY <1>1, <1>3, SeqMonotonic
<1>6. ToSet(keys) = new /\ ToSet(keys) = Seen(keys, Len(keys))
  BY <1>3, <1>4 DEF ToSet, Seen
<1>7. AddedOf(keys, chosen) \in SUBSET new
  <2>1. chosen \in SUBSET new
    BY <1>6 DEF keys
  <2>2. Cardinality(chosen) \in Nat /\ Cardinality(chosen) <= Len(keys)
    BY <1>1, <1>3, <2>1, FieldSets, FS_Subset
  <2>3. \A n \in 1 .. Cardinality(chosen) : keys[n] \in new
    BY <1>4, <2>2
  <2> QED BY <2>3 DEF AddedOf
<1> QED BY <1>1, <1>3, <1>5, <1>6, <1>7 DEF new, keys

\* As the counter goes on, the statistics are of no more documents than before.
LEMMA StatisticsStay ==
  ASSUME PromotionInv, UNCHANGED <<statistics, recent>>, counter' = Started
  PROVE  StatisticsAreRecent'
<1> DEFINE k == Least(counter + 1, PromotionLimit)
           j == Least(counter' + 1, PromotionLimit)
<1>1. k \in Nat /\ j \in Nat /\ k <= j
  BY CounterType DEF PromotionInv, Least
<1>2. recent \in Seq(SUBSET FieldNumbers) /\ statistics \in [FieldNumbers -> Nat]
  BY DEF PromotionInv, PromotionTypeOK
<1> SUFFICES ASSUME NEW f \in FieldNumbers
             PROVE  statistics[f] <= Cardinality(Having(recent, f, j))
  BY DEF StatisticsAreRecent
<1>3. statistics[f] <= Cardinality(Having(recent, f, k))
  BY DEF PromotionInv, StatisticsAreRecent
<1> HIDE DEF j, k
<1>4. /\ Cardinality(Having(recent, f, k)) <= Cardinality(Having(recent, f, j))
      /\ Cardinality(Having(recent, f, k)) \in Nat /\ Cardinality(Having(recent, f, j)) \in Nat
  BY <1>1, <1>2, HavingGrows, HavingType
<1> QED BY <1>2, <1>3, <1>4

LEMMA PromotionInvInit == PromotionInit => PromotionInv
<1> SUFFICES ASSUME PromotionInit
             PROVE  PromotionInv
  OBVIOUS
<1>1. PromotionTypeOK
  BY ColumnPromotionAssumption DEF PromotionInit, PromotionTypeOK, NoStatistics, Window
<1>2. StatisticsAreRecent
  <2>1. recent \in Seq(SUBSET FieldNumbers) /\ Started \in Nat
    BY <1>1, CounterType DEF PromotionTypeOK
  <2>2. \A f \in FieldNumbers : statistics[f] = 0 /\ Cardinality(Having(recent, f, Started)) \in Nat
    BY <2>1, HavingType DEF PromotionInit, NoStatistics
  <2> QED BY <2>2 DEF StatisticsAreRecent, Started
<1>3. ChosenWereFrequent
  BY DEF PromotionInit, ChosenWereFrequent
<1> QED BY <1>1, <1>2, <1>3 DEF PromotionInv

\* With few columns everything becomes one, and there were few before.
LEMMA AddAllKeeps ==
  ASSUME PromotionInv, NEW doc \in DocumentsOf, AddAll(doc)
  PROVE  PromotionInv'
<1> DEFINE keys == AttrKeys(doc)
<1>1. PromotionTypeOK
  BY DEF PromotionInv
<1>2. /\ NumColumns < PromotionLimit /\ counter' = Started
      /\ frequent' = ToSet(keys) /\ added' = AddedOf(keys, ToSet(keys))
      /\ cols' = cols \union added' /\ UNCHANGED <<statistics, recent>>
  BY DEF AddAll, Started
<1>3. /\ ToSet(keys) \in SUBSET FieldNumbers
      /\ added' \in SUBSET FieldNumbers /\ added' \intersect cols = {}
  BY <1>1, <1>2, KeysType
<1>4. PromotionTypeOK'
  BY <1>1, <1>2, <1>3, CounterType DEF PromotionTypeOK
<1>5. StatisticsAreRecent'
  BY <1>2, StatisticsStay
<1>6. ChosenWereFrequent'
  <2>1. cols \in SUBSET FieldNumbers
    BY <1>1 DEF PromotionTypeOK
  <2>2. /\ IsFiniteSet(cols) /\ Cardinality(cols) \in Nat
        /\ IsFiniteSet(added') /\ Cardinality(added') \in Nat
    BY <1>3, <2>1, FieldSets
  <2>3. Cardinality(cols \union added') = Cardinality(cols) + Cardinality(added')
    <3>1. cols \intersect added' = {} /\ Cardinality({}) = 0
      BY <1>3, FS_EmptySet
    <3>2. Cardinality(cols \union added')
            = Cardinality(cols) + Cardinality(added') - Cardinality(cols \intersect added')
      BY <2>2, FS_Union
    <3> DEFINE both == cols \intersect added'
    <3>3. Cardinality(both) = 0
      BY <3>1
    <3> HIDE DEF both
    <3> QED BY <2>2, <3>2, <3>3 DEF both
  <2>4. NumColumns' - Cardinality(added') < PromotionLimit
    BY <1>1, <1>2, <2>2, <2>3, CounterType DEF NumColumns
  <2>5. NumColumns' \in Nat /\ PromotionLimit \in Nat
    BY <1>1, <1>2, <2>2, <2>3, CounterType DEF NumColumns
  <2> QED BY <2>2, <2>4, <2>5 DEF ChosenWereFrequent
<1> QED BY <1>4, <1>5, <1>6 DEF PromotionInv

\* With many nothing does.
LEMMA AddNoneKeeps ==
  ASSUME PromotionInv, NEW doc \in DocumentsOf, AddNone(doc)
  PROVE  PromotionInv'
<1>1. PromotionTypeOK
  BY DEF PromotionInv
<1>2. /\ counter' = Started /\ frequent' = {} /\ added' = {}
      /\ UNCHANGED <<cols, statistics, recent>>
  BY DEF AddNone, Started
<1>3. PromotionTypeOK'
  BY <1>1, <1>2, CounterType DEF PromotionTypeOK
<1>4. StatisticsAreRecent'
  BY <1>2, StatisticsStay
<1>5. ChosenWereFrequent'
  BY <1>2 DEF ChosenWereFrequent
<1> QED BY <1>3, <1>4, <1>5 DEF PromotionInv

\* In between the document is counted: what is chosen had enough documents
\* before it and is in this one.
LEMMA AddFrequentKeeps ==
  ASSUME PromotionInv, NEW doc \in DocumentsOf, AddFrequent(doc)
  PROVE  PromotionInv'
<1> DEFINE keys   == AttrKeys(doc)
           fields == ToSet(keys)
           s      == Counted(keys)
           k      == Started
<1>1. PromotionTypeOK
  BY DEF PromotionInv
<1>2. /\ keys # <<>>
      /\ statistics' = s.stats /\ counter' = s.counter
      /\ frequent' = s.chosen /\ added' = AddedOf(keys, s.chosen)
      /\ cols' = cols \union added' /\ Remember(fields)
  BY DEF AddFrequent
<1>3. /\ keys \in Seq(FieldNumbers) /\ fields = Seen(keys, Len(keys))
      /\ fields \in SUBSET FieldNumbers
      /\ \A n, m \in 1 .. Len(keys) : keys[n] = keys[m] => n = m
  <2>1. {} \in SUBSET ToSet(AttrKeys(doc))
    OBVIOUS
  <2>2. /\ keys \in Seq(FieldNumbers) /\ fields = Seen(keys, Len(keys))
        /\ fields = doc \ cols /\ doc \ cols \in SUBSET FieldNumbers
    BY <1>1, <2>1, KeysType
  <2>3. \A n, m \in 1 .. Len(keys) : keys[n] = keys[m] => n = m
    BY <1>1, <2>1, KeysType
  <2> QED BY <2>2, <2>3
<1>4. CountedSoFar(s, keys, Len(keys)) /\ Len(keys) > 0 /\ Len(keys) \in Nat
  <2> HIDE DEF keys
  <2> QED BY <1>1, <1>2, <1>3, CountedCounts, EmptySeq, LenProperties
<1>5. /\ s.stats \in [FieldNumbers -> Nat]
      /\ s.chosen \subseteq {f \in fields : statistics[f] + 1 >= FieldFrequency}
      /\ IF k = PromotionLimit
         THEN /\ s.counter = 0
              /\ \A f \in FieldNumbers : s.stats[f] <= (IF f \in fields THEN 1 ELSE 0)
         ELSE /\ s.counter = k
              /\ \A f \in FieldNumbers : s.stats[f] <= statistics[f] + (IF f \in fields THEN 1 ELSE 0)
  <2> HIDE DEF s, keys, fields
  <2> QED BY <1>3, <1>4 DEF CountedSoFar
<1>6. added' \in SUBSET FieldNumbers
  <2>1. s.chosen \in SUBSET ToSet(keys)
    BY <1>5
  <2> HIDE DEF s
  <2>2. AddedOf(keys, s.chosen) \in SUBSET (doc \ cols) /\ doc \ cols \in SUBSET FieldNumbers
    BY <1>1, <2>1, KeysType
  <2> QED BY <1>2, <2>2
<1> HIDE DEF s, keys, fields, k
<1>7. /\ PromotionLimit \in Nat \ {0} /\ FieldFrequency \in Nat \ {0}
      /\ k \in 1 .. PromotionLimit /\ k = Least(counter + 1, PromotionLimit)
      /\ recent \in Seq(SUBSET FieldNumbers) /\ statistics \in [FieldNumbers -> Nat]
  BY <1>1, CounterType DEF k, PromotionTypeOK
<1>8. recent' \in Seq(SUBSET FieldNumbers) /\ Len(recent') <= Window
  BY <1>1, <1>2, <1>3, RememberIs
<1>9. PromotionTypeOK'
  BY <1>1, <1>2, <1>3, <1>5, <1>6, <1>7, <1>8 DEF PromotionTypeOK
<1>10. ASSUME NEW f, NEW j \in Nat, j <= PromotionLimit
       PROVE  /\ Cardinality(Having(recent', f, j + 1))
                   = Cardinality(Having(recent, f, j)) + (IF f \in fields THEN 1 ELSE 0)
              /\ Cardinality(Having(recent, f, j)) \in Nat
              /\ Cardinality(Having(recent', f, j + 1)) \in Nat
  <2>1. Cardinality(Having(recent', f, j + 1))
           = Cardinality(Having(recent, f, j)) + (IF f \in fields THEN 1 ELSE 0)
    BY <1>1, <1>2, <1>3, <1>10, RememberCounts
  <2>2. Cardinality(Having(recent, f, j)) \in Nat
    BY <1>7, HavingType
  <2>3. Cardinality(Having(recent', f, j + 1)) \in Nat
    BY <2>1, <2>2
  <2> QED BY <2>1, <2>2, <2>3
<1>11. \A f \in FieldNumbers : statistics[f] \in Nat /\ statistics[f] <= Cardinality(Having(recent, f, k))
  BY <1>7 DEF PromotionInv, StatisticsAreRecent
<1>12. StatisticsAreRecent'
  <2> SUFFICES ASSUME NEW f \in FieldNumbers
               PROVE  s.stats[f] <= Cardinality(Having(recent', f, Least(counter' + 1, PromotionLimit)))
    BY <1>2 DEF StatisticsAreRecent
  <2>1. s.stats[f] \in Nat
    BY <1>5
  <2>2. CASE k = PromotionLimit
    <3>1. Least(counter' + 1, PromotionLimit) = 0 + 1
      BY <1>2, <1>5, <1>7, <2>2 DEF Least
    <3>2. /\ Cardinality(Having(recent', f, 0 + 1))
                = Cardinality(Having(recent, f, 0)) + (IF f \in fields THEN 1 ELSE 0)
          /\ Cardinality(Having(recent, f, 0)) \in Nat
      BY <1>7, <1>10
    <3>3. s.stats[f] <= (IF f \in fields THEN 1 ELSE 0)
      BY <1>5, <2>2
    <3> QED BY <2>1, <3>1, <3>2, <3>3
  <2>3. CASE k # PromotionLimit
    <3>1. Least(counter' + 1, PromotionLimit) = k + 1
      BY <1>2, <1>5, <1>7, <2>3 DEF Least
    <3>2. s.stats[f] <= statistics[f] + (IF f \in fields THEN 1 ELSE 0)
      BY <1>5, <2>3
    <3>3. /\ Cardinality(Having(recent', f, k + 1))
                = Cardinality(Having(recent, f, k)) + (IF f \in fields THEN 1 ELSE 0)
          /\ Cardinality(Having(recent, f, k)) \in Nat
      BY <1>7, <1>10
    <3> QED BY <1>11, <2>1, <3>1, <3>2, <3>3
  <2> QED BY <2>2, <2>3
<1>13. ChosenWereFrequent'
  <2> SUFFICES ASSUME NEW f \in s.chosen
               PROVE  Cardinality({n \in DOMAIN recent' : f \in recent'[n]}) >= FieldFrequency
    BY <1>2 DEF ChosenWereFrequent
  <2>1. f \in fields /\ f \in FieldNumbers /\ statistics[f] + 1 >= FieldFrequency
    BY <1>3, <1>5
  <2>2. /\ Cardinality(Having(recent', f, k + 1)) = Cardinality(Having(recent, f, k)) + 1
        /\ Cardinality(Having(recent, f, k)) \in Nat
    BY <1>7, <1>10, <2>1
  <2>3. Cardinality(Having(recent', f, k + 1)) <= Cardinality({n \in DOMAIN recent' : f \in recent'[n]})
    <3>1. k + 1 \in Nat /\ k + 1 <= k + 1
      BY <1>7
    <3> QED BY <1>8, <3>1, HavingGrows
  <2>4. Cardinality({n \in DOMAIN recent' : f \in recent'[n]}) \in Nat
    <3>1. DOMAIN recent' = 1 .. Len(recent') /\ Len(recent') \in Nat
      BY <1>8
    <3>2. IsFiniteSet(1 .. Len(recent'))
      BY <3>1, FS_Interval
    <3>3. {n \in DOMAIN recent' : f \in recent'[n]} \in SUBSET (1 .. Len(recent'))
      BY <3>1
    <3> QED BY <3>2, <3>3, FS_Subset, FS_CardinalityType
  <2> QED BY <1>7, <1>11, <2>1, <2>2, <2>3, <2>4
<1> QED BY <1>9, <1>12, <1>13 DEF PromotionInv

\* A document of another table.
LEMMA OtherTableKeeps ==
  ASSUME PromotionInv, OtherTable
  PROVE  PromotionInv'
<1> DEFINE k == Least(counter + 1, PromotionLimit)
<1>1. /\ PromotionTypeOK /\ Remember({}) /\ frequent' = {} /\ added' = {} /\ cols' = cols
      /\ IF counter + 1 >= PromotionLimit THEN counter' = 0 /\ statistics' = NoStatistics
         ELSE counter' = counter + 1 /\ statistics' = statistics
  BY DEF PromotionInv, OtherTable
<1>2. /\ PromotionLimit \in Nat \ {0} /\ counter \in Nat /\ k \in 1 .. PromotionLimit
      /\ statistics \in [FieldNumbers -> Nat] /\ recent \in Seq(SUBSET FieldNumbers)
  BY <1>1, CounterType DEF PromotionTypeOK
<1>3. recent' \in Seq(SUBSET FieldNumbers) /\ Len(recent') <= Window
  BY <1>1, RememberIs
<1>4. PromotionTypeOK'
  BY <1>1, <1>2, <1>3 DEF PromotionTypeOK, NoStatistics
<1>5. StatisticsAreRecent'
  <2> SUFFICES ASSUME NEW f \in FieldNumbers
               PROVE  statistics'[f] <= Cardinality(Having(recent', f, Least(counter' + 1, PromotionLimit)))
    BY DEF StatisticsAreRecent
  <2>1. CASE counter + 1 >= PromotionLimit
    <3>1. statistics'[f] = 0 /\ Least(counter' + 1, PromotionLimit) \in Nat
      BY <1>1, <1>2, <2>1 DEF NoStatistics, Least
    <3>2. Cardinality(Having(recent', f, Least(counter' + 1, PromotionLimit))) \in Nat
      BY <1>3, <3>1, HavingType
    <3> QED BY <3>1, <3>2
  <2>2. CASE ~(counter + 1 >= PromotionLimit)
    <3>1. statistics' = statistics /\ Least(counter' + 1, PromotionLimit) = k + 1
      BY <1>1, <1>2, <2>2 DEF Least
    <3>2. statistics[f] <= Cardinality(Having(recent, f, k))
      BY DEF PromotionInv, StatisticsAreRecent
    <3> HIDE DEF k
    <3>3. Cardinality(Having(recent', f, k + 1)) = Cardinality(Having(recent, f, k)) + 0
      BY <1>1, <1>2, RememberCounts
    <3>4. Cardinality(Having(recent, f, k)) \in Nat
      BY <1>2, HavingType
    <3> QED BY <3>1, <3>2, <3>3, <3>4
  <2> QED BY <2>1, <2>2
<1>6. ChosenWereFrequent'
  BY <1>1 DEF ChosenWereFrequent
<1> QED BY <1>4, <1>5, <1>6 DEF PromotionInv

LEMMA PromotionInvNext == PromotionInv /\ [PromotionNext]_promotionVars => PromotionInv'
<1> SUFFICES ASSUME PromotionInv, [PromotionNext]_promotionVars
             PROVE  PromotionInv'
  OBVIOUS
<1>1. CASE UNCHANGED promotionVars
  BY <1>1 DEF promotionVars, PromotionInv, PromotionTypeOK, StatisticsAreRecent, ChosenWereFrequent,
              NumColumns
<1>2. ASSUME NEW doc \in DocumentsOf, Promote(doc)
      PROVE  PromotionInv'
  BY <1>1, <1>2, AddAllKeeps, AddNoneKeeps, AddFrequentKeeps DEF Promote, Known
<1> QED BY <1>1, <1>2, OtherTableKeeps DEF PromotionNext

\* A field becomes a column above the limit only if it was in FieldFrequency of
\* the documents of one iteration, for any number of fields and any limits: the
\* restarts of the statistics, in the middle of a document or for a document of
\* another table, never count one twice.
THEOREM ChosenAreFrequent == PromotionSpec => []ChosenWereFrequent
<1>1. PromotionInv => ChosenWereFrequent
  BY DEF PromotionInv
<1> QED BY <1>1, PromotionInvInit, PromotionInvNext, PTL DEF PromotionSpec
=============================================================================
