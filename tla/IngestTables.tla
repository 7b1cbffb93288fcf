---------------------------- MODULE IngestTables ----------------------------
(***************************************************************************)
(* How a table grows while documents are ingested into it:                 *)
(* quesma/ingest/processor.go (processInsertQuery and the statements it    *)
(* executes) together with the table definitions it reads and writes       *)
(* (quesma/clickhouse/table_discovery.go).                                 *)
(*                                                                         *)
(* Three things must agree: the table in ClickHouse, the *Table object     *)
(* published in the table map, and the *Table pointer an ingesting         *)
(* goroutine holds.  Goroutines share the objects without a lock; a reload *)
(* replaces the published one by what it read from ClickHouse a while ago. *)
(*                                                                         *)
(* One table is modelled.  A document maps fields to the ClickHouse types  *)
(* of their values; names are already encoded, nested objects flattened.   *)
(* ClickHouse itself is external.                                          *)
(***************************************************************************)
EXTENDS Naturals, FiniteSets, Sequences, SequencesExt

CONSTANTS Fields, Types,    \* columns and the types values may have
          Ingesters,        \* goroutines ingesting documents
          Batches,          \* the bulk requests of each ingester
          Reloaders,        \* the reload loops on the table discovery
          Ours,             \* the columns Quesma adds, counted as one
          AlwaysAddColumnLimit,
          SkipUnknownFields,  \* input_format_skip_unknown_fields of ClickHouse
          Paced,            \* reloads are further apart than attempts
          MaxFailures       \* bound on the failures of ClickHouse

Columns(F) == UNION {[D -> Types] : D \in SUBSET F}
Documents  == Columns(Fields)
NoColumns  == [f \in {} |-> CHOOSE t \in Types : TRUE]
OurColumns == [f \in {Ours} |-> CHOOSE t \in Types : TRUE]

Merge(cols, more) ==
  [f \in DOMAIN cols \union DOMAIN more |->
     IF f \in DOMAIN more THEN more[f] ELSE cols[f]]

ASSUME IngestTablesAssumption ==
  /\ IsFiniteSet(Fields) /\ IsFiniteSet(Types) /\ Types # {}
  /\ IsFiniteSet(Ingesters) /\ Ours \notin Fields
  /\ Batches \in [Ingesters -> Seq(Seq(Documents) \ {<<>>})]
  /\ AlwaysAddColumnLimit \in Nat /\ MaxFailures \in Nat
  /\ SkipUnknownFields \in BOOLEAN /\ Paced \in BOOLEAN

\* A *Table of the heap.  There are never more reachable than the published
\* one and one held by each ingester, so that numbers can be reused.
Objects == 1 .. Cardinality(Ingesters) + 1
NoTable == 0

VARIABLES
  db,        \* columns of the table in ClickHouse, NoColumns before CREATE
  stored,    \* the batches ClickHouse has inserted, for every request
  heap,      \* Cols of every *Table object
  published, \* the object in the current table map
  pc, turn,  \* where each ingester is, and in which of its requests
  table,     \* the *Table pointer of each ingester
  work,      \* the local variables of processInsertQuery
  outcome,   \* what the client of each request was told
  snapshot,  \* what each reloader has read from ClickHouse
  attempt,   \* the first whole attempt of each ingester since a reload
  failures,  \* failures of ClickHouse so far
  lost,      \* history: INSERTs executed whose answer was lost, by request
  abandoned, \* history: columns of statements that failed, or of a CREATE
             \* TABLE that found another table
  dropped    \* history: columns another goroutine has taken out of the table
             \* object an ingester holds, since its request began

dbVars     == <<db, stored>>
memVars    == <<heap, published>>
localVars  == <<pc, turn, table, work, outcome>>
faultVars  == <<failures, lost>>
envVars    == <<snapshot, attempt, faultVars>>
historyVars == <<abandoned, dropped>>
vars       == <<dbVars, memVars, localVars, envVars, historyVars>>

Requests == UNION {{i} \X (1 .. Len(Batches[i])) : i \in Ingesters}

\* The locals: the document being processed, the valid and the invalid part
\* of each, the attributes and the promoted ones of the current one, the copy
\* of Cols, the rows and the statements built so far.
NoWork == [k |-> 1, valid |-> <<>>, invalid |-> <<>>,
           attrs |-> NoColumns, promoted |-> {}, copy |-> NoColumns,
           rows |-> <<>>, stmts |-> <<>>]

\* ClickHouse holds a table created by an earlier run of Quesma, or none.
Init ==
  /\ db \in {NoColumns} \union {Merge(cols, OurColumns) : cols \in Documents}
  /\ stored = [q \in Requests |-> <<>>]
  /\ heap = [o \in Objects |-> IF o = 1 THEN db ELSE NoColumns]
  /\ published = IF db = NoColumns THEN NoTable ELSE 1
  /\ pc   = [i \in Ingesters |-> "idle"]
  /\ turn = [i \in Ingesters |-> 1]
  /\ table = [i \in Ingesters |-> NoTable]
  /\ work = [i \in Ingesters |-> NoWork]
  /\ outcome = [q \in Requests |-> "pending"]
  /\ snapshot = [r \in Reloaders |-> [read |-> FALSE, cols |-> NoColumns]]
  /\ attempt = [i \in Ingesters |-> "over"]
  /\ failures = 0 /\ lost = [q \in Requests |-> 0]
  /\ abandoned = {} /\ dropped = [i \in Ingesters |-> {}]

-----------------------------------------------------------------------------
Go(i, to)    == pc' = [pc EXCEPT ![i] = to]
Request(i)   == <<i, turn[i]>>
Batch(i)     == Batches[i][turn[i]]
Doc(i)       == Batch(i)[work[i].k]
Fresh(i)     == CHOOSE o \in Objects :
                  o # published /\ \A j \in Ingesters \ {i} : o # table[j]
Statement(kind, cols, rows) == [kind |-> kind, cols |-> cols, rows |-> rows]

\* Fields of a document that are not columns of the table, and the others.
DifferenceMap(doc, cols)         == Restrict(doc, DOMAIN doc \ DOMAIN cols)
RemoveNonSchemaFields(doc, cols) == Restrict(doc, DOMAIN doc \intersect DOMAIN cols)

\* Columns a request is going to add to the table in ClickHouse: those of its
\* statements, and of the one for the table it has just published.
Pending(i) ==
  (IF pc[i] = "decorate" THEN DOMAIN Batch(i)[1] ELSE {})
    \union UNION {DOMAIN work[i].stmts[n].cols : n \in DOMAIN work[i].stmts}

\* The request fails; nothing it has already executed is undone.
Fail(i) ==
  /\ Go(i, "failed")
  /\ table' = [table EXCEPT ![i] = NoTable]
  /\ work'  = [work EXCEPT ![i] = NoWork]
  /\ abandoned' = abandoned \union Pending(i)
  /\ UNCHANGED <<turn, outcome, dropped>>

-----------------------------------------------------------------------------
(* processInsertQuery.                                                     *)

\* FindTable; no table object means that the table is to be created.
Begin(i) ==
  /\ pc[i] = "idle" /\ turn[i] <= Len(Batches[i])
  /\ table' = [table EXCEPT ![i] = published]
  /\ Go(i, IF published = NoTable THEN "create" ELSE "validate")
  /\ attempt' = [attempt EXCEPT ![i] = IF @ = "none" THEN "begun" ELSE @]
  /\ dropped' = [dropped EXCEPT ![i] = {}]
  /\ UNCHANGED <<turn, work, outcome, dbVars, memVars, snapshot, faultVars, abandoned>>

\* AddTableIfDoesntExist looks again, before it publishes.
AlreadyExists(i) ==
  /\ pc[i] = "create" /\ published # NoTable
  /\ Fail(i)
  /\ UNCHANGED <<dbVars, memVars, envVars>>

CheckAbsent(i) ==
  /\ pc[i] = "create" /\ published = NoTable
  /\ Go(i, "publish")
  /\ UNCHANGED <<turn, table, work, outcome, dbVars, memVars, envVars, historyVars>>

\* The columns of the new table are those of the first document of the batch.
AddTable(i) ==
  LET o == Fresh(i)
  IN  /\ pc[i] = "publish"
      /\ heap' = [heap EXCEPT ![o] = Batch(i)[1]]
      /\ published' = o
      /\ table' = [table EXCEPT ![i] = o]
      /\ Go(i, "decorate")
      /\ UNCHANGED <<turn, work, outcome, dbVars, envVars, historyVars>>

\* addOurFieldsToCreateTableQuery writes into the map of the table that has
\* just been published.
Decorate(i) ==
  LET cols == Merge(heap[table[i]], OurColumns)
  IN  /\ pc[i] = "decorate"
      /\ heap' = [heap EXCEPT ![table[i]] = cols]
      /\ work' = [work EXCEPT ![i].stmts = <<Statement("create", cols, <<>>)>>]
      /\ Go(i, "refind")
      /\ UNCHANGED <<turn, table, outcome, published, dbVars, envVars, historyVars>>

Refind(i) ==
  /\ pc[i] = "refind"
  /\ IF published = NoTable
     THEN Fail(i)
     ELSE /\ table' = [table EXCEPT ![i] = published]
          /\ Go(i, "validate")
          /\ UNCHANGED <<turn, work, outcome, historyVars>>
  /\ UNCHANGED <<dbVars, memVars, envVars>>

\* validateIngest looks the table up again for every document: fields whose
\* value does not fit their column leave the document.
Invalid(doc, cols) == {f \in DOMAIN doc \intersect DOMAIN cols : doc[f] # cols[f]}

Validate(i) ==
  LET bad  == Invalid(Doc(i), heap[published])
      last == work[i].k = Len(Batch(i))
  IN  /\ pc[i] = "validate"
      /\ IF published = NoTable
         THEN Fail(i)
         ELSE /\ work' = [work EXCEPT
                    ![i].valid   = Append(@, Restrict(Doc(i), DOMAIN Doc(i) \ bad)),
                    ![i].invalid = Append(@, Restrict(Doc(i), bad)),
                    ![i].k       = IF last THEN 1 ELSE @ + 1]
              /\ Go(i, IF last THEN "diff" ELSE "validate")
              /\ UNCHANGED <<turn, table, outcome, historyVars>>
      /\ UNCHANGED <<dbVars, memVars, envVars>>

-----------------------------------------------------------------------------
(* GenerateIngestContent, for each document of the batch.                  *)

\* Mutant: the INSERT comes before the statements that make its columns.
InsertFirst(i, row, w) ==
  LET rows == Append(w.rows, row)
  IN  IF w.k < Len(Batch(i))
      THEN /\ work' = [work EXCEPT ![i] = [w EXCEPT !.rows = rows, !.k = @ + 1]]
           /\ Go(i, "diff")
      ELSE /\ work' = [work EXCEPT ![i] =
                [NoWork EXCEPT !.stmts =
                   <<Statement("insert", NoColumns, rows)>> \o w.stmts]]
           /\ Go(i, "execute")

\* The row of a document is ready.  The statements are complete after the
\* last one: CREATE TABLE, ALTER TABLE, INSERT.
AddRow(i, row, w) ==
  LET rows == Append(w.rows, row)
  IN  IF w.k < Len(Batch(i))
      THEN /\ work' = [work EXCEPT ![i] = [w EXCEPT !.rows = rows, !.k = @ + 1]]
           /\ Go(i, "diff")
      ELSE /\ work' = [work EXCEPT ![i] =
                [NoWork EXCEPT !.stmts =
                   Append(w.stmts, Statement("insert", NoColumns, rows))]]
           /\ Go(i, "execute")

\* Every field fits: the document is inserted as it is.
NothingToAdd(i) ==
  /\ pc[i] = "diff"
  /\ DOMAIN DifferenceMap(work[i].valid[work[i].k], heap[table[i]]) = {}
  /\ DOMAIN work[i].invalid[work[i].k] = {}
  /\ AddRow(i, [data |-> work[i].valid[work[i].k], attributes |-> NoColumns], work[i])
  /\ UNCHANGED <<turn, table, outcome, dbVars, memVars, envVars, historyVars>>

\* shouldAlterColumns: below the limit every attribute becomes a column, above
\* it the frequent ones (the statistics are the subject of ColumnPromotion).
Promotions(attrs, cols) ==
  IF Cardinality(DOMAIN cols) < AlwaysAddColumnLimit
  THEN {DOMAIN attrs}
  ELSE SUBSET DOMAIN attrs

Diff(i) ==
  LET w     == work[i]
      cols  == heap[table[i]]
      attrs == DifferenceMap(w.valid[w.k], cols)
  IN  /\ pc[i] = "diff"
      /\ DOMAIN attrs # {} \/ DOMAIN w.invalid[w.k] # {}
      /\ \E promoted \in Promotions(attrs, cols) :
           /\ work' = [work EXCEPT ![i].attrs = attrs, ![i].promoted = promoted]
           /\ Go(i, IF /\ promoted = {}
                       /\ Cardinality(DOMAIN cols) >= AlwaysAddColumnLimit
                    THEN "filter" ELSE "copy")
      /\ UNCHANGED <<turn, table, outcome, dbVars, memVars, envVars, historyVars>>

\* generateNewColumns copies Cols ...
CopyCols(i) ==
  /\ pc[i] = "copy"
  /\ work' = [work EXCEPT ![i].copy = heap[table[i]]]
  /\ Go(i, "assign")
  /\ UNCHANGED <<turn, table, outcome, dbVars, memVars, envVars, historyVars>>

\* ... and replaces it by the copy with the new columns.
AssignCols(i) ==
  LET w    == work[i]
      new  == Restrict(w.attrs, w.promoted)
      cols == Merge(w.copy, new)
      gone == DOMAIN heap[table[i]] \ DOMAIN cols
  IN  /\ pc[i] = "assign"
      /\ heap' = [heap EXCEPT ![table[i]] = cols]
      /\ dropped' = [j \in Ingesters |->
           IF j # i /\ table[j] = table[i] THEN dropped[j] \union gone ELSE dropped[j]]
      /\ work' = [work EXCEPT ![i] =
           [w EXCEPT !.attrs = Restrict(@, DOMAIN @ \ w.promoted),
                     !.promoted = {}, !.copy = NoColumns,
                     !.stmts = IF DOMAIN new = {} THEN @
                               ELSE Append(@, Statement("alter", new, <<>>))]]
      /\ Go(i, "filter")
      /\ UNCHANGED <<turn, table, outcome, published, dbVars, envVars, abandoned>>

\* Mutant: the fields that do not fit their columns are forgotten.
FilterForgetting(i) ==
  LET w == work[i]
  IN  /\ pc[i] = "filter"
      /\ AddRow(i, [data |-> RemoveNonSchemaFields(w.valid[w.k], heap[table[i]]),
                    attributes |-> w.attrs],
                [w EXCEPT !.attrs = NoColumns])
      /\ UNCHANGED <<turn, table, outcome, dbVars, memVars, envVars, historyVars>>

\* Fields that are not columns are removed: Cols is read once more.
Filter(i) ==
  LET w == work[i]
  IN  /\ pc[i] = "filter"
      /\ AddRow(i, [data |-> RemoveNonSchemaFields(w.valid[w.k], heap[table[i]]),
                    attributes |-> Merge(w.attrs, w.invalid[w.k])],
                [w EXCEPT !.attrs = NoColumns])
      /\ UNCHANGED <<turn, table, outcome, dbVars, memVars, envVars, historyVars>>

-----------------------------------------------------------------------------
(* executeStatements: one after another, until one fails.                  *)

NextStatement(i, kind) ==
  pc[i] = "execute" /\ work[i].stmts # <<>> /\ Head(work[i].stmts).kind = kind

\* Fields that are no columns of the table are ignored, and the INSERT succeeds,
\* unless that setting is turned off; Quesma leaves it alone.
Fits(row) ==
  /\ SkipUnknownFields \/ DOMAIN row.data \subseteq DOMAIN db
  /\ Invalid(row.data, db) = {}

\* CREATE TABLE IF NOT EXISTS.
Create(i) ==
  /\ NextStatement(i, "create")
  /\ db' = IF db = NoColumns THEN Head(work[i].stmts).cols ELSE db
  /\ UNCHANGED stored

\* ALTER TABLE ADD COLUMN IF NOT EXISTS, a statement for each column.
Alter(i, f) ==
  /\ NextStatement(i, "alter") /\ db # NoColumns
  /\ db' = Merge(Restrict(Head(work[i].stmts).cols, {f}), db)
  /\ UNCHANGED stored

\* INSERT: ClickHouse takes the whole batch or none of it.
Insert(i) ==
  LET rows == Head(work[i].stmts).rows
  IN  /\ NextStatement(i, "insert") /\ db # NoColumns
      /\ \A k \in DOMAIN rows : Fits(rows[k])
      /\ stored' = [stored EXCEPT ![Request(i)] = Append(@,
           [k \in DOMAIN rows |-> [rows[k] EXCEPT !.data = RemoveNonSchemaFields(@, db)]])]
      /\ UNCHANGED db

ExecuteWhole(i) ==
  /\ Create(i) \/ Insert(i)
  /\ work' = [work EXCEPT ![i].stmts = Tail(@)]
  /\ abandoned' = abandoned \union (DOMAIN Head(work[i].stmts).cols \ DOMAIN db')
  /\ UNCHANGED <<pc, turn, table, outcome, memVars, envVars, dropped>>

ExecuteAlter(i) ==
  LET s == Head(work[i].stmts)
  IN  /\ NextStatement(i, "alter")
      /\ \E f \in DOMAIN s.cols :
           /\ Alter(i, f)
           /\ work' = [work EXCEPT ![i].stmts =
                IF DOMAIN s.cols = {f} THEN Tail(@)
                ELSE <<[s EXCEPT !.cols = Restrict(@, DOMAIN @ \ {f})]>> \o Tail(@)]
      /\ UNCHANGED <<pc, turn, table, outcome, memVars, envVars, historyVars>>

\* ClickHouse refuses the statement.
Refused(i) ==
  LET s == Head(work[i].stmts)
  IN  /\ \/ NextStatement(i, "alter") /\ db = NoColumns
         \/ /\ NextStatement(i, "insert")
            /\ db = NoColumns \/ \E k \in DOMAIN s.rows : ~Fits(s.rows[k])
      /\ Fail(i)
      /\ UNCHANGED <<dbVars, memVars, envVars>>

\* ClickHouse cannot be reached: the statement is not executed.
ExecuteFails(i) ==
  /\ pc[i] = "execute" /\ work[i].stmts # <<>>
  /\ failures < MaxFailures
  /\ failures' = failures + 1
  /\ Fail(i)
  /\ UNCHANGED <<dbVars, memVars, snapshot, attempt, lost>>

\* ClickHouse executes the statement and the answer is lost: the request fails
\* in the same way.
AnswerLost(i) ==
  /\ pc[i] = "execute" /\ work[i].stmts # <<>>
  /\ failures < MaxFailures
  /\ \/ Create(i) /\ UNCHANGED lost
     \/ (\E f \in DOMAIN Head(work[i].stmts).cols : Alter(i, f)) /\ UNCHANGED lost
     \/ Insert(i) /\ lost' = [lost EXCEPT ![Request(i)] = @ + 1]
  /\ failures' = failures + 1
  /\ Fail(i)
  /\ UNCHANGED <<memVars, snapshot, attempt>>

\* Reloads are a minute apart (reloadInterval) and an attempt takes far less:
\* when Paced, every ingester makes a whole attempt between two of them.
AttemptOver(i) ==
  attempt' = [attempt EXCEPT ![i] = IF @ = "begun" THEN "over" ELSE @]

Finish(i, told) ==
  /\ outcome' = [outcome EXCEPT ![Request(i)] = told]
  /\ turn' = [turn EXCEPT ![i] = @ + 1]
  /\ table' = [table EXCEPT ![i] = NoTable]
  /\ AttemptOver(i)
  /\ Go(i, "idle")
  /\ UNCHANGED <<work, dbVars, memVars, snapshot, faultVars, historyVars>>

Acknowledge(i) ==
  /\ pc[i] = "execute" /\ work[i].stmts = <<>>
  /\ Finish(i, "acknowledged")

\* The client is told of the failure.  It sends the request again, or not.
Retry(i) ==
  /\ pc[i] = "failed"
  /\ AttemptOver(i)
  /\ Go(i, "idle")
  /\ UNCHANGED <<turn, table, work, outcome, dbVars, memVars, snapshot, faultVars, historyVars>>

GiveUp(i) ==
  /\ pc[i] = "failed"
  /\ Finish(i, "gaveUp")

-----------------------------------------------------------------------------
(* ReloadTableDefinitions, called by the loops of IngestProcessor.Start    *)
(* and LogManager.Start.                                                   *)

ReadTables(r) ==
  /\ ~snapshot[r].read
  /\ snapshot' = [snapshot EXCEPT ![r] = [read |-> TRUE, cols |-> db]]
  /\ UNCHANGED <<dbVars, memVars, localVars, attempt, faultVars, historyVars>>

\* Mutant: tables that are known already keep their definition.
PopulateOnlyNew(r) ==
  LET cols == snapshot[r].cols
      o    == CHOOSE o \in Objects : \A i \in Ingesters : o # table[i]
  IN  /\ snapshot[r].read
      /\ Paced => \A i \in Ingesters :
                     attempt[i] = "over" \/ turn[i] > Len(Batches[i])
      /\ attempt' = [i \in Ingesters |-> "none"]
      /\ snapshot' = [snapshot EXCEPT ![r] = [read |-> FALSE, cols |-> NoColumns]]
      /\ IF cols = NoColumns \/ published # NoTable
         THEN UNCHANGED memVars
         ELSE published' = o /\ heap' = [heap EXCEPT ![o] = cols]
      /\ UNCHANGED <<dbVars, localVars, faultVars, historyVars>>

\* populateTableDefinitions makes a new map of new *Table objects.
Populate(r) ==
  LET cols == snapshot[r].cols
      o    == CHOOSE o \in Objects : \A i \in Ingesters : o # table[i]
  IN  /\ snapshot[r].read
      /\ Paced => \A i \in Ingesters :
                     attempt[i] = "over" \/ turn[i] > Len(Batches[i])
      /\ attempt' = [i \in Ingesters |-> "none"]
      /\ snapshot' = [snapshot EXCEPT ![r] = [read |-> FALSE, cols |-> NoColumns]]
      /\ IF cols = NoColumns
         THEN published' = NoTable /\ UNCHANGED heap
         ELSE published' = o /\ heap' = [heap EXCEPT ![o] = cols]
      /\ UNCHANGED <<dbVars, localVars, faultVars, historyVars>>

\* The tables cannot be read: no table is known any more.
ReadFails(r) ==
  /\ ~snapshot[r].read
  /\ failures < MaxFailures
  /\ failures' = failures + 1
  /\ published' = NoTable
  /\ UNCHANGED <<dbVars, heap, localVars, snapshot, attempt, lost, historyVars>>

-----------------------------------------------------------------------------
Build(i) ==
  \/ Begin(i) \/ AlreadyExists(i) \/ CheckAbsent(i) \/ AddTable(i)
  \/ Decorate(i) \/ Refind(i) \/ Validate(i) \/ NothingToAdd(i)
  \/ Diff(i) \/ CopyCols(i) \/ AssignCols(i) \/ Filter(i)

Execute(i) ==
  \/ ExecuteWhole(i) \/ ExecuteAlter(i)
  \/ Refused(i) \/ ExecuteFails(i) \/ AnswerLost(i) \/ Acknowledge(i)

Ingest(i) == Build(i) \/ Execute(i) \/ Retry(i) \/ GiveUp(i)
Reload(r) == ReadTables(r) \/ Populate(r) \/ ReadFails(r)

Next == (\E i \in Ingesters : Ingest(i)) \/ (\E r \in Reloaders : Reload(r))

Spec == Init /\ [][Next]_vars

\* Goroutines run, the client of a failed request does something, and the
\* tables are reloaded again and again, as they are while Quesma is used.
Fairness ==
  /\ \A i \in Ingesters : WF_vars(Ingest(i))
  /\ \A r \in Reloaders : WF_vars(ReadTables(r) \/ Populate(r))

FairSpec == Spec /\ Fairness

-----------------------------------------------------------------------------
\* Fields of a document that are not in its row.
Missing(doc, row) == DOMAIN doc \ (DOMAIN row.data \union DOMAIN row.attributes)

\* What the documentation says of new fields (docs/public/docs/ingest.md): a batch
\* the client was told is ingested is in ClickHouse with every field of every
\* document, as a column or as an attribute.
AcknowledgedIsComplete ==
  \A q \in Requests :
    outcome[q] = "acknowledged" =>
      \E n \in DOMAIN stored[q] : \A k \in DOMAIN stored[q][n] :
        Missing(Batches[q[1]][q[2]][k], stored[q][n][k]) = {}

\* A batch is inserted whole, in its order and with nothing but its fields, and
\* a field is lost for one of three reasons only: another goroutine has replaced
\* the columns meanwhile (generateNewColumns); a statement for it has failed, or
\* has found another table, and left it in the table definition; or the one
\* that adds it is still to be executed by another goroutine, which has put it
\* there already (processInsertQuery, executeStatements).
LossesAreExplained ==
  [][\A q \in Requests : stored'[q] # stored[q] =>
       LET docs == Batches[q[1]][q[2]]
           rows == Last(stored'[q])
       IN  /\ DOMAIN rows = DOMAIN docs
           /\ \A k \in DOMAIN rows :
                /\ DOMAIN rows[k].data \union DOMAIN rows[k].attributes \subseteq DOMAIN docs[k]
                /\ Missing(docs[k], rows[k]) \subseteq
                     dropped[q[1]] \union (abandoned \ DOMAIN db)
                       \union UNION {Pending(j) : j \in Ingesters \ {q[1]}}]_vars

\* Statements are executed in an order that lets a failed request be sent
\* again: the rows of a request are inserted by nothing but its last statement,
\* and twice only if the answer to that very statement was lost
\* (generateSqlStatements).
InsertedOncePerAnswer == \A q \in Requests : Len(stored[q]) <= 1 + lost[q]

\* Cols of a published table is never written in place by a goroutine while
\* another one reads it (the comment in generateNewColumns).
Writing(i) == pc[i] = "decorate"
Reading(i, o) ==
  \/ pc[i] \in {"diff", "copy", "filter"} /\ table[i] = o
  \/ pc[i] = "validate" /\ published = o
ColsNotAlteredWhileRead ==
  \A i, j \in Ingesters : i # j /\ Writing(i) => ~Reading(j, table[i])

\* Every request is acknowledged at last, unless its client gives up: neither
\* stale table objects nor refused statements last.
EveryRequestAnswered == <>(\A q \in Requests : outcome[q] # "pending")

\* What is published is what is in ClickHouse, once the requests are over:
\* stale reloads do not last.
MemoryConverges ==
  <>[](IF db = NoColumns THEN published = NoTable
       ELSE published # NoTable /\ heap[published] = db)
=============================================================================
