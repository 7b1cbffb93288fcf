---------------------------- MODULE IngestContent ----------------------------
(***************************************************************************)
(* What becomes of the content of a document: quesma/ingest/processor.go   *)
(* (ProcessInsertQuery and below), parser.go, ingest_validator.go, dots.go,*)
(* util/json_processor.go, clickhouse/schema.go, parserCreateTable.go and  *)
(* the types table_discovery.go reads back.                                *)
(*                                                                         *)
(* IngestTables has the concurrency and takes names and types as given.    *)
(* Here one client ingests one batch after another, and what is modelled   *)
(* is the names, the types, and where each value goes: to a table of its   *)
(* own or to the common table, to a column or to the attributes.           *)
(*                                                                         *)
(* A name is a sequence of characters.  A document maps names to values; a *)
(* number is known by its magnitude: size 2k+1 is 2^k exactly, and 2k lies *)
(* strictly between 2^(k-1) and 2^k.                                       *)
(***************************************************************************)
EXTENDS Naturals, FiniteSets, Sequences, FiniteSetsExt, SequencesExt, Functions

CONSTANTS Situations,  \* what an index looks like at first
          Histories    \* the batches its client ingests

VARIABLES
  situation, history,  \* which they are
  turn,       \* the batch that is ingested next
  tries,      \* how often it has been refused
  db,         \* columns of the real table in ClickHouse
  known,      \* the table definitions of Quesma, by name
  listed,     \* the columns in the stored virtual table
  encodings,  \* public names of the fields ingested so far
  rows,       \* what the last INSERT wrote, by document
  told        \* what the client was told of it

vars == <<situation, history, turn, tries, db, known, listed, encodings, rows, told>>

Empty == [n \in {} |-> 0]

\* Columns that are not fields of a document.  The two maps of the attributes
\* are counted as one column.
Timestamp  == <<"@timestamp">>
Attributes == <<"attributes">>
IndexName  == <<"__quesma_index_name">>

-----------------------------------------------------------------------------
(* Values.                                                                 *)

Text(word)     == [is |-> "text", word |-> word]   \* a word, a date, a quotation
Truth          == [is |-> "truth"]
Null           == [is |-> "null"]
ListOf(elems)  == [is |-> "list", elems |-> elems]
Object(fields) == [is |-> "object", fields |-> fields]
Number(size, negative, whole) ==
  [is |-> "number", size |-> size, negative |-> negative, whole |-> whole]

IsObject(v) == v.is = "object"

RECURSIVE Quotes(_)
Quotes(v) ==
  \/ v = Text("quotation")
  \/ v.is = "list" /\ \E i \in DOMAIN v.elems : Quotes(v.elems[i])
  \/ IsObject(v) /\ \E n \in DOMAIN v.fields : Quotes(v.fields[n])

-----------------------------------------------------------------------------
(* Arrays of objects become objects of arrays (RewriteArrayOfObject), those *)
(* of the document itself and not of the objects in it.                    *)

BeginsWithObject(v) == v.is = "list" /\ v.elems # <<>> /\ IsObject(v.elems[1])

RECURSIVE Unwritable(_), Rewritten(_)
Unwritable(doc) ==
  \E n \in DOMAIN doc :
    /\ doc[n].is = "list"
    /\ \E i \in DOMAIN doc[n].elems :
         LET elem == doc[n].elems[i]
         IN  IF BeginsWithObject(doc[n]) THEN ~IsObject(elem)
             ELSE IsObject(elem) /\ Unwritable(elem.fields)

Turned(elems) ==
  LET fields == UNION {DOMAIN elems[i].fields : i \in DOMAIN elems}
  IN  Object([f \in fields |->
         ListOf([i \in DOMAIN elems |->
            IF f \in DOMAIN elems[i].fields THEN elems[i].fields[f] ELSE Null])])

Rewritten(doc) ==
  [n \in DOMAIN doc |->
     IF BeginsWithObject(doc[n]) THEN Turned(doc[n].elems)
     ELSE IF doc[n].is = "list"
     THEN ListOf([i \in DOMAIN doc[n].elems |->
            IF IsObject(doc[n].elems[i]) THEN Object(Rewritten(doc[n].elems[i].fields))
            ELSE doc[n].elems[i]])
     ELSE doc[n]]

-----------------------------------------------------------------------------
(* Names.                                                                  *)

Lower    == [A |-> "a", B |-> "b", C |-> "c"]
Letters  == {"a", "b", "c", "d", "e", "f", "l", "n", "o", "t", "x"} \union DOMAIN Lower
Digits   == {"1", "2"}

FieldPartToColumnEncoder(name) ==
  IF name = Timestamp THEN name
  ELSE [i \in DOMAIN name |->
          IF name[i] \in DOMAIN Lower THEN Lower[name[i]]
          ELSE IF name[i] \in Letters \union Digits THEN name[i] ELSE "_"]

FieldToColumnEncoder(name) ==
  LET part == FieldPartToColumnEncoder(name)
  IN  IF part[1] \in Digits THEN <<"_">> \o part ELSE part

EncodedAt(level, name) ==
  IF level = 0 THEN FieldToColumnEncoder(name) ELSE FieldPartToColumnEncoder(name)

\* What ranging over a map may yield for pairs of a name and a value: for
\* each name the value that came last.
Outcomes(pairs) ==
  {m \in [{p[1] : p \in pairs} -> {p[2] : p \in pairs}] :
     \A n \in DOMAIN m : <<n, m[n]>> \in pairs}

\* transformFieldName: a field whose name changes takes the place of one that
\* has the new name already.
RECURSIVE Renamings(_, _)
Renamings(doc, level) ==
  LET Values(n) ==
        IF IsObject(doc[n])
        THEN {Object(o) : o \in Renamings(doc[n].fields, level + 1)} ELSE {doc[n]}
      Replaced(n) ==
        \E o \in DOMAIN doc : o # EncodedAt(level, o) /\ EncodedAt(level, o) = n
      sources == {n \in DOMAIN doc : ~Replaced(n) \/ EncodedAt(level, n) # n}
  IN  Outcomes(UNION {{<<EncodedAt(level, n), v>> : v \in Values(n)} : n \in sources})

\* FlattenMap: the leaves of a document, with the names on the way to them.
RECURSIVE Leaves(_, _)
Leaves(doc, separator) ==
  UNION {IF IsObject(doc[n])
         THEN {<<n \o <<separator>> \o leaf[1], leaf[2]>> :
                 leaf \in Leaves(doc[n].fields, separator)}
         ELSE {<<n, doc[n]>>} : n \in DOMAIN doc}

\* populateFieldEncodings.
PublicNames(doc) == {leaf[1] : leaf \in Leaves(Rewritten(doc), ".")}

\* removeFieldsTransformer knows the dots of a name and nothing else.
RemovedNames ==
  situation.ignored \union
  {[i \in DOMAIN n |-> IF n[i] = "." THEN "_" ELSE n[i]] : n \in situation.ignored}

\* The documents that reach the table: renamed, flattened, without the ignored
\* fields, with the name of the index if the table is the common one.
Prepared(doc, table) ==
  LET flat == UNION {Outcomes(Leaves(d, "_")) : d \in Renamings(Rewritten(doc), 0)}
      kept == {Restrict(d, DOMAIN d \ RemovedNames) : d \in flat}
  IN  IF table = "common" THEN {d @@ (IndexName :> Text("word")) : d \in kept} ELSE kept

\* All that a batch may become.
RECURSIVE PreparedBatches(_, _)
PreparedBatches(docs, table) ==
  IF docs = <<>> THEN {<<>>}
  ELSE {<<d>> \o ds : d \in Prepared(docs[1], table), ds \in PreparedBatches(Tail(docs), table)}

-----------------------------------------------------------------------------
(* Types, as Quesma knows them.                                            *)

Base(name)    == [of |-> "base", name |-> name]
ArrayType(t)    == [of |-> "array", elem |-> t]
TupleType(cols) == [of |-> "tuple", cols |-> cols]
NoType        == [of |-> "none"]

\* NewType.
RECURSIVE NewType(_)
NewType(v) ==
  CASE v.is = "text"   -> Base(IF v.word = "date" THEN "DateTime64" ELSE "String")
    [] v.is = "number" -> Base(IF v.whole THEN "Int64" ELSE "Float64")
    [] v.is = "truth"  -> Base("Bool")
    [] v.is = "null"   -> NoType
    [] v.is = "list"   ->
         LET t == IF v.elems = <<>> THEN NoType ELSE NewType(v.elems[1])
         IN  IF t = NoType THEN NoType ELSE ArrayType(t)
    [] IsObject(v)     ->
         LET cols == [n \in DOMAIN v.fields |-> NewType(v.fields[n])]
         IN  IF DOMAIN cols = {} \/ \E n \in DOMAIN cols : cols[n] = NoType
             THEN NoType ELSE TupleType(cols)

\* A column as a statement declares it.
Column(t, nullable) == [type |-> t, nullable |-> nullable]

\* JsonToColumns.
JsonToColumns(doc) ==
  [n \in {n \in DOMAIN doc : NewType(doc[n]) # NoType} |->
     LET t == NewType(doc[n])
     IN  Column(t, t.of = "base" /\ t # Base("DateTime64"))]

\* SchemaToColumns: the fields the configuration gives a type.  A field that
\* has not been ingested has no encoded name.
ColumnType ==
  [text |-> "String", keyword |-> "String", long |-> "Int64",
   unsigned_long |-> "Uint64", timestamp |-> "DateTime64", date |-> "Date",
   float |-> "Float64", boolean |-> "Bool"]

InternalName(n, seen) == IF n \in seen THEN FieldToColumnEncoder(n) ELSE <<>>

SchemaToColumns(seen) ==
  LET simple == {n \in DOMAIN situation.overrides : situation.overrides[n] # "point"}
      points == DOMAIN situation.overrides \ simple
      halves == {n \o <<".", "l", "a", "t">> : n \in points}
                  \union {n \o <<".", "l", "o", "n">> : n \in points}
      Of(c)  == IF \E n \in halves : InternalName(n, seen) = c THEN "String"
                ELSE ColumnType[situation.overrides[
                       CHOOSE n \in simple : InternalName(n, seen) = c]]
  IN  [c \in {InternalName(n, seen) : n \in simple \union halves} |->
         Column(Base(Of(c)), TRUE)]

\* columnsToString: the configuration is stronger, but for arrays.
NewColumns(doc, own) ==
  LET json == JsonToColumns(doc)
  IN  [n \in DOMAIN json \union DOMAIN own |->
         IF n \in DOMAIN json /\ (n \notin DOMAIN own \/ json[n].type.of = "array")
         THEN json[n] ELSE own[n]]

\* ParseCreateTable reads the statement that has just been written: names are
\* not empty, and those inside of tuples, which are not encoded, have no blank.
RECURSIVE ReadableType(_)
ReadableType(t) ==
  CASE t.of = "array" -> ReadableType(t.elem)
    [] t.of = "tuple" ->
         \A n \in DOMAIN t.cols : " " \notin ToSet(n) /\ ReadableType(t.cols[n])
    [] OTHER -> TRUE

Readable(cols) ==
  DOMAIN cols # {} /\ <<>> \notin DOMAIN cols
  /\ \A n \in DOMAIN cols : ReadableType(cols[n].type)

\* addOurFieldsToCreateTableQuery.
WithOurs(cols) ==
  cols @@ (Timestamp :> Column(Base("DateTime64"), FALSE))
       @@ (Attributes :> Column(Base("Map"), FALSE))

TypesOf(cols) == [n \in DOMAIN cols |-> cols[n].type]

-----------------------------------------------------------------------------
(* Values against types (ingest_validator.go).                             *)

\* The largest size of a number in a type: at least zero, and below it; what
\* the validator takes (its bounds are floating-point numbers) and what the
\* type holds.
TakenSizes ==
  [Int8 |-> <<14, 15>>, UInt8 |-> <<16, 0>>, Int32 |-> <<62, 63>>,
   Int64 |-> <<127, 127>>, UInt64 |-> <<129, 0>>]
HeldSizes == [TakenSizes EXCEPT !.Int64 = <<126, 127>>, !.UInt64 = <<128, 0>>]

WithinSizes(v, sizes) == v.size <= sizes[IF v.negative THEN 2 ELSE 1]

\* Mutant: whatever is a whole number fits a column of whole numbers.
AnyWhole(name, v) == v.whole

ValidateNumericRange(name, v) == v.whole /\ WithinSizes(v, TakenSizes[name])

RemoveLowCardinality(name) ==
  IF name = "LowCardinality(String)" THEN "String" ELSE name

RECURSIVE ValidAgainst(_, _)
ValidAgainst(v, t) ==
  CASE t.of = "base" ->
         LET name == RemoveLowCardinality(t.name)
         IN  \/ NewType(v) = Base(name)   \* of any size, if it is Int64
             \/ v.is = "number" /\ name \in {"Float32", "Float64"}
             \/ v.is = "number" /\ name \in DOMAIN TakenSizes
                /\ ValidateNumericRange(name, v)
    [] t.of = "array" ->
         v.is = "list" /\ \A i \in DOMAIN v.elems : ValidAgainst(v.elems[i], t.elem)
    [] t.of = "tuple" ->
         IsObject(v) /\ \A n \in DOMAIN v.fields :
            n \in DOMAIN t.cols /\ ValidAgainst(v.fields[n], t.cols[n])

Invalid(doc, types) ==
  {n \in DOMAIN doc \intersect DOMAIN types :
     doc[n] # Null /\ ~ValidAgainst(doc[n], types[n])}

-----------------------------------------------------------------------------
(* processInsertQuery: the statements for one table.                       *)

\* A table definition: the types of its columns, and whether its configuration
\* has attributes.
Definition(types, attributes) ==
  [exists |-> TRUE, types |-> types, attributes |-> attributes]
NotDefined == [exists |-> FALSE, types |-> Empty, attributes |-> FALSE]

\* generateNewColumns: the type of the new column in ALTER TABLE, and the one
\* remembered, a base type even if its name is that of an array.
AddedColumn(v) == Column(NewType(v), NewType(v).of # "array")
Remembered(v)  == IF NewType(v).of = "base" THEN NewType(v) ELSE Base("Array")

\* What is no column is an attribute: a value, and the type it had.
BuildAttrsMap(fields) ==
  [n \in DOMAIN fields |-> [value |-> fields[n], type |-> NewType(fields[n])]]

\* Fields that do not fit their columns are added once it is known which of
\* the others become columns.
AddInvalidJsonFieldsToAttributes(attrs, invalid) == attrs @@ BuildAttrsMap(invalid)

\* The types are kept with a version.
GenerateNonSchemaFields(attrs) ==
  [n \in DOMAIN attrs |-> [value |-> attrs[n].value, type |-> <<"v1", attrs[n].type>>]]

\* The fields become two columns: the values, and the types.
ConvertNonSchemaFieldsToString(fields) ==
  [values   |-> [n \in DOMAIN fields |-> fields[n].value],
   metadata |-> [n \in DOMAIN fields |-> fields[n].type]]

Row(data, fields) ==
  [data |-> data, attributes |-> ConvertNonSchemaFieldsToString(fields)]

SubtractInputJson(doc, other) == Restrict(doc, DOMAIN doc \ DOMAIN other)

\* GenerateIngestContent for one document, given what the ones before it have
\* left.  Whether new fields become columns is decided elsewhere
\* (ColumnPromotion); the common table always takes them.
Content(work, doc, invalid, growing) ==
  LET misfits == Restrict(doc, invalid)
      valid   == SubtractInputJson(doc, misfits)
      new     == DOMAIN valid \ DOMAIN work.definition.types
      attrs   == BuildAttrsMap(Restrict(valid, new))
      added   == {n \in new : growing /\ attrs[n].type # NoType}
      types   == work.definition.types @@ [n \in added |-> Remembered(valid[n])]
      fields  == GenerateNonSchemaFields(AddInvalidJsonFieldsToAttributes(
                   Restrict(attrs, new \ added), misfits))
  IN  IF ~work.definition.attributes \/ (new = {} /\ invalid = {})
      THEN [work EXCEPT !.rows = Append(@, Row(valid, Empty))]
      ELSE [definition |-> [work.definition EXCEPT !.types = types],
            alters     |-> [n \in added |-> AddedColumn(valid[n])] @@ work.alters,
            rows       |-> Append(work.rows,
               Row(Restrict(valid, DOMAIN valid \intersect DOMAIN types), fields))]

RECURSIVE Contents(_, _, _, _)
Contents(work, docs, invalid, growing) ==
  IF docs = <<>> THEN work
  ELSE Contents(Content(work, Head(docs), Head(invalid), growing),
                Tail(docs), Tail(invalid), growing)

\* The whole of it, given the columns that are configured: documents are
\* validated before any column is added.
Processed(definition, docs, configured, growing) ==
  LET columns == IF definition.exists THEN Empty ELSE NewColumns(docs[1], configured)
      found   == IF definition.exists THEN definition
                 ELSE Definition(TypesOf(WithOurs(columns)), TRUE)
      work    == Contents([definition |-> found, alters |-> Empty, rows |-> <<>>], docs,
                          [i \in DOMAIN docs |-> Invalid(docs[i], found.types)], growing)
  IN  IF ~definition.exists /\ ~Readable(columns)
      THEN [failed |-> TRUE, definition |-> NotDefined, create |-> Empty,
            alters |-> Empty, rows |-> <<>>]
      ELSE [failed |-> FALSE, definition |-> work.definition,
            create |-> IF definition.exists THEN Empty ELSE WithOurs(columns),
            alters |-> work.alters, rows |-> work.rows]

-----------------------------------------------------------------------------
(* ClickHouse.                                                             *)

\* A value is read into a type; in a tuple keys it does not have are ignored
\* (input_format_json_ignore_unknown_keys_in_named_tuple), so that the value is
\* not held whole.
RECURSIVE Reads(_, _, _)
Reads(v, t, whole) ==
  CASE v = Null -> TRUE
    [] t.of = "base" ->
         \/ v.is = "text" /\ t.name \in {"String", "LowCardinality(String)"}
         \/ v = Text("date") /\ t.name \in {"DateTime", "DateTime64", "Date"}
         \/ v.is = "number" /\ t.name \in {"Float32", "Float64"}
         \/ v.is = "number" /\ t.name \in DOMAIN HeldSizes
            /\ v.whole /\ WithinSizes(v, HeldSizes[t.name])
         \/ v = Truth /\ t.name = "Bool"
    [] t.of = "array" ->
         v.is = "list" /\ \A i \in DOMAIN v.elems : Reads(v.elems[i], t.elem, whole)
    [] t.of = "tuple" ->
         IsObject(v) /\ \A n \in DOMAIN v.fields :
            IF n \in DOMAIN t.cols THEN Reads(v.fields[n], t.cols[n], whole) ELSE ~whole

Holds(v, t) == Reads(v, t, TRUE)

\* A number that is written without an exponent is taken into an Int64 and
\* wraps around.
Wraps(v, t) ==
  v.is = "number" /\ v.whole /\ v.size <= 139 /\ t = Base("Int64") /\ ~Holds(v, t)

RECURSIVE KnownType(_)
KnownType(t) ==
  CASE t.of = "array" -> KnownType(t.elem)
    [] t.of = "tuple" -> \A n \in DOMAIN t.cols : "." \notin ToSet(n) /\ KnownType(t.cols[n])
    [] OTHER -> t.name # "Uint64"

CreateAccepted(cols) ==
  /\ \A n \in DOMAIN cols : KnownType(cols[n].type)
  /\ ~cols[Timestamp].nullable

\* Fields without a column are ignored: input_format_skip_unknown_fields is on
\* by default, and processInsertQuery does not set it.  Attributes are written
\* between quotation marks and not escaped.
RowAccepted(row, columns) ==
  /\ \A n \in DOMAIN row.data \intersect DOMAIN columns :
       LET t == columns[n].type IN Reads(row.data[n], t, FALSE) \/ Wraps(row.data[n], t)
  /\ \A n \in DOMAIN row.attributes.values : ~Quotes(row.attributes.values[n])

\* executeStatements: CREATE TABLE IF NOT EXISTS, ALTER TABLE ADD COLUMN IF
\* NOT EXISTS, INSERT.
Execute(p) ==
  LET created == IF DOMAIN db = {} THEN p.create ELSE db
      alters  == {n \in DOMAIN p.alters : KnownType(p.alters[n].type)}
      altered == created @@ Restrict(p.alters, alters)
  IN  IF DOMAIN created = {} \/ (p.create # Empty /\ ~CreateAccepted(p.create))
      THEN [accepted |-> FALSE, db |-> db]
      ELSE [accepted |-> /\ alters = DOMAIN p.alters
                         /\ \A k \in DOMAIN p.rows : RowAccepted(p.rows[k], altered),
            db       |-> altered]

-----------------------------------------------------------------------------
(* Types read back by a reload (resolveColumn).                            *)

Resolved == {"String", "LowCardinality(String)", "DateTime64", "DateTime", "Date",
             "UInt8", "UInt64", "Int8", "Int32", "Int64", "Float64", "Bool", "Map"}

\* The precision ClickHouse gives a DateTime64 is taken off, but not in arrays;
\* an array of arrays is not understood.
ReadBack(t) ==
  CASE t.of = "base" -> IF t.name \in Resolved THEN t ELSE Base("Unknown")
    [] t.of = "array" /\ t.elem.of = "base" ->
         IF t.elem = Base("DateTime64") THEN ArrayType(Base("DateTime64(3)"))
         ELSE IF t.elem.name \in Resolved THEN t ELSE NoType
    [] t.of = "array" /\ t.elem.of = "tuple" -> t
    [] OTHER -> NoType

\* populateTableDefinitions: a table with such a column is skipped.
Discovered(columns) ==
  LET types == [n \in DOMAIN columns |-> ReadBack(columns[n].type)]
  IN  IF \E n \in DOMAIN types : types[n] = NoType THEN NotDefined
      ELSE Definition(types, Attributes \in DOMAIN types)

Virtual == situation.layout = "common"

\* What is known after a reload: the table in ClickHouse and, if it is the common
\* one, the virtual table with the columns that are listed (readVirtualTables).
Reloaded ==
  IF ~Virtual
  THEN [index  |-> IF DOMAIN db = {} THEN NotDefined ELSE Discovered(db),
        common |-> NotDefined]
  ELSE [index  |-> IF listed = {} THEN NotDefined
                   ELSE Discovered(Restrict(db, listed \intersect DOMAIN db)),
        common |-> Discovered(db)]

\* storeVirtualTable.
Listed(definition) == (DOMAIN definition.types \ {Attributes}) \union {Timestamp}

-----------------------------------------------------------------------------
(* Steps.                                                                  *)

Init ==
  /\ situation \in Situations
  /\ history \in Histories
  /\ turn = 1 /\ tries = 0
  /\ db = situation.columns
  /\ listed = situation.listed
  /\ encodings = {}
  /\ known = Reloaded
  /\ rows = <<>> /\ told = "nothing"

Docs == history[turn]

Answer(accepted, written) ==
  /\ told'  = IF accepted THEN "acknowledged" ELSE "refused"
  /\ rows'  = IF accepted THEN written ELSE <<>>
  /\ tries' = tries + 1
  /\ UNCHANGED <<situation, history, turn>>

\* The client waits for an answer, and sends a refused batch once again.
Waiting == told = "nothing" \/ (told = "refused" /\ tries < 2)

\* An array of objects and of other things.
RefuseArray ==
  /\ turn <= Len(history) /\ Waiting
  /\ \E k \in DOMAIN Docs : Unwritable(Docs[k])
  /\ Answer(FALSE, <<>>)
  /\ UNCHANGED <<db, known, listed, encodings>>

\* ProcessInsertQuery with a table of its own.
IngestOwn(growing) ==
  LET seen == encodings \union UNION {PublicNames(Docs[k]) : k \in DOMAIN Docs}
  IN  /\ turn <= Len(history) /\ Waiting /\ ~Virtual
      /\ \A k \in DOMAIN Docs : ~Unwritable(Docs[k])
      /\ encodings' = seen
      /\ \E docs \in PreparedBatches(Docs, "index") :
           LET p == Processed(known.index, docs, SchemaToColumns(seen), growing)
               e == Execute(p)
           IN  /\ known' = IF p.failed THEN known ELSE [known EXCEPT !.index = p.definition]
               /\ db' = IF p.failed THEN db ELSE e.db
               /\ Answer(~p.failed /\ e.accepted, p.rows)
      /\ UNCHANGED listed

\* ProcessInsertQuery with the common table: first the definition of the virtual
\* table, whose failure is ignored, then the common table.
IngestCommon(growing) ==
  LET seen == encodings \union UNION {PublicNames(Docs[k]) : k \in DOMAIN Docs}
  IN  /\ turn <= Len(history) /\ Waiting /\ Virtual
      /\ \A k \in DOMAIN Docs : ~Unwritable(Docs[k])
      /\ encodings' = seen
      /\ \E vdocs \in PreparedBatches(Docs, "index"), docs \in PreparedBatches(Docs, "common") :
           LET v == Processed(known.index, vdocs, SchemaToColumns(seen), growing)
               p == Processed(known.common, docs, Empty, TRUE)
               e == Execute(p)
           IN  /\ known' = [index  |-> IF v.failed THEN known.index ELSE v.definition,
                            common |-> IF p.failed THEN known.common ELSE p.definition]
               /\ listed' = IF v.failed THEN listed
                            ELSE IF v.create # Empty \/ v.alters # Empty
                            THEN Listed(v.definition) ELSE listed
               /\ db' = IF p.failed THEN db ELSE e.db
               /\ Answer(~p.failed /\ e.accepted, p.rows)

Reload ==
  /\ known' = Reloaded
  /\ UNCHANGED <<situation, history, turn, tries, db, listed, encodings, rows, told>>

\* The client goes on with its next batch.
NextBatch ==
  /\ turn < Len(history) /\ ~Waiting
  /\ turn' = turn + 1
  /\ told' = "nothing" /\ tries' = 0 /\ rows' = <<>>
  /\ UNCHANGED <<situation, history, db, known, listed, encodings>>

Next ==
  \/ RefuseArray
  \/ \E growing \in BOOLEAN : IngestOwn(growing) \/ IngestCommon(growing)
  \/ Reload \/ NextBatch

Spec == Init /\ [][Next]_vars

-----------------------------------------------------------------------------
\* The fields of a document: encoded names, and the values that have them.
FieldsOf(doc) ==
  {<<FieldToColumnEncoder(leaf[1]), leaf[2]>> : leaf \in Leaves(Rewritten(doc), ".")}

\* A field is stored with one of the values that have its name: in a column that
\* holds it, or with the attributes and the type it has.
StoredIn(row, name, doc) ==
  \E v \in {field[2] : field \in {f \in FieldsOf(doc) : f[1] = name}} :
    \/ /\ name \in DOMAIN row.data \intersect DOMAIN db /\ row.data[name] = v
       /\ Holds(v, db[name].type) \/ Wraps(v, db[name].type)
    \/ /\ name \in DOMAIN row.attributes.values /\ row.attributes.values[name] = v
       /\ row.attributes.metadata[name] = <<"v1", NewType(v)>>

\* A table without attributes has no place for a field that is no column and
\* none for a value that does not fit: the first is left to ClickHouse, which
\* ignores it, the second is left out (GenerateIngestContent returns before it
\* adds columns, attributes and the invalid fields).
LeftOut(name, doc) ==
  /\ Attributes \notin DOMAIN db
  /\ name \in DOMAIN db =>
       \E field \in FieldsOf(doc) :
         field[1] = name /\ ~ValidAgainst(field[2], ReadBack(db[name].type))

\* Why a batch may be refused however often it is sent: its table cannot be
\* created, or Quesma believes it was, for a batch before.
NeverCreated(docs) ==
  /\ DOMAIN db = {}
  /\ \/ \E n \in DOMAIN situation.overrides :
          n = Timestamp \/ n \notin encodings \/ situation.overrides[n] = "unsigned_long"
     \/ \A field \in FieldsOf(docs[1]) : NewType(field[2]) = NoType \/ field[1] \in RemovedNames
     \/ \E n \in 1 .. turn : \E field \in FieldsOf(history[n][1]) : ~KnownType(NewType(field[2]))

RECURSIVE HasOddName(_)
HasOddName(v) ==
  \/ v.is = "list" /\ \E i \in DOMAIN v.elems : HasOddName(v.elems[i])
  \/ IsObject(v) /\ \E n \in DOMAIN v.fields :
       {" ", "."} \intersect ToSet(n) # {} \/ HasOddName(v.fields[n])

NeverInserted(name, v) ==
  LET IsColumn(t) == name \in DOMAIN db /\ db[name].type = Base(t)
  IN  \/ Quotes(v) /\ ~IsColumn("String")
      \/ HasOddName(v)
      \/ v.is = "number" /\ v.size > 139 /\ IsColumn("Int64")

Forgotten == DOMAIN db # {} /\ Discovered(db) = NotDefined

\* ClickHouse has no place for a value that Quesma has written into a column,
\* and ignores it or a part of it: the columns of a table that could not be read
\* are not known; or an earlier document of the batch made the column, with a
\* tuple that lacks a key.
Ignored(row, name, k) ==
  /\ name \in DOMAIN row.data
  /\ name \in DOMAIN db => ~Holds(row.data[name], db[name].type)
  /\ \/ Forgotten
     \/ /\ name \in DOMAIN db /\ Reads(row.data[name], db[name].type, FALSE)
        /\ \E j \in 1 .. k - 1 : \E field \in FieldsOf(Docs[j]) :
             field[1] = name /\ NewType(field[2]) = db[name].type

\* Every field of an acknowledged document is stored, under its encoded name, in
\* a column ClickHouse has a value of this type for or with the attributes: what
\* the types of columns are known by (a statement just written, a column just
\* added, a reload) does not matter, but for the cases in which ClickHouse
\* ignores it.  A batch that is refused twice is one for which the code has no
\* way (ProcessInsertQuery, validateIngest, resolveColumn).
DocumentsAreKept ==
  /\ told = "acknowledged" =>
       \A k \in DOMAIN Docs : \A field \in FieldsOf(Docs[k]) :
         \/ field[1] \in RemovedNames
         \/ StoredIn(rows[k], field[1], Docs[k])
         \/ LeftOut(field[1], Docs[k])
         \/ Ignored(rows[k], field[1], k)
  /\ told = "refused" /\ tries = 2 =>
       \/ \E k \in DOMAIN Docs :
            \/ Unwritable(Docs[k])
            \/ \E field \in FieldsOf(Docs[k]) : NeverInserted(field[1], field[2])
       \/ NeverCreated(Docs) \/ Forgotten
=============================================================================
