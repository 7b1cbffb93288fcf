----------------------------- MODULE SearchPlan -----------------------------
(***************************************************************************)
(* A search for documents, from its body to its hits: its indexes looked up, *)
(* parsed into queries, transformed, optimized, executed while documents arrive, and turned into  *)
(* hits, from which the client asks for the next page                        *)
(* (frontend_connectors/search.go, model/typical_queries/hits.go).           *)
(*                                                                         *)
(* A document is a function from its fields to their values; what it says    *)
(* of a query is the reference the hits are compared with.                   *)
(***************************************************************************)
EXTENDS QueryOptimizer

CONSTANTS Searches,  \* [at, names, body, docs, more, sound] a behaviour may begin with
          DefaultTrackTotalHits, MaxSize, \* 10000 both
          MaxPages

VARIABLES search,  \* the one of this behaviour
          stored,  \* the documents in the table
          step,    \* what is to be done next
          plan,    \* its queries
          results, \* of the queries that have run, and
          read,    \* the documents that each of them read
          pages,   \* the hits given so far, one sequence for each page
          total    \* of the last page

planVars == <<search, stored, step, plan, results, read, pages, total>>

-----------------------------------------------------------------------------
\* What the search is of.  search.at has the decision about the indexes, the
\* tables and the schemas that are known, the tables indexes are configured to
\* have, and what is configured of the transformations.
CommonTableName == <<"quesma_common_table">>

\* The last one to ClickHouse.
Connector(at) == Last(SelectSeq(at.decision.connectors, LAMBDA c : c.backend = "clickhouse"))

TableName(at, index) == IF index \in DOMAIN at.configured THEN at.configured[index] ELSE index

IsVirtual(at, index) ==
  TableName(at, index) \in DOMAIN at.tables /\ at.tables[TableName(at, index)].virtual

\* In the common table, only the indexes that have a virtual one.
ResolvedIndexes(at) ==
  LET of == Connector(at)
  IN  IF of.common THEN SelectSeq(of.indexes, LAMBDA i : IsVirtual(at, i)) ELSE of.indexes

TableOf(at) == IF Connector(at).common THEN CommonTableName ELSE TableName(at, ResolvedIndexes(at)[1])

\* One schema with the fields of all, and without their aliases.
UnionOfSchemas(at) ==
  [fields |-> FoldLeft(LAMBDA all, i : at.schemas[i].fields @@ all, <<>>, ResolvedIndexes(at)),
   aliases |-> <<>>]

CurrentSchema(at) ==
  IF Connector(at).common THEN UnionOfSchemas(at) ELSE at.schemas[ResolvedIndexes(at)[1]]

CanLoad(at) ==
  /\ ResolvedIndexes(at) # <<>>
  /\ TableOf(at) \in DOMAIN at.tables
  /\ LET of == IF Connector(at).common THEN ResolvedIndexes(at) ELSE <<ResolvedIndexes(at)[1]>>
     IN  ToSet(of) \subseteq DOMAIN at.schemas

\* What the rest of the search knows of them.
layout ==
  LET at == search.at
      schema == CurrentSchema(at)
  IN  [indexes |-> ResolvedIndexes(at), fields |-> schema.fields, aliases |-> schema.aliases,
       cols |-> at.tables[TableOf(at)].cols,
       common |-> at.common, prefixes |-> at.prefixes, view |-> at.view, split |-> at.split]

-----------------------------------------------------------------------------
\* The database.  A row has every column of the table; seconds are all that a
\* DateTime keeps, and fields that no column has are attributes.
Sentinel(type) == CASE type = "Array(String)" -> [list |-> <<>>]
                    [] type = "Map(String, String)" -> [map |-> <<>>]
                    [] OTHER -> NullValue

Kept(type, v) == IF type = "DateTime" THEN Time((v.time \div 1000) * 1000) ELSE v

Stored(lay, doc, column) ==
  LET of == {p \in DOMAIN lay.fields : lay.fields[p].internal = column}
      rest == DOMAIN doc \ (DOMAIN lay.fields \cup {"_index"})
      parts == {p \in DOMAIN lay.fields : lay.fields[p].type = "point" /\ p \in DOMAIN doc
                                           /\ column \in {lay.fields[p].internal \o "_lat",
                                                          lay.fields[p].internal \o "_lon"}}
  IN  CASE column = AttributesColumn -> [map |-> [k \in rest |-> doc[k]]]
        [] column = IndexNameColumn  -> doc["_index"]
        [] parts # {} -> doc[CHOOSE p \in parts : TRUE].point[
                           IF column = lay.fields[CHOOSE p \in parts : TRUE].internal \o "_lat"
                           THEN 1 ELSE 2]
        [] of # {} /\ of \cap DOMAIN doc # {} ->
             Kept(lay.cols[column], doc[CHOOSE p \in of : p \in DOMAIN doc])
        [] OTHER -> Sentinel(lay.cols[column])

Row(lay, doc) == [c \in DOMAIN lay.cols |-> Stored(lay, doc, c)]

\* The view has the rows its condition is true of; a table of its own has
\* those of one index only, the common one has them all.
RowsOf(lay, select, docs) ==
  {d \in docs : \/ select.from = "common"
                \/ select.from = "table"
                \/ select.from = "view" /\ Holds(lay.view, Row(lay, d)) = "T"}

Selected(lay, where, docs) == {d \in docs : Holds(where, Row(lay, d)) = "T"}

Refused(lay, where, docs) == \E d \in docs : Holds(where, Row(lay, d)) = "E"

\* NULLs are last.
SortKey(x, row) == ValueOf(x, row)
Precedes(a, b, desc) ==
  CASE a = b         -> FALSE
    [] a = NullValue -> FALSE
    [] b = NullValue -> TRUE
    [] OTHER         -> IF desc THEN Less(b, a) ELSE Less(a, b)

RowBefore(lay, order, d1, d2) ==
  LET Key(i, d) == SortKey(order[i].by, Row(lay, d))
  IN  \E i \in DOMAIN order :
        /\ \A j \in 1..(i - 1) : Key(j, d1) = Key(j, d2)
        /\ Precedes(Key(i, d1), Key(i, d2), order[i].desc)

Ordered(lay, order, docs) ==
  {s \in SetToSeqs(docs) : \A i, j \in DOMAIN s : i < j => ~RowBefore(lay, order, s[j], s[i])}

Top(seq, n) == IF n = 0 \/ Len(seq) <= n THEN seq ELSE SubSeq(seq, 1, n)

RECURSIVE Unions(_, _, _, _)
Unions(lay, select, wheres, docs) ==
  IF wheres = <<>> THEN {<<>>}
  ELSE {Top(s, select.limit) \o rest :
          s \in Ordered(lay, select.order, Selected(lay, Head(wheres), docs)),
          rest \in Unions(lay, select, Tail(wheres), docs)}

\* No more rows are read than asked for, of a union either.
ReadRows(rows, limit) == Top(rows, limit)

\* Every list a query may return, ties being in any order.
Lists(lay, select, docs) ==
  {ReadRows(s, select.limit) :
     s \in Unions(lay, select, IF select.parts = <<>> THEN <<select.where>> ELSE select.parts,
                  RowsOf(lay, select, docs))}

CountOf(lay, select, docs) ==
  LET n == Cardinality(Selected(lay, select.where, RowsOf(lay, select, docs)))
  IN  IF select.sample = 0 \/ n < select.sample THEN n ELSE select.sample

NameOf(column) == IF column.as # "" THEN column.as
                  ELSE IF column.is.e = "col" THEN column.is.name ELSE "?"

Cells(lay, select, doc) ==
  [n \in {NameOf(c) : c \in ToSet(select.columns)} |->
     LET c == CHOOSE c \in ToSet(select.columns) : NameOf(c) = n
     IN  ValueOf(c.is, Row(lay, doc))]

-----------------------------------------------------------------------------
\* The hits.  Columns get the names of their fields back, a column without a
\* value is no field of the hit, and an alias has the value of its field.
PublicName(lay, column) ==
  IF IsColumn(lay, column)
  THEN CHOOSE p \in DOMAIN lay.fields : lay.fields[p].internal = column
  ELSE column

Public(lay, cells) ==
  [p \in {PublicName(lay, c) : c \in DOMAIN cells} |->
     cells[CHOOSE c \in DOMAIN cells : PublicName(lay, c) = p]]

\* Computed from the row under the public names, alias names not being among them.
ScriptsOn(lay, query, doc) ==
  Scripts!EvalScripts(query.runtime, Public(lay, Cells(lay, query.select, doc)))

Emitted(scripts) == [f \in {g \in DOMAIN scripts : scripts[g].ok} |-> scripts[f].emitted]

Present(values) ==
  [p \in {q \in DOMAIN values : values[q] # NullValue /\ q # IndexNameColumn} |-> values[p]]

WithAliases(lay, fields) ==
  [a \in {b \in DOMAIN lay.aliases : lay.aliases[b] \in DOMAIN fields} |-> fields[lay.aliases[a]]]
  @@ fields

FieldsOf(lay, query, doc) ==
  WithAliases(lay, Present(Emitted(ScriptsOn(lay, query, doc))
                             @@ Public(lay, Cells(lay, query.select, doc))))

\* A mutant of FormatSortValue: a time in seconds.
FormatSortValueInSeconds(v) == IF Is("time", v) THEN Num(v.time \div 1000) ELSE v

FormatSortValue(v) == IF Is("time", v) THEN Num(v.time) ELSE v

FirstOf(v) == IF Is("list", v) THEN Text(v.list[1]) ELSE v

HitOf(lay, query, doc, cells, fields) ==
  LET sorts == SelectSeq(query.sortNames, LAMBDA n : n \in DOMAIN fields)
  IN  [doc |-> doc, fields |-> fields,
       index |-> IF IndexNameColumn \in DOMAIN cells THEN cells[IndexNameColumn]
                 ELSE Text(lay.indexes[1]),
       id |-> IF query.timestamp \in DOMAIN fields THEN fields[query.timestamp] ELSE NullValue,
       sort |-> [i \in DOMAIN sorts |-> FormatSortValue(FirstOf(fields[sorts[i]]))]]

Hit(lay, query, doc) ==
  HitOf(lay, query, doc, Cells(lay, query.select, doc), FieldsOf(lay, query, doc))

MakeHits(hits) == IF hits = <<>> THEN <<>> ELSE hits[1]

\* From the count, or from the hits when there is none; a limit that is
\* reached may hide more.
MakeTotalCount(queries, counts, hits) ==
  CASE counts # <<>> ->
         [value |-> counts[1],
          relation |-> IF queries[1].select.sample # 0 /\ counts[1] = queries[1].select.sample
                       THEN "gte" ELSE "eq"]
    [] hits # <<>> ->
         [value |-> Len(hits[1]),
          relation |-> IF queries[1].select.limit # 0 /\ Len(hits[1]) = queries[1].select.limit
                       THEN "gte" ELSE "eq"]
    [] OTHER -> [value |-> 0, relation |-> "gte"]

-----------------------------------------------------------------------------
\* What a query may return, nothing if it is refused.
ExecuteQuery(lay, query, docs) ==
  CASE Refused(lay, query.select.where, RowsOf(lay, query.select, docs)) -> {}
    [] query.hits -> {[j \in DOMAIN s |-> Hit(lay, query, s[j])] : s \in Lists(lay, query.select, docs)}
    [] OTHER -> {CountOf(lay, query.select, docs)}

PlanInit ==
  /\ search \in Searches
  /\ stored = search.docs
  /\ step = "resolve" /\ plan = <<>> /\ results = <<>> /\ read = <<>> /\ pages = <<>>
  /\ total = NullValue

EmptySearchResponse ==
  /\ step' = "answered" /\ pages' = Append(pages, <<>>)
  /\ total' = [value |-> 0, relation |-> "eq"]

\* Refused without a table to ask, and answered at once when the pattern stands
\* for no index or for none that has documents in the common table.
ResolveIndexes ==
  LET at == search.at
      found == at.decision.kind = "found"
                 /\ \E c \in ToSet(at.decision.connectors) : c.backend = "clickhouse"
      none == \/ at.decision.kind = "empty"
              \/ found /\ Connector(at).common /\ ResolvedIndexes(at) = <<>>
  IN  /\ step = "resolve"
      /\ plan' = <<>> /\ results' = <<>> /\ read' = <<>>
      /\ IF none THEN EmptySearchResponse
         ELSE /\ step' = IF found /\ CanLoad(at) THEN "parse" ELSE "failed"
              /\ UNCHANGED <<pages, total>>
      /\ UNCHANGED <<search, stored>>

\* A body that cannot be parsed is answered as one that nothing matches.
ParseBody ==
  /\ step = "parse"
  /\ plan' = ParseQuery(layout, search.body, DefaultTrackTotalHits, MaxSize)
  /\ step' = CASE plan' = <<>> -> "respond"
                [] ~CanParseScripts(search.body) -> "failed"
                [] OTHER -> "transform"
  /\ UNCHANGED <<search, stored, results, read, pages, total>>

\* One query that cannot be transformed fails them all.
TransformQueries ==
  /\ step = "transform"
  /\ LET transformed == [i \in DOMAIN plan |-> Transform(layout, plan[i])]
     IN  IF Failed \in ToSet(transformed) THEN step' = "failed" /\ plan' = plan
         ELSE step' = "optimize" /\ plan' = transformed
  /\ UNCHANGED <<search, stored, results, read, pages, total>>

OptimizeQueries ==
  /\ step = "optimize"
  /\ plan' = [i \in DOMAIN plan |-> Optimize(layout, plan[i])]
  /\ step' = "execute"
  /\ UNCHANGED <<search, stored, results, read, pages, total>>

Returns(i, possible) ==
  IF possible = {} THEN step' = "failed" /\ UNCHANGED <<results, read>>
  ELSE /\ \E r \in possible : results' = (i :> r) @@ results
       /\ read' = (i :> stored) @@ read
       /\ step' = IF DOMAIN results' = DOMAIN plan THEN "respond" ELSE "execute"

\* The queries run at the same time or one after the other, each on what is
\* stored when the database gets to it.
Execute ==
  /\ step = "execute"
  /\ \E i \in DOMAIN plan \ DOMAIN results : Returns(i, ExecuteQuery(layout, plan[i], stored))
  /\ UNCHANGED <<search, stored, plan, pages, total>>

ResultsThat(hits) ==
  LET of == SelectSeq([i \in DOMAIN plan |-> i], LAMBDA i : plan[i].hits = hits)
  IN  [i \in DOMAIN of |-> results[of[i]]]

\* A script that fails on one row fails them all.
ScriptsFail ==
  \E i \in DOMAIN plan : plan[i].hits /\
    \E j \in DOMAIN results[i] :
      LET scripts == ScriptsOn(layout, plan[i], results[i][j].doc)
      IN  \E f \in DOMAIN scripts : ~scripts[f].ok

PostProcessFails ==
  /\ step = "respond" /\ ScriptsFail
  /\ step' = "failed"
  /\ UNCHANGED <<search, stored, plan, results, read, pages, total>>

MakeSearchResponse ==
  /\ step = "respond" /\ ~ScriptsFail
  /\ step' = "answered"
  /\ pages' = Append(pages, MakeHits(ResultsThat(TRUE)))
  /\ total' = MakeTotalCount(plan, ResultsThat(FALSE), ResultsThat(TRUE))
  /\ UNCHANGED <<search, stored, plan, results, read>>

\* The client goes on after the last hit.
NextPage ==
  /\ step = "answered" /\ "sort" \in DOMAIN search.body
  /\ Len(pages) < MaxPages /\ Last(pages) # <<>>
  /\ search' = [search EXCEPT !.body = ("search_after" :> Last(Last(pages)).sort) @@ @]
  /\ step' = "resolve"
  /\ UNCHANGED <<stored, plan, results, read, pages, total>>

\* Another client's document.
Insert ==
  /\ step \in {"execute", "answered"}
  /\ \E doc \in search.more \ stored : stored' = stored \cup {doc}
  /\ UNCHANGED <<search, step, plan, results, read, pages, total>>

\* The client asks no more.
Ended == step \in {"answered", "failed"} /\ UNCHANGED planVars

PlanNext == ResolveIndexes \/ ParseBody \/ TransformQueries \/ OptimizeQueries \/ Execute \/ PostProcessFails
              \/ MakeSearchResponse \/ NextPage \/ Insert \/ Ended

-----------------------------------------------------------------------------
\* What a query means for a document, by the fields of the document.  A Lucene
\* query says beside its tokens what it means.
Target(lay, name) == IF name \in DOMAIN lay.aliases THEN lay.aliases[name] ELSE name

Given(lay, doc, field) ==
  IF Target(lay, field.name) \in DOMAIN doc THEN doc[Target(lay, field.name)] ELSE NullValue

Texts(v) == CASE Is("text", v) -> {v.text}
              [] Is("list", v) -> ToSet(v.list)
              [] Is("map", v)  -> {v.map[k].text : k \in DOMAIN v.map}
              [] OTHER         -> {}

ContainsAt(text, words, i) ==
  i + Len(words) <= Len(text) /\ SubSeq(text, i + 1, i + Len(words)) = words
Finds(v, sought) ==
  \/ v = sought
  \/ Is("text", sought) /\ \E t \in Texts(v) : \E i \in 0..Len(t) : ContainsAt(t, sought.text, i)

Equals(v, sought) ==
  \/ v = sought
  \/ Is("list", v) /\ Is("text", sought) /\ sought.text \in Texts(v)
  \/ Is("map", v) /\ Is("text", sought) /\ sought.text \in {<<k>> : k \in DOMAIN v.map}
  \/ Is("address", v) /\ Is("net", sought) /\ v.address.net = sought.net

Within(v, bounds) ==
  /\ v # NullValue
  /\ "gt"  \in DOMAIN bounds => Less(bounds["gt"].value, v)
  /\ "gte" \in DOMAIN bounds => ~Less(v, bounds["gte"].value)
  /\ "lt"  \in DOMAIN bounds => Less(v, bounds["lt"].value)
  /\ "lte" \in DOMAIN bounds => ~Less(bounds["lte"].value, v)

AllFields(doc) == {Field(p) : p \in DOMAIN doc}

RECURSIVE Means(_, _, _)
Means(lay, query, doc) ==
  LET Value1 == Given(lay, doc, query.field)
      Of(name) == IF name \in DOMAIN query THEN ToSet(query[name].of) ELSE {}
      Searched == IF query.fields \in {<<NullValue>>, <<Field(Star)>>} THEN AllFields(doc)
                  ELSE ToSet(query.fields)
  IN  CASE query.q = "match_all" -> TRUE
        [] query.q = "match" -> \E w \in ToSet(Words(query.value.value)) : Finds(Value1, w)
        [] query.q = "match_phrase" -> Finds(Value1, query.value.value)
        [] query.q = "multi_match" ->
             \E f \in Searched :
               \E w \in IF query.phrase THEN {query.value} ELSE ToSet(Words(query.value)) :
                 Finds(Given(lay, doc, f), w)
        [] query.q = "term"  -> Equals(Value1, query.value.value)
        [] query.q = "terms" -> \E v \in ToSet(query.values) : Equals(Value1, v.value)
        [] query.q = "range" -> Within(Value1, query.bounds)
        [] query.q = "exists" -> Value1 # NullValue
        [] query.q = "prefix" -> \E t \in Texts(Value1) : ContainsAt(t, query.value.text, 0)
        [] query.q = "wildcard" -> Like(Value1, Pattern(query.value, query.open)) = "T"
        [] query.q = "regexp" -> \E w \in ToSet(query.pattern) \ {".*", "|"} : Value1 = Text(<<w>>)
        [] query.q = "ids" -> \E id \in ToSet(query.values) : doc[TimestampField] = id.value
        [] query.q = "nested" -> Means(lay, query.query, doc)
        [] query.q = "query_string" -> Means(lay, query.means, doc)
        [] query.q \in {"bool", "constant_score"} ->
             /\ \A c \in Of("must") \cup Of("filter") : Means(lay, c, doc)
             /\ \A c \in Of("must_not") : ~Means(lay, c, doc)
             /\ \/ "should" \notin DOMAIN query
                \/ IF "minimum" \in DOMAIN query THEN query.minimum = 0
                   ELSE Of("must") \cup Of("filter") # {}
                \/ \E c \in Of("should") : Means(lay, c, doc)

\* What a script means for a document: an expression of its own, which is
\* grouped from the left, and of which the script is the text.
RECURSIVE Says(_, _, _)
Says(lay, x, doc) ==
  LET value == Says(lay, x.of, doc)
  IN  CASE x.s = "text"  -> x.value
        [] x.s = "field" -> Given(lay, doc, [name |-> x.name])
        [] x.s = "plus"  -> Scripts!Concat(Says(lay, x.left, doc), Says(lay, x.right, doc))
        [] x.s = "encode" -> [encoded |-> value]
        [] x.s = "getHour" /\ Is("time", value) -> Num((value.time \div 3600000) % 24)
        [] x.s = "getHour" -> Num((value.iso \div 3600) % 24)
        [] x.s = "formatISO8601" -> [iso |-> value.time \div 1000, zone |-> TRUE]
        [] x.s = "formatISO8601NoTimezone" -> [iso |-> value.time \div 1000, zone |-> FALSE]

ComputedFields ==
  IF "runtime_mappings" \notin DOMAIN search.body \/ "fields" \in DOMAIN search.body THEN {}
  ELSE {f \in DOMAIN search.body.runtime_mappings : "means" \in DOMAIN search.body.runtime_mappings[f]}

\* The fields that are computed are what their scripts mean for the document.
SaysItsScripts(hit) ==
  \A f \in ComputedFields :
    f \in DOMAIN hit.fields
      /\ hit.fields[f] = Says(layout, search.body.runtime_mappings[f].means, hit.doc)

\* The documents of the indexes asked that match.
Asked(docs) ==
  {d \in docs : /\ d["_index"].text \in search.names
                /\ "query" \in DOMAIN search.body => Means(layout, search.body.query, d)}

SortedBefore(a, b) ==
  LET by == IF "sort" \in DOMAIN search.body THEN search.body.sort.by ELSE <<>>
      Key(i, d) == Given(layout, d, by[i].field)
  IN  \E i \in DOMAIN by :
        /\ \A j \in 1..(i - 1) : Key(j, a) = Key(j, b)
        /\ Precedes(Key(i, a), Key(i, b), by[i].order = "desc")

ReadBy(hits) == read[CHOOSE i \in DOMAIN plan : plan[i].hits = hits]

GivenDocs(page) == {page[i].doc : i \in DOMAIN page}

\* After the last hit of the page before.
Remaining(n) ==
  {d \in Asked(ReadBy(TRUE)) : n = 1 \/ SortedBefore(Last(pages[n - 1]).doc, d)}

\* The fields of a hit are those of its document that were asked for, under
\* the names they have in it.
SaysItsDocument(hit) ==
  \A p \in DOMAIN hit.fields :
    LET field == IF p \in DOMAIN layout.aliases THEN layout.aliases[p] ELSE p
    IN  field \in DOMAIN hit.doc =>
          \/ hit.fields[p] = hit.doc[field]
          \/ field \in DOMAIN layout.fields /\ layout.fields[field].db = "DateTime"

\* The hits are the first of the documents that match, of those stored when
\* they were read, in the order asked, each with its own fields, those that
\* scripts compute among them, and its index; the total counts those stored when they were counted, up to its limit.  Only
\* a search that is not sound is refused, for want of a table, by a
\* transformation or by the database; one that makes no query asks for nothing
\* (search.go handleSearchCommon, query_parser.go ParseQuery, schema_transformer.go Transform, optimize,
\* hits.go): the parser, fourteen transformations and two optimizers, which
\* each see a different form of names and literals, keep what was asked.
RowsAreThoseAsked ==
  /\ step = "failed" => ~search.sound
  /\ step = "answered" /\ ~search.sound => Last(pages) = <<>>
  /\ step = "answered" /\ search.sound =>
       LET page == Last(pages)
           size == ParseSize(search.body)
           track == TrackTotalHits(search.body, DefaultTrackTotalHits)
           lists == \E i \in DOMAIN plan : plan[i].hits
           counts == \E i \in DOMAIN plan : ~plan[i].hits
       IN  /\ plan = <<>> => search.names = {} /\ page = <<>> /\ total.value = 0
           /\ lists =>
                /\ GivenDocs(page) \subseteq Remaining(Len(pages))
                /\ Cardinality(GivenDocs(page)) = Len(page)
                /\ LET n == Cardinality(Remaining(Len(pages)))
                   IN  Len(page) = IF n < size THEN n ELSE size
                /\ \A i \in DOMAIN page :
                     /\ \A d \in Remaining(Len(pages)) :
                          SortedBefore(d, page[i].doc) => d \in GivenDocs(SubSeq(page, 1, i - 1))
                     /\ SaysItsDocument(page[i])
                     /\ SaysItsScripts(page[i])
                     /\ page[i].index = page[i].doc["_index"]
           /\ counts =>
                LET n == Cardinality(Asked(ReadBy(FALSE)))
                IN  IF track = -1 \/ n < track THEN total = [value |-> n, relation |-> "eq"]
                    ELSE total = [value |-> track, relation |-> "gte"]

\* Pages have no document in common, and one that was there from the beginning
\* is on one of them by the time a page is not full, whatever is inserted in
\* between (schema_search_after_transformer.go, hits.go): the next page begins
\* after what the last hit was formatted as, not after the hit.
PagesFollowOn ==
  step = "answered" /\ search.sound =>
    /\ \A i, j \in DOMAIN pages :
         i < j => GivenDocs(pages[i]) \cap GivenDocs(pages[j]) = {}
    /\ "sort" \in DOMAIN search.body /\ Len(Last(pages)) < ParseSize(search.body) =>
         Asked(search.docs) \subseteq UNION {GivenDocs(pages[i]) : i \in DOMAIN pages}
=============================================================================
