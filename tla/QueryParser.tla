---------------------------- MODULE QueryParser ----------------------------
(***************************************************************************)
(* From the body of a search to the queries of its plan: ParseQuery of       *)
(* parsers/elastic_query_dsl/query_parser.go, without aggregations, which    *)
(* Pancake has.                                                              *)
(*                                                                         *)
(* A query is a record [q |-> "match", ...], a field in it its name with the *)
(* suffix of a multi-field, a value in it what it spells and whether it is   *)
(* a string in the JSON.  A layout is what is known of the indexes a search  *)
(* names: the fields of their schema by public name, their aliases, and the  *)
(* columns of the table with their types.                                    *)
(***************************************************************************)
EXTENDS LuceneParser

Scripts == INSTANCE Painless

Field(name) == [name |-> name, suffix |-> ""]
Str(v)      == [value |-> v, string |-> TRUE]
Other(v)    == [value |-> v, string |-> FALSE]

FullTextField == "__quesma_fulltext_field_name"
TimestampField == "@timestamp"
MatchOperator == "__quesma_match"

Invalid    == [where |-> None, canParse |-> FALSE]
Simple(x)  == [where |-> x, canParse |-> TRUE]

-----------------------------------------------------------------------------
\* Fields and values.
Known(layout, name) ==
  \/ name \in DOMAIN layout.fields
  \/ name \in DOMAIN layout.aliases /\ layout.aliases[name] \in DOMAIN layout.fields

FieldNamed(layout, name) ==
  layout.fields[IF name \in DOMAIN layout.aliases THEN layout.aliases[name] ELSE name]

ColumnOf(layout, name) ==
  IF Known(layout, name) THEN FieldNamed(layout, name).internal ELSE name

\* The suffix of a multi-field is cut off here; a name used as it came keeps it.
ResolveField(layout, field) ==
  ColumnOf(layout, IF field.suffix \in {".keyword", ".text"} THEN field.name
                   ELSE field.name \o field.suffix)

AsItCame(field) == field.name \o field.suffix

Sprint(json) == IF json.string THEN Quoted(json.value) ELSE Lit(json.value)

Words(v) == IF Is("text", v) THEN [i \in DOMAIN v.text |-> Text(<<v.text[i]>>)] ELSE <<v>>

GetDateTimeType(layout, column) ==
  IF column \in DOMAIN layout.cols /\ layout.cols[column] \in {"DateTime64", "DateTime"}
  THEN layout.cols[column] ELSE "Invalid"

ExtractFields(layout, fields) ==
  IF Field(Star) \in ToSet(fields) THEN <<FullTextField>>
  ELSE [i \in DOMAIN fields |-> ResolveField(layout, fields[i])]

-----------------------------------------------------------------------------
\* The leaves.
ParseTerm(layout, query) ==
  Simple(IF query.field = Field("_index") THEN TrueExpr
         ELSE Infix(Col(ResolveField(layout, query.field)), "=", Sprint(query.value)))

ParseTerms(query) ==
  LET values == [i \in DOMAIN query.values |-> Sprint(query.values[i])]
      column == Col(AsItCame(query.field))
  IN  Simple(IF query.field = Field("_tier") THEN None
             ELSE IF Len(values) = 1 THEN Infix(column, "=", values[1])
             ELSE Infix(column, "IN", Tuple(values)))

\* An id spells the timestamp of its document, however fine.
ParseIds(layout, ids) ==
  LET type == IF TimestampField \in DOMAIN layout.cols
              THEN layout.cols[TimestampField] ELSE "none"
      IdToSql(id) == Fn(IF type = "DateTime" THEN "toDateTime" ELSE "toDateTime64",
                        <<Quoted(id.value)>>)
      times == [i \in DOMAIN ids |-> IdToSql(ids[i])]
  IN  IF type \notin {"DateTime", "DateTime64"} \/ \E id \in ToSet(ids) : ~Is("time", id.value)
      THEN Invalid
      ELSE Simple(CASE ids = <<>>    -> FalseExpr
                    [] Len(ids) = 1 -> Infix(Col(TimestampField), " = ", times[1])
                    [] OTHER        -> Infix(Col(TimestampField), " IN ", Tuple(times)))

ParseMatch(layout, query, matchPhrase) ==
  LET column == ResolveField(layout, query.field)
      words == IF matchPhrase THEN <<query.value.value>> ELSE Words(query.value.value)
      Statement(word) ==
        IF column = "_id" THEN ParseIds(layout, <<Str(word)>>).where
        ELSE Infix(Col(column), MatchOperator, Quoted(word))
  IN  Simple(IF query.value.string THEN Or([i \in DOMAIN words |-> Statement(words[i])])
             ELSE Infix(Col(column), "==", Sprint(query.value)))

ParseMultiMatch(layout, query) ==
  LET fields == IF query.fields = <<NullValue>> THEN <<FullTextField>>
                ELSE ExtractFields(layout, query.fields)
      words == IF query.phrase THEN <<query.value>> ELSE Words(query.value)
      Statements(column) ==
        [i \in DOMAIN words |-> Infix(Col(column), "iLIKE", Pattern(words[i], Both))]
  IN  Simple(IF fields = <<>> THEN FalseExpr
             ELSE Or(FlattenSeq([i \in DOMAIN fields |-> Statements(fields[i])])))

ParsePrefix(layout, query) ==
  Simple(Infix(Col(ResolveField(layout, query.field)), "iLIKE", LikePrefix(query.value)))

ParseWildcard(layout, query) ==
  Simple(Infix(Col(ResolveField(layout, query.field)), "iLIKE",
               Pattern(query.value, query.open)))

TranslateTokens(layout, fields, tokens) ==
  LET named == {tok.name : tok \in {t \in ToSet(tokens) : t.t = "field"}}
  IN  Simple(TranslateToSQL(tokens, fields, [n \in named |-> ColumnOf(layout, n)]))

ParseQueryString(layout, query) ==
  TranslateTokens(layout, IF query.fields = <<NullValue>> THEN <<FullTextField>>
                          ELSE ExtractFields(layout, query.fields), Tokens(query.text))

\* A pattern of words and of what may be anything at its ends is a LIKE; one of
\* alternatives is left to the database, which searches for them.
ToClickhouseExpr(pattern) ==
  LET words == SelectSeq(pattern, LAMBDA p : p \notin {".*", "|"})
      open == {end \in Both : ".*" = IF end = "start" THEN Head(pattern) ELSE Last(pattern)}
  IN  IF "|" \notin ToSet(pattern) THEN [op |-> "LIKE", literal |-> Pattern(Text(words), open)]
      ELSE [op |-> "REGEXP", literal |-> Quoted([oneOf |-> ToSet(words)])]

ParseRegexp(query) ==
  LET by == ToClickhouseExpr(query.pattern)
  IN  Simple(Infix(Col(AsItCame(query.field)), by.op, by.literal))

\* A box restricts nothing, but it has to have its corners.
ParseGeoBoundingBox(query) ==
  IF {"top_left", "bottom_right"} \subseteq query.corners THEN Simple(None) ELSE Invalid

\* A time is turned into what the column keeps: a column of seconds loses the
\* milliseconds.  In a column that is no date, a number loses its quotes.
ParseRange(layout, query) ==
  LET column == ResolveField(layout, query.field)
      Bound(json) ==
        CASE GetDateTimeType(layout, column) = "DateTime64" /\ Is("time", json.value) ->
               Fn("fromUnixTimestamp64Milli", <<Lit(Num(json.value.time))>>)
          [] GetDateTimeType(layout, column) = "DateTime" /\ Is("time", json.value) ->
               Fn("fromUnixTimestamp", <<Lit(Num(json.value.time \div 1000))>>)
          [] GetDateTimeType(layout, column) = "Invalid" /\ Is("num", json.value) ->
               Lit(json.value)
          [] OTHER -> Sprint(json)
      Statement(op, sql) ==
        IF op \in DOMAIN query.bounds THEN Infix(Col(column), sql, Bound(query.bounds[op]))
        ELSE None
  IN  Simple(And(<<Statement("gt", ">"), Statement("gte", ">="),
                   Statement("lt", "<"), Statement("lte", "<=")>>))

ParseExists(query) == Simple(IsNotNull(Col(AsItCame(query.field))))

-----------------------------------------------------------------------------
\* The compound queries.  Clauses come as a list or as one query, of which
\* only the list keeps those that need no statement.
RECURSIVE ParseQueryMap(_, _)

Parse(layout, clauses) ==
  [i \in DOMAIN clauses.of |-> ParseQueryMap(layout, clauses.of[i])]

IterateListOrDict(parsed, clauses) ==
  LET stmts == [i \in DOMAIN parsed |-> parsed[i].where]
  IN  IF clauses.list THEN stmts ELSE SelectSeq(stmts, LAMBDA s : s # None)

Clauses(query, name) ==
  IF name \in DOMAIN query THEN query[name] ELSE [list |-> TRUE, of |-> <<>>]

MinimumShouldMatch(query, andStmts) ==
  CASE andStmts = <<>> -> 1
    [] "minimum" \in DOMAIN query -> IF query.minimum > 1 THEN 1 ELSE query.minimum
    [] OTHER -> 0

\* What the lists say together; of the clauses that should hold, one at most
\* has to.
JoinStatements(andStmts, shouldStmts, sqlNots, minimum) ==
  LET required == And(<<And(andStmts), IF minimum = 1 THEN Or(shouldStmts) ELSE None>>)
  IN  IF sqlNots = <<>> THEN required ELSE And(<<required, Not(Or(sqlNots))>>)

BoolOf(query, parsed) ==
  LET Stmts(name) == IterateListOrDict(parsed[name], Clauses(query, name))
      andStmts == Stmts("must") \o Stmts("filter")
      minimum == MinimumShouldMatch(query, andStmts)
      looked == {"must", "filter", "must_not"} \cup (IF minimum = 1 THEN {"should"} ELSE {})
  IN  [where |-> JoinStatements(andStmts, Stmts("should"), Stmts("must_not"), minimum),
       canParse |-> \A name \in looked : \A p \in ToSet(parsed[name]) : p.canParse]

ParseBool(layout, query) ==
  BoolOf(query, [name \in {"must", "filter", "should", "must_not"} |->
                   Parse(layout, Clauses(query, name))])

\* Only what is nested in it counts, its path does not.
ParseNested(layout, query) ==
  IF "query" \in DOMAIN query THEN ParseQueryMap(layout, query.query) ELSE Invalid

ParseMatchAll == Simple(None)

ParseQueryMap(layout, query) ==
  CASE query.q = "match_all"    -> ParseMatchAll
    [] query.q = "geo_bounding_box" -> ParseGeoBoundingBox(query)
    [] query.q = "regexp"       -> ParseRegexp(query)
    [] query.q = "match"        -> ParseMatch(layout, query, FALSE)
    [] query.q = "match_phrase" -> ParseMatch(layout, query, TRUE)
    [] query.q = "multi_match"  -> ParseMultiMatch(layout, query)
    [] query.q \in {"bool", "constant_score"} -> ParseBool(layout, query)
    [] query.q = "term"         -> ParseTerm(layout, query)
    [] query.q = "terms"        -> ParseTerms(query)
    [] query.q = "prefix"       -> ParsePrefix(layout, query)
    [] query.q = "nested"       -> ParseNested(layout, query)
    [] query.q = "range"        -> ParseRange(layout, query)
    [] query.q = "exists"       -> ParseExists(query)
    [] query.q = "ids"          -> ParseIds(layout, query.values)
    [] query.q = "wildcard"     -> ParseWildcard(layout, query)
    [] query.q = "query_string" -> ParseQueryString(layout, query)
    [] OTHER                    -> Invalid

-----------------------------------------------------------------------------
\* What a body may leave out has a default.
Has(body, key) == key \in DOMAIN body

ParseSize(body) == IF Has(body, "size") THEN body.size ELSE 10

\* -1 for all of them, -2 for none.
TrackTotalHits(body, default) ==
  IF Has(body, "track_total_hits")
  THEN CASE body.track_total_hits = [all |-> TRUE]  -> -1
         [] body.track_total_hits = [all |-> FALSE] -> -2
         [] OTHER -> body.track_total_hits.upTo
  ELSE default

\* Unless it descends an order ascends: the database's default is that.
OrderBy(x, desc) == [by |-> x, desc |-> desc]

\* Internal fields that are no columns are skipped, and so is an order that
\* is neither.  A sort that is no list uses the names as they came.
ParseSortFields(layout, sort) ==
  LET Skipped(s) == \/ s.field.name \in {"_doc", "_id", "_score"}
                         /\ ResolveField(layout, s.field) \notin DOMAIN layout.cols
                    \/ s.order \notin {"asc", "desc", "none"}
                    \/ s.order = "none" /\ ~sort.list
      Column(s) == IF sort.list THEN ResolveField(layout, s.field) ELSE AsItCame(s.field)
      kept == SelectSeq(sort.by, LAMBDA s : ~Skipped(s))
  IN  [i \in DOMAIN kept |-> OrderBy(Col(Column(kept[i])), kept[i].order = "desc")]

\* What is beside the query.
ParseMetadata(body) ==
  [k \in DOMAIN body \ {"query", "bool", "query_string", "index_filter", "search_after"} |-> body[k]]

\* The columns of the list, or none of it.
ListedFields(layout, body) ==
  CASE ParseSize(body) = 0 -> <<>>
    [] ~Has(body, "fields") \/ (Has(body, "fields") /\ Len(body.fields) > 1) -> <<Star>>
    [] body.fields = <<>> -> <<>>
    [] OTHER -> <<ResolveField(layout, body.fields[1])>>

Select(columns, where, order, limit, sample) ==
  [columns |-> columns, where |-> where, order |-> order, limit |-> limit,
   sample |-> sample, from |-> "table", parts |-> <<>>]

Column(x) == [as |-> "", is |-> x]

BuildCountQuery(where, sampleLimit) ==
  [hits |-> FALSE, searchAfter |-> NullValue, sortNames |-> <<>>, timestamp |-> "",
   runtime |-> <<>>, select |-> Select(<<Column(Fn("count", <<>>))>>, where, <<>>, 0, sampleLimit)]

BuildCountQueryIfNeeded(where, size, trackTotalHits) ==
  CASE trackTotalHits = -1  -> <<BuildCountQuery(where, 0)>>
    [] trackTotalHits > size -> <<BuildCountQuery(where, trackTotalHits)>>
    [] OTHER                -> <<>>

BuildListQueryIfNeeded(body, columns, where, order, size, max) ==
  IF columns = <<>> THEN <<>>
  ELSE <<[hits |-> TRUE, timestamp |-> "", runtime |-> <<>>,
          searchAfter |-> IF Has(body, "search_after") THEN [after |-> body.search_after] ELSE NullValue,
          sortNames |-> [i \in DOMAIN order |-> order[i].by.name],
          select |-> Select([i \in DOMAIN columns |-> Column(Col(columns[i]))],
                            where, order, IF size > max THEN max ELSE size, 0)]>>

RuntimeMappingsOf(body) ==
  IF Has(body, "runtime_mappings") THEN Scripts!ParseRuntimeMappings(body.runtime_mappings) ELSE <<>>

\* Whether its scripts can be parsed, which is found out last.
CanParseScripts(body) ==
  Has(body, "runtime_mappings") => Scripts!CanParseMappings(body.runtime_mappings)

WithScripts(queries, runtime) ==
  [i \in DOMAIN queries |-> [queries[i] EXCEPT !.runtime = runtime]]

\* The queries of the plan; none if anything in the body is not understood.
BuildQueries(layout, body, parsed, defaultTrack, max) ==
  LET order == IF Has(body, "sort") THEN ParseSortFields(layout, body.sort) ELSE <<>>
      size == ParseSize(body)
  IN  IF ~parsed.canParse THEN <<>>
      ELSE WithScripts(
             BuildCountQueryIfNeeded(parsed.where, size, TrackTotalHits(body, defaultTrack))
               \o BuildListQueryIfNeeded(body, ListedFields(layout, ParseMetadata(body)), parsed.where,
                                         order, size, max),
             RuntimeMappingsOf(body))

ParseQuery(layout, body, defaultTrack, max) ==
  BuildQueries(layout, body,
               IF Has(body, "query") THEN ParseQueryMap(layout, body.query) ELSE Simple(None),
               defaultTrack, max)
=============================================================================
