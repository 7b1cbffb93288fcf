--------------------------- MODULE MCSearchPlan ---------------------------
(***************************************************************************)
(* Searches for TLC: what a query can be made of, over six layouts of the    *)
(* same documents.  They are the ones that are answered as the documents     *)
(* say; the README has those that are not.                                   *)
(***************************************************************************)
EXTENDS QueryParser

Minute == 60000

Word(w) == Text(<<w>>)

Doc(index, ms, message, host, n) ==
  [p \in {"_index", "@timestamp", "message", "host.name", "n"} |->
     CASE p = "_index" -> Text(<<"logs", index>>)
       [] p = "@timestamp" -> Time(ms)
       [] p = "message" -> Text(message)
       [] p = "host.name" -> Word(host)
       [] p = "n" -> Num(n)]

D1 == ("ok" :> Flag(TRUE) @@ "tags" :> [list |-> <<<<"red">>, <<"two">>>>]
         @@ "labels" :> [map |-> "mail" :> Word("paris")]
         @@ "ip" :> [address |-> [net |-> 1, host |-> 1]]
         @@ "place" :> [point |-> <<Num(1), Num(2)>>] @@ "city" :> Word("rome"))
        @@ Doc("one", 10 * Minute, <<"alpha", "beta", "stop">>, "paris", 5)
D2 == ("ok" :> Flag(FALSE) @@ "tags" :> [list |-> <<<<"two">>>>] @@ "city" :> Word("paris")
         @@ "ip" :> [address |-> [net |-> 2, host |-> 1]])
        @@ Doc("one", 20 * Minute, <<"beta", "alpha">>, "rome", 7)
D3 == ("ok" :> Flag(TRUE) @@ "labels" :> [map |-> "red" :> Word("rome")])
        @@ Doc("two", 50 * Minute, <<"stop", "two">>, "paris", 7)
D4 == ("ok" :> Flag(FALSE)) @@ Doc("two", 51 * Minute + 1000, <<"beta">>, "rome", 9)
Late == ("ok" :> Flag(TRUE) @@ "ip" :> [address |-> [net |-> 1, host |-> 2]])
          @@ Doc("one", 40 * Minute, <<"two", "stop">>, "rome", 1)

Documents == {D1, D2, D3, D4}

-----------------------------------------------------------------------------
FieldOf(internal, type, db) == [internal |-> internal, type |-> type, db |-> db, ingest |-> TRUE]

Fields == [p \in {"@timestamp", "message", "host.name", "n", "ok", "tags", "labels", "ip", "place"} |->
  CASE p = "@timestamp" -> FieldOf("@timestamp", "date", "DateTime64")
    [] p = "message"    -> FieldOf("message", "text", "String")
    [] p = "host.name"  -> FieldOf("host_name", "keyword", "String")
    [] p = "n"          -> FieldOf("n", "long", "Int64")
    [] p = "ok"         -> FieldOf("ok", "boolean", "Bool")
    [] p = "tags"       -> FieldOf("tags", "keyword", "Array(String)")
    [] p = "labels"     -> FieldOf("labels", "map", "Map(String, String)")
    [] p = "ip"         -> FieldOf("ip", "ip", "IPv4")
    [] p = "place"      -> FieldOf("place", "point", "Point")]

ColumnsOf(fields, others) ==
  LET plain == {p \in DOMAIN fields : fields[p].type # "point"}
      names == {fields[p].internal : p \in plain}
  IN  [c \in names |-> fields[CHOOSE p \in plain : fields[p].internal = c].db]
        @@ [c \in others \cup {"place_lat", "place_lon"} |-> "other"]

One == <<"logs", "one">>
Two == <<"logs", "two">>
Other2 == <<"logs", "other">>
CommonTableName == <<"quesma_common_table">>

Schema(fields) == [fields |-> fields, aliases |-> "host" :> "host.name"]
Table(fields, others) == [cols |-> ColumnsOf(fields, others), virtual |-> FALSE]
VirtualTable == [Table(Fields, {}) EXCEPT !.virtual = TRUE]

Found(connectors) == [kind |-> "found", connectors |-> connectors]
ToClickHouse(common, indexes) == [backend |-> "clickhouse", common |-> common, indexes |-> indexes]
ToElastic == [backend |-> "elastic"]

World(decision, schemas, tables) ==
  [decision |-> decision, schemas |-> schemas, tables |-> tables, configured |-> <<>>,
   common |-> FALSE, prefixes |-> {}, view |-> None, split |-> TRUE]

OfItsOwn(fields, others) ==
  World(Found(<<ToClickHouse(FALSE, <<One>>)>>), One :> Schema(fields), One :> Table(fields, others))

Timestamped(internal, db) ==
  [Fields EXCEPT !["@timestamp"] = FieldOf(internal, "date", db)]

\* A table of its own, with attributes; one of seconds, without; one with
\* another name for the timestamp and for itself, which Elasticsearch has as
\* well; one with a view beside it; and a table that two indexes have in
\* common, one of which has no places, asked for by name, by prefix or with
\* an index that has nothing in it.
Own     == OfItsOwn(Fields, {AttributesColumn})
Seconds == OfItsOwn(Timestamped("@timestamp", "DateTime"), {})
Renamed == [OfItsOwn(Timestamped("ts", "DateTime64"), {AttributesColumn}) EXCEPT
              !.decision.connectors = <<ToElastic>> \o @,
              !.configured = One :> Two, !.tables = Two :> @[One]]
OnlyOk  == Infix(Col("ok"), "=", Lit(Flag(TRUE)))
Viewed  == [Own EXCEPT !.view = OnlyOk]
Shared  == World(Found(<<ToClickHouse(TRUE, <<One, Two, Other2>>)>>),
                 One :> Schema(Fields)
                   @@ Two :> Schema([p \in DOMAIN Fields \ {"place"} |-> Fields[p]]),
                 CommonTableName :> Table(Fields, {AttributesColumn, IndexNameColumn})
                   @@ One :> VirtualTable @@ Two :> VirtualTable @@ Other2 :> Table(Fields, {}))
Grouped == [Shared EXCEPT !.prefixes = {<<"logs">>},
                          !.decision = Found(<<ToClickHouse(TRUE, <<One, Two>>)>>)]
Single  == [Shared EXCEPT !.common = TRUE, !.decision = Found(<<ToClickHouse(TRUE, <<Two>>)>>)]

Layouts == {Own, Seconds, Renamed, Shared, Grouped, Single}

NamesOf(at) == IF CommonTableName \notin DOMAIN at.tables THEN {One}
               ELSE ToSet(at.decision.connectors[1].indexes) \ {Other2}

\* Patterns of no index that has documents, and indexes that cannot be found.
Nothing ==
  {[Own EXCEPT !.decision = [kind |-> "empty", connectors |-> <<>>]],
   [Shared EXCEPT !.decision = Found(<<ToClickHouse(TRUE, <<Other2, <<"logs">>>>)>>)]}

Unfound ==
  {[Own EXCEPT !.decision = [kind |-> k, connectors |-> <<>>]] : k \in {"error", "closed", "found"}}
    \cup {[Own EXCEPT !.decision = Found(<<ToElastic>>)],
          [Own EXCEPT !.decision = Found(<<ToClickHouse(FALSE, <<>>)>>)],
          [Own EXCEPT !.schemas = <<>>], [Own EXCEPT !.tables = <<>>],
          [Renamed EXCEPT !.configured = <<>>],
          [Shared EXCEPT !.schemas = One :> Schema(Fields)],
          [Shared EXCEPT !.tables = One :> VirtualTable @@ Two :> VirtualTable]}

DocsOf(layout, docs) ==
  IF CommonTableName \in DOMAIN layout.tables THEN docs
  ELSE {[d EXCEPT !["_index"] = Text(One)] : d \in docs}

-----------------------------------------------------------------------------
Term(f, v)  == [q |-> "term", field |-> Field(f), value |-> v]
Matches(f, v) == [q |-> "match", field |-> Field(f), value |-> v]
Phrase(f, v) == [Matches(f, v) EXCEPT !.q = "match_phrase"]
Terms(f, vs) == [q |-> "terms", field |-> Field(f), values |-> vs]
Between(f, bounds) == [q |-> "range", field |-> Field(f), bounds |-> bounds]
Multi(fields, value, phrase) ==
  [q |-> "multi_match", fields |-> fields, value |-> value, phrase |-> phrase]
List(queries) == [list |-> TRUE, of |-> queries]
JustOne(query) == [list |-> FALSE, of |-> <<query>>]
Must(queries) == [q |-> "bool", must |-> List(queries)]
NotAny(queries) == [q |-> "bool", must_not |-> List(queries)]
Should(queries) == [q |-> "bool", should |-> List(queries)]

Lucene(text, means) ==
  [q |-> "query_string", fields |-> <<NullValue>>, text |-> text, means |-> means]
Says(word) == Matches("message", Str(Word(word)))

Instant(ms) == Str(Time(ms))
Hour == "gte" :> Instant(0) @@ "lte" :> Instant(60 * Minute)

\* Fields that every document has.
Total ==
  { Matches("message", Str(Text(<<"alpha", "two">>))),
    Phrase("message", Str(Text(<<"alpha", "beta">>))),
    Matches("n", Str(Num(7))), Matches("n", Other(Num(7))), Matches("ok", Str(Flag(TRUE))),
    [Term("host.name", Str(Word("paris"))) EXCEPT !.field.suffix = ".keyword"],
    Term("host", Str(Word("paris"))), Term("n", Other(Num(7))), Term("ok", Other(Flag(TRUE))),
    Terms("host.name", <<Str(Word("rome")), Str(Word("two"))>>),
    Terms("n", <<Other(Num(5)), Other(Num(9))>>),
    Between("@timestamp", Hour),
    Between("@timestamp", "gt" :> Instant(20 * Minute) @@ "lt" :> Instant(51 * Minute + 1000)),
    Between("n", "gte" :> Str(Num(7))),
    [q |-> "prefix", field |-> Field("message"), value |-> Text(<<"beta">>)],
    [q |-> "wildcard", field |-> Field("host.name"), value |-> Word("paris"), open |-> {"end"}],
    [q |-> "regexp", field |-> Field("host.name"), pattern |-> <<"rome", ".*">>],
    [q |-> "regexp", field |-> Field("host.name"), pattern |-> <<"alpha", "|", "paris">>],
    [q |-> "nested", path |-> "message", query |-> Says("beta")],
    Multi(<<NullValue>>, Text(<<"stop", "two">>), TRUE),
    Multi(<<Field("host.name"), Field("message")>>, Text(<<"rome", "stop">>), FALSE),
    [q |-> "ids", values |-> <<Instant(50 * Minute)>>],
    Lucene(<<"n", ":", ">", "5">>, Between("n", "gt" :> Other(Num(5)))),
    Lucene(<<"n", ":", " ", "[", "5", " ", "TO", " ", "9", "}", " ">>,
           Between("n", "gte" :> Other(Num(5)) @@ "lt" :> Other(Num(9)))),
    Lucene(<<"message", ":", "(", "beta", " ", "AND", " ", "(", "stop", " ", "two", ")", ")">>,
           Must(<<Says("beta"), Matches("message", Str(Text(<<"stop", "two">>)))>>)),
    Lucene(<<" ", "beta", "^", "5", " ", "NOT", " ", "host.name", ":", "rome", "*">>,
           [q |-> "bool", must |-> List(<<Says("beta")>>),
                          must_not |-> List(<<Matches("host.name", Str(Word("rome")))>>)]),
    Lucene(<<"\"", "alpha", " ", "beta", "\"", "~", "5", " ", "OR", " ", "n", ":", "9">>,
           Should(<<Phrase("message", Str(Text(<<"alpha", "beta">>))), Term("n", Other(Num(9)))>>)),
    Lucene(<<"!", "message", ":", "{", "beta", " ", "TO", " ", "*", "]", " ", "AND", " ",
             "_exists_", ":", "n">>,
           [q |-> "bool", must |-> List(<<[q |-> "exists", field |-> Field("n")]>>),
                          must_not |-> List(<<Between("message", "gt" :> Str(Word("beta")))>>)]) }

\* Fields some documents have, and some tables.
Partial ==
  { Term("tags", Str(Word("two"))), Multi(<<Field("labels")>>, Word("paris"), TRUE),
    Term("labels", Str(Word("red"))), [q |-> "exists", field |-> Field("ip")],
    Term("ip", Str([net |-> 1])), Multi(<<Field("tags")>>, Text(<<"red">>), TRUE) }

Attributes == {Term("city", Str(Word("paris"))), Terms("city", <<Str(Word("rome"))>>)}

\* Several clauses, in the forms a bool query has.
Compound ==
  { [q |-> "bool", must |-> List(<<Matches("message", Str(Word("beta")))>>),
                   filter |-> JustOne(Between("@timestamp", Hour)),
                   should |-> List(<<Term("n", Other(Num(9)))>>)],
    [q |-> "bool", filter |-> List(<<[q |-> "match_all"], Term("ok", Other(Flag(TRUE)))>>),
                   must_not |-> List(<<Term("n", Other(Num(5))), Term("n", Other(Num(9)))>>),
                   should |-> List(<<Term("host", Str(Word("paris"))),
                                     Matches("message", Str(Word("two")))>>),
                   minimum |-> 1],
    [q |-> "bool", must_not |-> JustOne(Term("ok", Other(Flag(FALSE)))),
                   should |-> List(<<Phrase("message", Str(Text(<<"beta", "stop">>))),
                                     NotAny(<<Between("n", "lt" :> Other(Num(7)))>>)>>)] }

By(field, order) == [field |-> Field(field), order |-> order]
Latest == [list |-> TRUE, by |-> <<By("@timestamp", "desc")>>]
Ranked == [list |-> TRUE, by |-> <<By("_score", "desc"), By("n", "asc"), By("@timestamp", "desc")>>]

Body(query) == [query |-> query]
Sorted(query, sort, size) == [query |-> query, sort |-> sort, size |-> size]

Tracked(body, track) == ("track_total_hits" :> track) @@ body

\* Scripts: what they mean, and how that is written.
Reads(name)   == [s |-> "field", name |-> name]
Says2(l, r)   == [s |-> "plus", left |-> l, right |-> r]
Quote(word)   == [s |-> "text", value |-> Word(word)]
Calls(m, x)   == [s |-> m, of |-> x]
At == Reads("@timestamp")

RECURSIVE Written(_, _)
Written(x, blank) ==
  CASE x.s = "text"   -> <<"'", x.value.text[1], "'">>
    [] x.s = "field"  -> <<"doc", "[", "'", x.name, "'", "]", ".", "value">>
    [] x.s = "plus"   -> Written(x.left, blank) \o blank \o <<"+">> \o blank \o Written(x.right, blank)
    [] x.s = "encode" -> <<"URLEncoder.encode", "(">> \o Written(x.of, blank) \o <<")">>
    [] OTHER -> Written(x.of, blank) \o <<".", x.s, "(", ")">>

Emitting(expr, blank) == <<"emit", "(">> \o blank \o expr \o blank \o <<")">>

Computed(x, blank) == [script |-> Emitting(Written(x, blank), blank), means |-> x]

HourField == "hour" :> [script |-> Scripts!HourScript, means |-> Calls("getHour", At)]

\* Sums of three, dates as texts and back, and a call within a call.
Meanings ==
  { Reads("message"), Calls("getHour", At),
    Says2(Says2(Reads("host.name"), Quote("&")), Reads("n")),
    Says2(Calls("formatISO8601NoTimezone", At), Quote("red")),
    Says2(Quote("&"), Calls("getHour", Calls("formatISO8601", At))),
    Says2(Calls("encode", Says2(Says2(Reads("message"), Quote("&")), Calls("encode", Reads("host.name")))),
         Calls("getHour", At)) }

\* A method that is not known, no date, a second argument, no bracket at the
\* end, and a number where a text is expected.
Mistaken ==
  { Emitting(Written(Calls("getMinute", At), <<>>), <<>>),
    Emitting(Written(Calls("getHour", Reads("message")), <<>>), <<>>),
    <<"emit", "(">> \o Written(At, <<>>) \o <<".", "getHour", "(", "'", "red", "'", ",", "'", "two", "'", ")", ")">>,
    <<"emit", "(">> \o Written(At, <<>>),
    Emitting(Written(Calls("encode", Reads("n")), <<>>), <<>>) }

Ask(layout, body, more) ==
  [at |-> layout, names |-> NamesOf(layout), body |-> body,
   docs |-> DocsOf(layout, Documents), more |-> more, sound |-> TRUE]

Quiet(layout, body) == Ask(layout, body, {})
Busy(layout, body) == Ask(layout, body, DocsOf(layout, {Late}))

\* One of a kind that is not known, one that compares a text with a number, and
\* one that goes on after more values than it sorts by.
Unsound ==
  {[Quiet(Own, Body([q |-> "match_all"])) EXCEPT !.at = at, !.sound = FALSE] : at \in Unfound} \cup
  {[Quiet(Own, body) EXCEPT !.sound = FALSE] :
     body \in {[runtime_mappings |-> "made" :> [script |-> text]] : text \in Mistaken} \cup
             { Body(Must(<<[q |-> "match_all"], [q |-> "script"]>>)),
               Body(Between("n", "gte" :> Str(Word("two")))),
               Body([q |-> "geo_bounding_box", corners |-> {"top_left"}]),
               Body([q |-> "nested", path |-> "message"]),
               ("search_after" :> <<Num(0), Num(0)>>) @@ Sorted([q |-> "match_all"], Latest, 2) }}

Asks(layout, query) ==
  ~(layout = Renamed /\ query.q = "ids") /\ ~(query \in Attributes /\ layout = Seconds)

SomeSearches ==
  Unsound
    \cup {[Quiet(Own, Body([q |-> "match_all"])) EXCEPT !.at = at, !.names = {}] : at \in Nothing}
    \cup
  {Quiet(l, Body(q)) : <<l, q>> \in {<<l, q>> \in Layouts \X (Total \cup Partial \cup Attributes) : Asks(l, q)}}
    \cup {Quiet(l, Body(NotAny(<<q>>))) : <<l, q>> \in {<<l, q>> \in {Own, Shared} \X Total : Asks(l, q)}}
    \cup {Busy(l, Sorted(q, Latest, 2)) : l \in {Own, Seconds, Shared, Single}, q \in Compound}
    \cup {Busy(l, Sorted(Between("@timestamp", Hour), Latest, 2)) : l \in Layouts \ {Renamed}}
    \cup {Busy(l, Tracked(Sorted([q |-> "match_all"], Ranked, 2), t)) :
            l \in {Own, Grouped}, t \in {[all |-> TRUE], [all |-> FALSE], [upTo |-> 3]}}
    \cup {Quiet(l, [fields |-> <<Field("host")>>, runtime_mappings |-> HourField]) :
            l \in Layouts \ {Shared, Grouped}}
    \cup {Quiet(l, [runtime_mappings |-> HourField]) : l \in Layouts}
    \cup {Quiet(l, [runtime_mappings |-> "made" :> Computed(x, b) @@ "bare" :> [type |-> "long"]]) :
            l \in {Own, Seconds, Renamed, Shared}, x \in Meanings, b \in {<<>>, <<" ">>}}
    \cup {Busy(Viewed, Sorted(Must(<<Term("ok", Other(Flag(TRUE))), q>>), Latest, 2)) :
            q \in {Matches("message", Str(Word("two"))), Between("@timestamp", Hour)}}
=============================================================================
