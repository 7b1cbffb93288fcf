------------------------- MODULE SchemaTransformer -------------------------
(***************************************************************************)
(* The chain of transformations between a parsed query and the database's    *)
(* (frontend_connectors/schema_transformer.go and the files beside it).      *)
(* Each replaces nodes of the expressions of a select; the names of fields   *)
(* are public ones before FieldEncoding and columns after it.                *)
(***************************************************************************)
EXTENDS QueryParser

\* A mutant of Chain: names are encoded before the wildcard is replaced by them.
ChainEncodingFirst ==
  <<"PhysicalFromExpression", "FieldEncoding", "WildcardExpansion", "RuntimeMappings",
    "FullTextField", "TimestampField", "SearchAfter", "DateFunctions", "Ip", "Geo",
    "Array", "Map", "MatchOperator", "BooleanLiteral">>

\* The order of Transform.  Aggregates over texts are left out: these queries
\* have none.
Chain == <<"PhysicalFromExpression", "WildcardExpansion", "RuntimeMappings", "FieldEncoding",
           "FullTextField", "TimestampField", "SearchAfter", "DateFunctions", "Ip", "Geo",
           "Array", "Map", "MatchOperator", "BooleanLiteral">>

Failed == [failed |-> TRUE]

\* In some order, as a map of Go is listed.
ListOf(set) == FoldSet(LAMBDA x, seq : Append(seq, x), <<>>, set)

\* The expressions of a select, and the select with some of their nodes
\* replaced.
ExprsOf(select) ==
  {select.where} \cup {c.is : c \in ToSet(select.columns)} \cup {o.by : o \in ToSet(select.order)}

NodesOf(select) == UNION {Nodes(x) : x \in ExprsOf(select)}

Rewrite(query, by) ==
  [query EXCEPT
     !.select.where = Replace(@, by),
     !.select.columns = [i \in DOMAIN @ |-> [@[i] EXCEPT !.is = Replace(@, by)]],
     !.select.order = [i \in DOMAIN @ |-> [@[i] EXCEPT !.by = Replace(@, by)]]]

ColumnsIn(query) == {n \in NodesOf(query.select) : n.e = "col"}
LiteralsIn(query) == {n \in NodesOf(query.select) : n.e = "lit"}
CallsIn(query) == {n \in NodesOf(query.select) : n.e = "fn"}
ComparisonsIn(query) ==
  {n \in NodesOf(query.select) : n.e = "infix" /\ n.op \notin {"AND", "OR"}}

\* Fields by the column that has them.
IsColumn(layout, column) == \E p \in DOMAIN layout.fields : layout.fields[p].internal = column
FieldOf(layout, column) ==
  layout.fields[CHOOSE p \in DOMAIN layout.fields : layout.fields[p].internal = column]

-----------------------------------------------------------------------------
\* From logical to physical.
UseCommonTable(layout) == IF Len(layout.indexes) = 1 THEN layout.common ELSE TRUE

\* A prefix stands for all indexes it begins, those not asked for included.
IndexCondition(layout) ==
  LET column == Col(IndexNameColumn)
      Grouping(index) == {p \in layout.prefixes : IsPrefix(p, index)}
      groups == UNION {Grouping(i) : i \in ToSet(layout.indexes)}
      single == {i \in ToSet(layout.indexes) : Grouping(i) = {}}
  IN  Or(ListOf({Fn("startsWith", <<column, Quoted(Text(p))>>) : p \in groups}
                    \cup {Infix(column, "=", Quoted(Text(i))) : i \in single}))

PhysicalFromExpression(layout, query) ==
  IF ~UseCommonTable(layout) THEN query
  ELSE LET old == {c \in ColumnsIn(query) : c.name \in {"timestamp", "epoch_time"}}
           renamed == Rewrite(query, [c \in old |-> Col(TimestampField)])
       IN  [renamed EXCEPT !.select.from = "common",
                           !.select.where = And(<<@, IndexCondition(layout)>>)]

WildcardExpansion(layout, query) ==
  LET others == SelectSeq(query.select.columns, LAMBDA c : c.is # Col(Star))
      names == {p \in DOMAIN layout.fields : layout.fields[p].ingest} \cup DOMAIN query.runtime
      expanded == ListOf({Column(Col(n)) : n \in names})
      index == IF Len(layout.indexes) > 1 THEN <<Column(Col(IndexNameColumn))>> ELSE <<>>
      columns == IF others = query.select.columns THEN others ELSE others \o expanded \o index
  IN  IF columns = <<>> THEN Failed ELSE [query EXCEPT !.select.columns = columns]

\* Columns keep the name of the field that is computed.
RuntimeMappings(layout, query) ==
  LET mapped == {c \in ColumnsIn(query) : c.name \in DOMAIN query.runtime}
      Named(c) == IF c.is \in mapped THEN [c EXCEPT !.as = c.is.name] ELSE c
  IN  Rewrite([query EXCEPT !.select.columns = [i \in DOMAIN @ |-> Named(@[i])]],
              [c \in mapped |-> query.runtime[c.name].db])

\* A name that is already a column stays, a field becomes its column, and the
\* rest is looked for among the attributes, if the table has any.
FieldEncoding(layout, query) ==
  LET hasAttributes == AttributesColumn \in DOMAIN layout.cols
      Encoded(c) ==
        CASE c.name \in {FullTextField, IndexNameColumn} \/ IsColumn(layout, c.name) -> c
          [] Known(layout, c.name) -> Col(ColumnOf(layout, c.name))
          [] hasAttributes -> Attr(c.name)
          [] OTHER -> NullExpr
      by == [c \in ColumnsIn(query) |-> Encoded(c)]
      Named(c) == IF c.is.e = "col" /\ by[c.is].e # "col" THEN [c EXCEPT !.as = c.is.name] ELSE c
  IN  Rewrite([query EXCEPT !.select.columns = [i \in DOMAIN @ |-> Named(@[i])]], by)

-----------------------------------------------------------------------------
\* The search of all texts is a comparison with each of them.
Likes == {"LIKE", "iLIKE", "ILIKE"}

FullText(layout, query) ==
  LET texts == {layout.fields[p].internal : p \in {p \in DOMAIN layout.fields :
                  layout.fields[p].type = "text" /\ layout.fields[p].ingest}}
      placed == {n \in ComparisonsIn(query) : n.left = Col(FullTextField)}
      Everything(n) == n.op \in Likes /\ n.right.value = Text(<<>>) /\ n.right.open # {}
      Spread(n) == IF texts = {} THEN Lit(Flag(Everything(n)))
                   ELSE Or(ListOf({Infix(Col(t), n.op, n.right) : t \in texts}))
      new == Rewrite(query, [n \in placed |-> Spread(n)])
  IN  IF Col(FullTextField) \in ColumnsIn(new) THEN Failed ELSE new

Timestamp(layout, query) ==
  IF TimestampField \notin DOMAIN layout.fields THEN query
  ELSE LET column == layout.fields[TimestampField].internal
           new == IF query.hits THEN [query EXCEPT !.timestamp = column] ELSE query
       IN  Rewrite(new, [c \in {c \in ColumnsIn(new) : c.name = TimestampField} |-> Col(column)])

\* The values a page ended with, one for each column of the order, which is
\* looked up as if it were a field.  What is at the end of the tuple is only
\* looked at when what is before it is the same; all of them being the same is
\* not after.
SearchAfter(layout, query) ==
  LET after == query.searchAfter.after
      order == query.select.order
      isDate == [i \in DOMAIN order |-> Known(layout, order[i].by.name)
                                         /\ FieldNamed(layout, order[i].by.name).type = "date"]
      Valid == /\ Len(after) = Len(order)
               /\ \A i \in DOMAIN order : /\ order[i].by.e = "col"
                                          /\ Known(layout, order[i].by.name)
                                          /\ isDate[i] => Is("num", after[i])
      Parameter(i) == IF isDate[i] THEN Fn("fromUnixTimestamp64Milli", <<Lit(after[i])>>)
                      ELSE IF Is("text", after[i]) THEN Quoted(after[i]) ELSE Lit(after[i])
      Side(wanted) == Tuple([i \in DOMAIN order |->
                        IF order[i].desc = wanted THEN Parameter(i) ELSE order[i].by])
  IN  IF query.searchAfter = NullValue THEN query
      ELSE IF ~Valid THEN Failed
      ELSE [query EXCEPT !.select.where = And(<<@, Infix(Side(TRUE), ">", Side(FALSE))>>)]

-----------------------------------------------------------------------------
\* What ClickHouse has for each kind of field.
DateFunctions(query) ==
  LET hours == {c \in CallsIn(query) : c.f = "__quesma_date_hour" /\ Len(c.args) = 1}
  IN  Rewrite(query, [c \in hours |-> Fn("toHour", c.args)])

TypeOf(layout, x) ==
  IF x.e = "col" /\ IsColumn(layout, x.name) THEN FieldOf(layout, x.name).type ELSE "none"

DbTypeOf(layout, x) ==
  IF x.e = "col" /\ IsColumn(layout, x.name) THEN FieldOf(layout, x.name).db ELSE "none"

\* Only a net is looked for with a function, an address is compared.
Ip(layout, query) ==
  LET nets == {n \in ComparisonsIn(query) :
                 /\ TypeOf(layout, n.left) = "ip" /\ n.right.e = "lit"
                 /\ Is("net", n.right.value) /\ n.op \in {"=", "iLIKE"}}
  IN  Rewrite(query, [n \in nets |->
        Fn("isIPAddressInRange", <<n.left, [n.right EXCEPT !.open = {}]>>)])

\* A point is in two columns.
Geo(layout, query) ==
  LET points == {c \in ColumnsIn(query) : TypeOf(layout, c) = "point"}
      Merged(c) == Fn("map", <<Col(c.name \o "_lat"), Col(c.name \o "_lon")>>)
      Named(c) == IF c.is \in points THEN [c EXCEPT !.as = c.is.name] ELSE c
  IN  Rewrite([query EXCEPT !.select.columns = [i \in DOMAIN @ |-> Named(@[i])]],
              [c \in points |-> Merged(c)])

\* Other comparisons of an array are left as they are.
ArrayTypeVisitor(layout, query) ==
  LET lists == {n \in ComparisonsIn(query) :
                  /\ DbTypeOf(layout, n.left) = "Array(String)"
                  /\ n.op \in Likes \cup {"=", " = "}}
      Search(n) == IF n.op \in Likes
                   THEN Fn("arrayExists", <<Lambda(n.op, n.right), n.left>>)
                   ELSE Fn("has", <<n.left, n.right>>)
  IN  Rewrite(query, [n \in lists |-> Search(n)])

\* Only if an array is mentioned.  These queries group by nothing, so none of
\* their arrays is joined.
Array(layout, query) ==
  IF \A c \in ColumnsIn(query) : DbTypeOf(layout, c) # "Array(String)" THEN query
  ELSE ArrayTypeVisitor(layout, query)

\* Whether a column is a map is asked of the field of that name.
IsMap(layout, x) ==
  /\ x.e = "col" /\ Known(layout, x.name) /\ ColumnOf(layout, x.name) \in DOMAIN layout.fields
  /\ layout.fields[ColumnOf(layout, x.name)].db = "Map(String, String)"

MapTypeVisitor(layout, query) ==
  LET maps == {n \in ComparisonsIn(query) : IsMap(layout, n.left) /\ n.op \in Likes \cup {"="}}
      Exists(n, part) == Fn(part, <<Lambda(n.op, n.right), n.left>>)
      Search(n) == IF n.op \in Likes
                   THEN Infix(Exists(n, "arrayExistsKey"), "OR", Exists(n, "arrayExistsValue"))
                   ELSE Fn("mapContains", <<n.left, n.right>>)
  IN  Rewrite(query, [n \in maps |-> Search(n)])

\* Only if a map is selected or compared; the order is not looked at.
MapType(layout, query) ==
  LET looked == Nodes(query.select.where) \cup UNION {Nodes(c.is) : c \in ToSet(query.select.columns)}
  IN  IF \A n \in looked : ~IsMap(layout, n) THEN query ELSE MapTypeVisitor(layout, query)

\* A match of a number or a flag is an equation, any other a search.
Match(layout, query) ==
  LET matches == {n \in ComparisonsIn(query) :
                    n.op = MatchOperator /\ n.left.e = "col" /\ n.right.e = "lit"}
      Operator(n) == IF TypeOf(layout, n.left) \in {"integer", "long", "unsigned_long", "boolean"}
                     THEN Infix(n.left, "=", Lit(n.right.value))
                     ELSE Infix(n.left, "iLIKE", LikeFull(n.right.value))
  IN  Rewrite(query, [n \in matches |-> Operator(n)])

\* Any literal that has true or false in it loses its quotes.
BooleanLiteral(query) ==
  LET Spells(v) == Is("flag", v) \/ (Is("text", v) /\ {"true", "false"} \cap ToSet(v.text) # {})
      flags == {l \in LiteralsIn(query) : Spells(l.value) /\ l.quotes = "text"}
  IN  Rewrite(query, [l \in flags |-> [l EXCEPT !.quotes = "none"]])

-----------------------------------------------------------------------------
Apply(step, layout, query) ==
  CASE step = "PhysicalFromExpression" -> PhysicalFromExpression(layout, query)
    [] step = "WildcardExpansion" -> WildcardExpansion(layout, query)
    [] step = "RuntimeMappings"   -> RuntimeMappings(layout, query)
    [] step = "FieldEncoding"     -> FieldEncoding(layout, query)
    [] step = "FullTextField"     -> FullText(layout, query)
    [] step = "TimestampField"    -> Timestamp(layout, query)
    [] step = "SearchAfter"       -> SearchAfter(layout, query)
    [] step = "DateFunctions"     -> DateFunctions(query)
    [] step = "Ip"                -> Ip(layout, query)
    [] step = "Geo"               -> Geo(layout, query)
    [] step = "Array"             -> Array(layout, query)
    [] step = "Map"               -> MapType(layout, query)
    [] step = "MatchOperator"     -> Match(layout, query)
    [] step = "BooleanLiteral"    -> BooleanLiteral(query)

\* Failed if a step fails.
Transform(layout, query) ==
  FoldLeft(LAMBDA q, step : IF q = Failed THEN q ELSE Apply(step, layout, q), query, Chain)
=============================================================================
