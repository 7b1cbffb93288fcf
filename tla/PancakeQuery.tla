---------------------------- MODULE PancakeQuery ----------------------------
(***************************************************************************)
(* The rows a pancake's query returns: the SELECT that generateSelectCommand *)
(* of pancake_sql_query_generation.go puts together, evaluated over a table. *)
(*                                                                         *)
(* A row is a function from columns to cells, a column a triple <<prefix,   *)
(* what, path>>: the filters chosen for it, what it holds of the bucket or   *)
(* metric of that path.  Columns above the last GROUP BY are window          *)
(* functions over the groups.  A table is a sequence of documents.           *)
(***************************************************************************)
EXTENDS PancakePlan, FiniteSetsExt

\* COALESCE with the bucket's "missing"; NULL is a key like the others.
KeyOf(agg, d) == IF d[agg.field] = Null THEN agg.missing ELSE d[agg.field]

Matches(d, filters) == \A f \in filters : d[f.field] = f.value

RealBuckets(p) ==
  SelectSeq([i \in DOMAIN p.layers |-> p.layers[i].bucket],
            LAMBDA b : b # NoBucket /\ HasGroupBy(b.agg))

\* A metric's accumulated state over some values, and over some such states;
\* sums and maxima of nothing are NULL.
StateOf(docs, ds, field) ==
  LET present == IF field = Null THEN {} ELSE {d \in ds : docs[d][field] # Null}
  IN  [docs |-> Cardinality(ds), n |-> Cardinality(present),
       sum  |-> FoldSet(LAMBDA d, s : docs[d][field] + s, 0, present),
       max  |-> FoldSet(LAMBDA d, m : IF docs[d][field] > m THEN docs[d][field] ELSE m, 0, present)]

MergeStates(x, y) ==
  [docs |-> x.docs + y.docs, n |-> x.n + y.n, sum |-> x.sum + y.sum,
   max  |-> IF x.max > y.max THEN x.max ELSE y.max]

NoState == [docs |-> 0, n |-> 0, sum |-> 0, max |-> 0]

Result(fn, state) ==
  CASE fn \in {"count", "filter"} -> state.docs
    [] fn = "sum" -> IF state.n = 0 THEN Null ELSE state.sum
    [] fn = "max" -> IF state.n = 0 THEN Null ELSE state.max
    [] fn = "avg" -> IF state.n = 0 THEN Null ELSE <<state.sum, state.n>>

-----------------------------------------------------------------------------
\* The selected columns: what they aggregate, how many keys partition them,
\* and the last layer whose filters apply to them.
Column(what, path, fn, field, only, keys, upTo) ==
  [what |-> what, path |-> path, fn |-> fn, field |-> field, only |-> only,
   keys |-> keys, upTo |-> upTo]

MetricColumns(p, i) ==
  {Column("metric", m.path, m.fn, m.field, m.only, Depth(p, i), i - 1) :
     m \in ToSet(p.layers[i].metrics)}

\* A terms aggregation also counts the documents of its parent.
BucketColumns(p, i) ==
  LET b == p.layers[i].bucket
      own == IF HasGroupBy(b.agg) THEN 1 ELSE 0
  IN  {Column("count", b.path, "count", Null, {}, Depth(p, i) + own, i)}
      \cup IF b.agg.kind = "terms"
           THEN {Column("parent_count", b.path, "count", Null, {}, Depth(p, i), i)}
           ELSE {}

SelectColumns(p) ==
  (UNION {MetricColumns(p, i) : i \in DOMAIN p.layers})
    \cup UNION {BucketColumns(p, i) : i \in {j \in DOMAIN p.layers : p.layers[j].bucket # NoBucket}}

\* One filter of each combinator that applies to a column.
FilterChoices(p, c) ==
  LET js == {j \in AddIfCombinators(p) : j <= c.upTo}
      Groups(j) == ToSet(p.layers[j].bucket.groups)
  IN  {f \in [js -> UNION {Groups(j) : j \in js}] : \A j \in js : f[j] \in Groups(j)}

\* Several filters tell their columns apart by a prefix, a single one does not.
Prefix(p, f) ==
  LET js == {j \in DOMAIN f : Len(p.layers[j].bucket.groups) > 1}
      order == SetToSortSeq(js, LAMBDA x, y : x < y)
  IN  [n \in DOMAIN order |-> f[order[n]].name]

-----------------------------------------------------------------------------
\* A row's keys, and the rows: one at least when there is no GROUP BY.
Keys(p, d) == [n \in DOMAIN RealBuckets(p) |-> KeyOf(RealBuckets(p)[n].agg, d)]

GroupsOf(p, docs, ds) ==
  IF RealBuckets(p) = <<>> THEN {<<>>} ELSE {Keys(p, docs[d]) : d \in ds}

SamePartition(g, h, keys) == \A n \in 1..keys : g[n] = h[n]

\* What a column holds in a group's row: the states of all groups of its
\* partition, or of the group itself after the last GROUP BY.
Cell(p, docs, ds, groups, g, c, only) ==
  LET State(h) == StateOf(docs, {d \in ds : Keys(p, docs[d]) = h /\ Matches(docs[d], only)}, c.field)
  IN  Result(c.fn, FoldSet(LAMBDA h, s : MergeStates(State(h), s), NoState,
                           {h \in groups : SamePartition(g, h, c.keys)}))

KeyCells(p, g) ==
  [c \in {<< <<>>, "key", b.path>> : b \in ToSet(RealBuckets(p))} |->
     g[CHOOSE n \in DOMAIN RealBuckets(p) : RealBuckets(p)[n].path = c[3]]]

Row(p, docs, ds, groups, g) ==
  LET Named(c, f) == <<Prefix(p, f), c.what, c.path>>
      named == UNION {{<<Named(c, f), c, f>> : f \in FilterChoices(p, c)} : c \in SelectColumns(p)}
      cells == [name \in {n[1] : n \in named} |->
                  LET n == CHOOSE n \in named : n[1] = name
                  IN  Cell(p, docs, ds, groups, g, n[2], n[2].only \cup {n[3][j] : j \in DOMAIN n[3]})]
  IN  cells @@ KeyCells(p, g)

-----------------------------------------------------------------------------
\* ORDER BY: NULL comes last in both directions.
Before(x, y, desc) ==
  /\ x # y /\ x # Null
  /\ y = Null \/ IF desc THEN x > y ELSE x < y

\* What a bucket is ordered by, in a row of a pancake.
OrderCell(p, b, row) ==
  LET i == CHOOSE i \in DOMAIN p.layers : p.layers[i].bucket = b
  IN  CASE b.agg.order.by = <<"_count">> -> row[<< <<>>, "count", b.path>>]
        [] b.agg.order.by = <<"_key">>   -> row[<< <<>>, "key", b.path>>]
        [] OTHER -> row[<< <<>>, "metric", MetricAt(p.layers, i + 1, b.agg.order.by)>>]

\* The n-th buckets of two rows in the order of their rank: the key tells
\* those of equal order apart.
RanksBefore(p, n, x, y) ==
  LET b == RealBuckets(p)[n]
      key == << <<>>, "key", b.path>>
      ox == OrderCell(p, b, x)
      oy == OrderCell(p, b, y)
  IN  Before(ox, oy, b.agg.order.desc) \/ (ox = oy /\ Before(x[key], y[key], FALSE))

\* dense_rank() over the partition of the bucket's parents.
Rank(p, rows, g, n) ==
  LET key == << <<>>, "key", RealBuckets(p)[n].path>>
  IN  1 + Cardinality({rows[h][key] : h \in {h \in DOMAIN rows :
              SamePartition(g, h, n - 1) /\ RanksBefore(p, n, rows[h], rows[g])}})

FiltersOutEmptyKey(agg) == agg.missing = Null

\* A mutant of RankLimit: the bucket to be dropped takes the place of another.
RankLimitOfSize(agg) == agg.size

\* One bucket more is asked for when the one without a key will be dropped.
RankLimit(agg) == IF FiltersOutEmptyKey(agg) THEN agg.size + 1 ELSE agg.size

\* The rows a pancake's query returns, in their order.  A query with a single
\* GROUP BY has a LIMIT in place of the rank, which is the same there.
QueryResult(p, docs) ==
  LET ds == {d \in DOMAIN docs : Matches(docs[d], p.where)}
      groups == GroupsOf(p, docs, ds)
      buckets == RealBuckets(p)
      rows == [g \in groups |-> Row(p, docs, ds, groups, g)]
      ranks == [g \in groups |-> [n \in DOMAIN buckets |-> Rank(p, rows, g, n)]]
      Within(g) == \A n \in DOMAIN buckets :
                     buckets[n].agg.size # 0 => ranks[g][n] <= RankLimit(buckets[n].agg)
      First(g, h) == \E n \in DOMAIN buckets :
                       /\ ranks[g][n] < ranks[h][n]
                       /\ \A m \in 1..(n - 1) : ranks[g][m] = ranks[h][m]
      order == SetToSortSeq({g \in groups : Within(g)}, First)
  IN  [i \in DOMAIN order |-> rows[order[i]]]
=============================================================================
