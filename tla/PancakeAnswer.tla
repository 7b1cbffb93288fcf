---------------------------- MODULE PancakeAnswer ----------------------------
(***************************************************************************)
(* From rows to the JSON of the answer: pancake_json_rendering.go, the      *)
(* bucket aggregations it calls (model/bucket_aggregations) and MergeMaps of *)
(* util/utils.go, which puts the answers of several pancakes together.      *)
(*                                                                         *)
(* A JSON object is a Node: its scalars, Null when absent, its objects by    *)
(* name (aggregations, or the named filters of "filters") and its array of   *)
(* buckets.  Keys are numbers below 100.                                     *)
(***************************************************************************)
EXTENDS PancakeQuery

Node == [key |-> Null, doc_count |-> Null, value |-> Null, other |-> Null,
         aggs |-> <<>>, buckets |-> <<>>]

\* Strings are compared, also when the keys are numbers.
Digits(key) == IF key < 10 THEN <<key, -1>> ELSE <<key \div 10, key % 10>>

KeyLess(x, y) ==
  \/ Digits(x)[1] < Digits(y)[1]
  \/ Digits(x)[1] = Digits(y)[1] /\ Digits(x)[2] < Digits(y)[2]

Either(x, y) == IF x = Null THEN y ELSE x

\* Scalars of the first map win.  Arrays of equal length are merged by
\* position, others by walking both in the order of the keys.
RECURSIVE MergeMaps(_, _), MergeArrays(_, _)
MergeMaps(x, y) ==
  [key       |-> Either(x.key, y.key),
   doc_count |-> Either(x.doc_count, y.doc_count),
   value     |-> Either(x.value, y.value),
   other     |-> Either(x.other, y.other),
   aggs      |-> [n \in DOMAIN x.aggs \cup DOMAIN y.aggs |->
                    IF n \in DOMAIN x.aggs \cap DOMAIN y.aggs
                    THEN MergeMaps(x.aggs[n], y.aggs[n])
                    ELSE IF n \in DOMAIN x.aggs THEN x.aggs[n] ELSE y.aggs[n]],
   buckets   |-> IF Len(x.buckets) = Len(y.buckets)
                 THEN [i \in DOMAIN x.buckets |-> MergeMaps(x.buckets[i], y.buckets[i])]
                 ELSE MergeArrays(x.buckets, y.buckets)]

MergeArrays(xs, ys) ==
  IF xs = <<>> THEN ys
  ELSE IF ys = <<>> THEN xs
  ELSE IF Head(xs).key = Head(ys).key
       THEN <<MergeMaps(Head(xs), Head(ys))>> \o MergeArrays(Tail(xs), Tail(ys))
  ELSE IF KeyLess(Head(xs).key, Head(ys).key)
       THEN <<Head(xs)>> \o MergeArrays(Tail(xs), ys)
       ELSE <<Head(ys)>> \o MergeArrays(xs, Tail(ys))

-----------------------------------------------------------------------------
\* A cell of the first row; without a row or without the column there is none.
CellOf(rows, what, path) ==
  LET column == << <<>>, what, path>>
  IN  IF rows = <<>> THEN Null
      ELSE IF column \in DOMAIN rows[1] THEN rows[1][column] ELSE Null

\* A filter that was counted as a metric answers with a doc_count.
MetricToJSON(m, rows) ==
  LET cell == CellOf(rows, "metric", m.path)
  IN  IF m.fn = "filter" THEN [Node EXCEPT !.doc_count = cell]
      ELSE [Node EXCEPT !.value = cell]

\* selectPrefixRows keeps the columns of one of several filters.
SelectPrefixRows(b, g, rows) ==
  LET Named(row) == {c \in DOMAIN row : c[1] # <<>> /\ Head(c[1]) = g.name}
  IN  IF Len(b.groups) = 1 THEN rows
      ELSE [i \in DOMAIN rows |->
              [c \in {<<Tail(n[1]), n[2], n[3]>> : n \in Named(rows[i])} |->
                 rows[i][<< <<g.name>> \o c[1], c[2], c[3]>>]]]

\* splitBucketRows: adjacent rows with the same key are one bucket's.
SplitBucketRows(b, rows) ==
  LET key == << <<>>, "key", b.path>>
      Add(buckets, row) ==
        IF buckets # <<>> /\ Last(buckets)[1][key] = row[key]
        THEN [buckets EXCEPT ![Len(buckets)] = Append(@, row)]
        ELSE Append(buckets, <<row>>)
  IN  FoldLeft(Add, <<>>, rows)

\* The bucket without a key goes, or the last one, asked for in its place.
PotentiallyRemoveExtraBucket(b, split) ==
  LET key == << <<>>, "key", b.path>>
      empty == {i \in DOMAIN split : split[i][1][key] = Null}
  IN  IF ~FiltersOutEmptyKey(b.agg) THEN split
      ELSE IF empty # {} THEN RemoveAt(split, CHOOSE i \in empty : \A j \in empty : i <= j)
      ELSE IF b.agg.size # 0 /\ Len(split) > b.agg.size THEN SubSeq(split, 1, b.agg.size)
      ELSE split

\* Empty buckets between two of a histogram with min_doc_count 0.
FillGaps(buckets) ==
  LET Add(filled, bucket) ==
        IF filled = <<>> THEN <<bucket>>
        ELSE filled \o [n \in 1..(bucket.key - Last(filled).key - 1) |->
                          [Node EXCEPT !.key = Last(filled).key + n, !.doc_count = 0]]
                    \o <<bucket>>
  IN  FoldLeft(Add, <<>>, buckets)

\* TranslateSqlResponseToJson of the bucket aggregations.
TranslateSqlResponseToJson(b, split) ==
  LET listed == [i \in DOMAIN split |->
                   [Node EXCEPT !.key       = CellOf(split[i], "key", b.path),
                                !.doc_count = CellOf(split[i], "count", b.path)]]
      sum == FoldLeft(LAMBDA n, x : n + x.doc_count, 0, listed)
      Enough(bucket) == bucket.doc_count >= b.agg.min
  IN  CASE b.agg.kind = "terms" ->
             [Node EXCEPT !.buckets = listed,
                !.other = IF split = <<>> THEN Null
                          ELSE CellOf(split[1], "parent_count", b.path) - sum]
        [] b.agg.kind = "histogram" ->
             [Node EXCEPT !.buckets = IF b.agg.min = 0 THEN FillGaps(listed) ELSE listed]
        [] b.agg.kind = "date_histogram" ->
             [Node EXCEPT !.buckets =
                SelectSeq(IF b.agg.min = 0 THEN FillGaps(listed) ELSE listed, Enough)]

-----------------------------------------------------------------------------
\* Buckets get their sub-aggregations by position when there are as many of
\* them as groups of rows, else each group goes to the next bucket of its key.
Pair(b, buckets, split) ==
  LET Key(i) == CellOf(split[i], "key", b.path)
      \* The groups used by the buckets before bucket i.
      used[i \in 1..(Len(buckets) + 1)] ==
        IF i = 1 THEN 0
        ELSE LET u == used[i - 1]
             IN  IF u < Len(split) /\ Key(u + 1) = buckets[i - 1].key THEN u + 1 ELSE u
  IN  [i \in DOMAIN buckets |->
         IF Len(buckets) = Len(split) THEN split[i]
         ELSE IF used[i + 1] > used[i] THEN split[used[i + 1]] ELSE <<>>]

RECURSIVE LayerToJSON(_, _)
LayerToJSON(layers, rows) ==
  LET layer == Head(layers)
      b == layer.bucket
      below == Tail(layers)
      metrics == {m \in ToSet(layer.metrics) : m.path # TotalCount}
      measured == [Node EXCEPT !.aggs =
        [n \in {Last(m.path) : m \in metrics} |->
           MetricToJSON(CHOOSE m \in metrics : Last(m.path) = n, rows)]]
      Counted(rs) == [Node EXCEPT !.doc_count = CellOf(rs, "count", b.path)]
      Only(node) == [Node EXCEPT !.aggs = (Last(b.path) :> node)]
      split == PotentiallyRemoveExtraBucket(b, SplitBucketRows(b, rows))
      answered == TranslateSqlResponseToJson(b, split)
      rowsOf == Pair(b, answered.buckets, split)
      \* combinatorBucketToJSON; a filter without a column counts nothing.
      NamedFilter(g) ==
        LET rs == SelectPrefixRows(b, g, rows)
            counted == Counted(rs)
        IN  MergeMaps([counted EXCEPT !.doc_count = Either(@, 0)], LayerToJSON(below, rs))
  IN  IF layers = <<>> THEN Node
      ELSE IF b = NoBucket THEN measured
      ELSE MergeMaps(measured, Only(
        CASE b.agg.kind = "filter" -> MergeMaps(Counted(rows), LayerToJSON(below, rows))
          [] b.agg.kind = "filters" ->
               [Node EXCEPT !.aggs =
                  [n \in {g.name : g \in ToSet(b.groups)} |->
                     NamedFilter(CHOOSE g \in ToSet(b.groups) : g.name = n)]]
          [] OTHER ->
               [answered EXCEPT !.buckets =
                  [i \in DOMAIN @ |-> MergeMaps(@[i], LayerToJSON(below, rowsOf[i]))]]))

\* MakeAggregationPartOfResponse merges the answers in the order of the queries.
MakeAggregationPartOfResponse(pancakes, results) ==
  FoldLeft(LAMBDA merged, i : MergeMaps(merged, LayerToJSON(pancakes[i].layers, results[i])),
           Node, [i \in DOMAIN pancakes |-> i])

\* makeTotalCount: no row means no hits.
MakeTotalCount(results) == Either(CellOf(results[1], "metric", TotalCount), 0)
=============================================================================
