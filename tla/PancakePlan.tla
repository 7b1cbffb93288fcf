---------------------------- MODULE PancakePlan ----------------------------
(***************************************************************************)
(* How a tree of aggregations becomes pancakes, each of them one SQL query: *)
(* parsers/elastic_query_dsl/pancake_transformer.go and the choice of the   *)
(* filters that pancake_sql_query_generation.go turns into -If.             *)
(*                                                                         *)
(* A node of the tree is [name, kind, field, missing, size, order, min,     *)
(* filters, aggs]: its filters are sequences of [name, field, value], its   *)
(* children are in the order of their names.  An order is [by, desc], by a  *)
(* path to a metric, <<"_count">> or <<"_key">>.  Top hits, pipelines,      *)
(* samplers and the kinds that differ in their SQL text only are left out.  *)
(***************************************************************************)
EXTENDS Integers, Sequences, FiniteSets, SequencesExt, TLC

CONSTANT Null

Metrics == {"sum", "max", "avg"}

IsMetric(a) == a.kind \in Metrics
IsCombinator(a) == a.kind \in {"filter", "filters"}
HasGroupBy(a) == a.kind \in {"terms", "histogram", "date_histogram"}

NoBucket == [path |-> <<>>, agg |-> Null, groups |-> <<>>]

Metric(path, a, only) ==
  [path |-> Append(path, a.name), fn |-> a.kind, field |-> a.field, only |-> only]

\* A filter beside the filter that continues the pancake, without children.
IsSimpleFilter(a, aggs) ==
  LET buckets == SelectSeq(aggs, LAMBDA x : ~IsMetric(x))
  IN  /\ a.kind = "filter" /\ a.aggs = <<>>
      /\ a # Head(buckets) /\ Head(buckets).kind = "filter"

\* One layer holds all metrics and the first bucket; every other bucket
\* starts a layer of its own.
CreateLayer(path, aggs) ==
  LET Measured(a) == IsMetric(a) \/ IsSimpleFilter(a, aggs)
      metrics == [i \in DOMAIN SelectSeq(aggs, Measured) |->
                    LET a == SelectSeq(aggs, Measured)[i]
                    IN  Metric(path, a, IF IsMetric(a) THEN {} ELSE ToSet(a.filters))]
      buckets == SelectSeq(aggs, LAMBDA a : ~Measured(a))
      Bucket(a) == [path |-> Append(path, a.name), agg |-> a, groups |-> a.filters]
  IN  IF aggs = <<>> THEN <<>>
      ELSE IF buckets = <<>> THEN <<[metrics |-> metrics, bucket |-> NoBucket]>>
      ELSE [i \in DOMAIN buckets |->
              [metrics |-> IF i = 1 THEN metrics ELSE <<>>,
               bucket  |-> Bucket(buckets[i])]]

\* The stacks of layers, one for each path from the root to a last bucket;
\* metrics belong to the first stack they are met on.
RECURSIVE AggregationChildrenToLayers(_, _)
AggregationChildrenToLayers(path, aggs) ==
  LET heads == CreateLayer(path, aggs)
      Below(head) == IF head.bucket = NoBucket THEN <<>>
                     ELSE AggregationChildrenToLayers(head.bucket.path, head.bucket.agg.aggs)
      Stacks(head) ==
        IF Below(head) = <<>> THEN << <<head>> >>
        ELSE [i \in DOMAIN Below(head) |->
                <<IF i = 1 THEN head ELSE [head EXCEPT !.metrics = <<>>]>> \o Below(head)[i]]
  IN  FlattenSeq([h \in DOMAIN heads |-> Stacks(heads[h])])

\* createCombinatorPancakes leaves a pancake alone that has no bucket below
\* its first filters and nothing beside them.
IsSplit(layers) ==
  LET first == Head(layers)
      noMoreBucket == Len(layers) = 2 /\ layers[2].bucket = NoBucket
  IN  /\ first.bucket # NoBucket /\ IsCombinator(first.bucket.agg)
      /\ Len(layers) > 1 /\ first.bucket.groups # <<>>
      /\ ~(noMoreBucket /\ first.metrics = <<>>)

\* The pancake of one of the filters the first layer consists of.
OnlyGroup(layers, g) ==
  [layers |-> [layers EXCEPT ![1].bucket.groups = <<g>>], where |-> {g}]

Clone(layers, g) == OnlyGroup([layers EXCEPT ![1].metrics = <<>>], g)

\* A split replaces the query type of a bucket that the stacks after this one
\* share: they find its first filter only.
RECURSIVE CombinatorPancakes(_, _)
CombinatorPancakes(stacks, split) ==
  IF stacks = <<>> THEN <<>>
  ELSE LET shared == Head(stacks)[1].bucket
           layers == IF shared.path \in split
                     THEN [Head(stacks) EXCEPT ![1].bucket.groups = <<shared.groups[1]>>]
                     ELSE Head(stacks)
           groups == layers[1].bucket.groups
       IN  IF IsSplit(layers)
           THEN <<OnlyGroup(layers, groups[1])>>
                  \o [i \in 1..(Len(groups) - 1) |-> Clone(layers, groups[i + 1])]
                  \o CombinatorPancakes(Tail(stacks), split \cup {shared.path})
           ELSE <<[layers |-> layers, where |-> {}]>> \o CombinatorPancakes(Tail(stacks), split)

AggregationTreeToPancakes(aggs) ==
  CombinatorPancakes(AggregationChildrenToLayers(<<>>, aggs), {})

TotalCount == <<"__quesma_total_count">>

\* A mutant of AddCount: below the first bucket.
AddCountBelow(pancakes) ==
  [pancakes EXCEPT ![1].layers[Len(pancakes[1].layers)].metrics =
     Append(@, [path |-> TotalCount, fn |-> "count", field |-> Null, only |-> {}])]

\* The number of hits is one more metric of the first pancake's first layer.
AddCount(pancakes) ==
  [pancakes EXCEPT ![1].layers[1].metrics =
     Append(@, [path |-> TotalCount, fn |-> "count", field |-> Null, only |-> {}])]

-----------------------------------------------------------------------------
\* The path of the metric a bucket is ordered by: the layers below it must
\* lead there, and the last one must have the metric.
RECURSIVE MetricAt(_, _, _)
MetricAt(layers, i, by) ==
  LET names == {m \in ToSet(layers[i].metrics) : Last(m.path) = by[1]}
  IN  IF i > Len(layers) THEN <<>>
      ELSE IF Len(by) = 1
           THEN IF names = {} THEN <<>> ELSE (CHOOSE m \in names : TRUE).path
           ELSE IF layers[i].bucket # NoBucket /\ Last(layers[i].bucket.path) = by[1]
                THEN MetricAt(layers, i + 1, Tail(by))
                ELSE <<>>

IsPath(order) == order.by \notin {<<"_count">>, <<"_key">>}

\* How many keys group the rows above layer i.
Depth(p, i) == Cardinality({j \in 1..(i - 1) : HasGroupBy(p.layers[j].bucket.agg)})

\* Generating a pancake's query fails when a bucket is ordered by a metric the
\* pancake does not have, and then no aggregation is answered.  (Above no
\* other GROUP BY the name itself goes into the query.)
CanGenerate(p) ==
  \A i \in DOMAIN p.layers :
    LET b == p.layers[i].bucket
        hasMore == \E j \in (i + 1)..Len(p.layers) :
                     p.layers[j].bucket # NoBucket /\ HasGroupBy(p.layers[j].bucket.agg)
    IN  b # NoBucket /\ HasGroupBy(b.agg) /\ IsPath(b.agg.order) /\ hasMore
          => MetricAt(p.layers, i + 1, b.agg.order.by) # <<>>

\* "filters" in the first layer is taken to be in the WHERE clause when
\* something is below it and nothing beside it; a filter never is, its type
\* is another one than the one that is asked for.
FilterAlreadyInWhereClause(p, i) ==
  /\ i = 1 /\ p.layers[1].bucket.agg.kind = "filters"
  /\ Len(p.layers) > 1 /\ p.layers[1].metrics = <<>>

AddIfCombinators(p) ==
  {i \in DOMAIN p.layers :
     /\ p.layers[i].bucket # NoBucket /\ IsCombinator(p.layers[i].bucket.agg)
     /\ ~FilterAlreadyInWhereClause(p, i)}
=============================================================================
