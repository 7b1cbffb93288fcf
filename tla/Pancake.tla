------------------------------ MODULE Pancake ------------------------------
(***************************************************************************)
(* One search with aggregations: the tree is translated into pancakes       *)
(* (PancakeParseAggregationJson), each pancake's query reads the table when  *)
(* its job runs, in any order and while documents arrive, and the answers    *)
(* are merged (MakeSearchResponse).                                          *)
(*                                                                         *)
(* What it is to answer is stated beside it, bucket by bucket over the       *)
(* documents: no layers, no rows, no ranks, no merging.                      *)
(***************************************************************************)
EXTENDS PancakeAnswer

CONSTANTS Menu,      \* requests: [aggs, count], count: are the hits counted?
          Tables,    \* the tables, sequences of documents
          NewDocs,   \* documents that may arrive
          MaxDocs    \* bound: documents in a table

VARIABLES asked, docs, stage, pancakes, rows, read, answer, total

pancakeVars == <<asked, docs, stage, pancakes, rows, read, answer, total>>

AnswerInit ==
  /\ asked \in Menu /\ docs \in Tables
  /\ stage = "parsing" /\ pancakes = <<>>
  /\ rows = <<>> /\ read = <<>>
  /\ answer = Node /\ total = Null

Planned ==
  LET ps == AggregationTreeToPancakes(asked.aggs)
  IN  IF asked.count THEN AddCount(ps) ELSE ps

\* PancakeParseAggregationJson.
Translate ==
  /\ stage = "parsing"
  /\ \A i \in DOMAIN Planned : CanGenerate(Planned[i])
  /\ pancakes' = Planned /\ stage' = "querying"
  /\ UNCHANGED <<asked, docs, rows, read, answer, total>>

\* ParseQuery swallows the error: the search goes on without aggregations,
\* with a query of its own for the number of hits.
Refuse ==
  /\ stage = "parsing"
  /\ \E i \in DOMAIN Planned : ~CanGenerate(Planned[i])
  /\ stage' = "refused"
  /\ UNCHANGED <<asked, docs, pancakes, rows, read, answer, total>>

CountHits ==
  /\ stage = "refused"
  /\ total' = IF asked.count THEN Len(docs) ELSE Null
  /\ stage' = "answered"
  /\ UNCHANGED <<asked, docs, pancakes, rows, read, answer>>

\* A job of the search runs its query.
Query(i) ==
  /\ stage = "querying" /\ i \notin DOMAIN rows
  /\ rows' = (i :> QueryResult(pancakes[i], docs)) @@ rows
  /\ read' = (i :> docs) @@ read
  /\ UNCHANGED <<asked, docs, stage, pancakes, answer, total>>

\* All results are there: MakeSearchResponse.
MakeSearchResponse ==
  /\ stage = "querying" /\ DOMAIN rows = DOMAIN pancakes
  /\ answer' = MakeAggregationPartOfResponse(pancakes, rows)
  /\ total' = IF asked.count THEN MakeTotalCount(rows) ELSE Null
  /\ stage' = "answered"
  /\ UNCHANGED <<asked, docs, pancakes, rows, read>>

\* A document is inserted by somebody else.
Arrive(d) ==
  /\ stage \in {"querying", "refused"} /\ Len(docs) < MaxDocs
  /\ docs' = Append(docs, d)
  /\ UNCHANGED <<asked, stage, pancakes, rows, read, answer, total>>

Answered == stage = "answered" /\ UNCHANGED pancakeVars

AnswerNext ==
  \/ Translate \/ Refuse \/ CountHits \/ MakeSearchResponse \/ Answered
  \/ \E i \in DOMAIN pancakes : Query(i)
  \/ \E d \in NewDocs : Arrive(d)

AnswerSpec == AnswerInit /\ [][AnswerNext]_pancakeVars

-----------------------------------------------------------------------------
\* The documents of a bucket, as indices of a table; the value of the metric
\* at a path below a bucket, through filters.
RECURSIVE RefMetric(_, _, _, _)
RefMetric(by, aggs, table, ds) ==
  LET a == CHOOSE a \in ToSet(aggs) : a.name = by[1]
  IN  IF Len(by) = 1 THEN Result(a.kind, StateOf(table, ds, a.field))
      ELSE RefMetric(Tail(by), a.aggs, table, {d \in ds : Matches(table[d], ToSet(a.filters))})

\* The keys of a bucket aggregation that are answered, in their order.
RefKeys(a, table, ds) ==
  LET In(k) == {d \in ds : KeyOf(a, table[d]) = k}
      keys == {KeyOf(a, table[d]) : d \in ds} \ {Null}
      OrderOf(k) == IF a.order.by = <<"_count">> THEN Cardinality(In(k))
                    ELSE IF a.order.by = <<"_key">> THEN k
                    ELSE RefMetric(a.order.by, a.aggs, table, In(k))
      Comes(k, l) ==
        \/ Before(OrderOf(k), OrderOf(l), a.order.desc)
        \/ OrderOf(k) = OrderOf(l) /\ k < l
      sorted == SetToSortSeq(keys, Comes)
      span == IF keys = {} THEN <<>>
              ELSE [n \in 1..(Max(keys) - Min(keys) + 1) |-> Min(keys) + n - 1]
  IN  CASE a.kind = "terms" /\ a.size # 0 /\ Len(sorted) > a.size -> SubSeq(sorted, 1, a.size)
        [] a.kind # "terms" /\ a.min = 0 -> span
        [] a.kind = "date_histogram" ->
             SelectSeq(sorted, LAMBDA k : Cardinality(In(k)) >= a.min)
        [] OTHER -> sorted

RECURSIVE Reference(_, _, _)
Reference(aggs, table, ds) ==
  LET Below(a, of) == [Reference(a.aggs, table, of) EXCEPT !.doc_count = Cardinality(of)]
      Filtered(a, fs) == Below(a, {d \in ds : Matches(table[d], fs)})
      Buckets(a) ==
        [i \in DOMAIN RefKeys(a, table, ds) |->
           LET k == RefKeys(a, table, ds)[i]
           IN  [Below(a, {d \in ds : KeyOf(a, table[d]) = k}) EXCEPT !.key = k]]
      Listed(a) == FoldLeft(LAMBDA n, b : n + b.doc_count, 0, Buckets(a))
      Of(a) ==
        CASE IsMetric(a) -> [Node EXCEPT !.value = Result(a.kind, StateOf(table, ds, a.field))]
          [] a.kind = "filter" -> Filtered(a, ToSet(a.filters))
          [] a.kind = "filters" ->
               [Node EXCEPT !.aggs = [n \in {g.name : g \in ToSet(a.filters)} |->
                  Filtered(a, {g \in ToSet(a.filters) : g.name = n})]]
          [] HasGroupBy(a) ->
               [Node EXCEPT !.buckets = Buckets(a),
                  !.other = IF a.kind = "terms" /\ Buckets(a) # <<>>
                            THEN Cardinality(ds) - Listed(a) ELSE Null]
  IN  [Node EXCEPT !.aggs = [n \in {a.name : a \in ToSet(aggs)} |->
                               Of(CHOOSE a \in ToSet(aggs) : a.name = n)]]

-----------------------------------------------------------------------------
\* All queries of the search have read the same table.
SameTable == \A i, j \in DOMAIN read : read[i] = read[j]

WithAggregations == stage = "answered" /\ pancakes # <<>>

\* However the tree was cut into queries, whatever they ranked, limited and
\* grouped, and in whichever order they ran: the merged answer is that of the
\* documents, if all of them saw the same ones.
AnswerIsReference ==
  WithAggregations /\ SameTable
    => answer = Reference(asked.aggs, read[1], DOMAIN read[1])

\* The number of hits is that of the documents the first query saw, although
\* it is counted by one of the aggregations' queries.
TotalCountsEveryDocument ==
  WithAggregations /\ asked.count => total = Len(read[1])

\* pancake_sql_query_generation.go: "process combinators, e.g. filter, filters,
\* range and dataRange: this change selects by adding -If suffix": the filters
\* at the top count the documents that match them.
FiltersApply ==
  WithAggregations /\ SameTable =>
    \A a \in ToSet(asked.aggs) : a.kind = "filters" =>
      \A g \in ToSet(a.filters) :
        answer.aggs[a.name].aggs[g.name].doc_count =
          Cardinality({d \in DOMAIN read[1] : Matches(read[1][d], {g})})
=============================================================================
