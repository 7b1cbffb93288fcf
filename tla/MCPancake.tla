----------------------------- MODULE MCPancake -----------------------------
(***************************************************************************)
(* Requests and tables for TLC.  A document has two keys, a time and a      *)
(* value; the times 9 and 11 are in another order as numbers than as text.  *)
(***************************************************************************)
EXTENDS PancakeAnswer

Ascending == [by |-> <<"_key">>, desc |-> FALSE]
ByCount   == [by |-> <<"_count">>, desc |-> TRUE]
By(path)  == [by |-> path, desc |-> TRUE]

Blank == [name |-> "", kind |-> "", field |-> Null, missing |-> Null, size |-> 0,
          order |-> Ascending, min |-> 0, filters |-> <<>>, aggs |-> <<>>]

Measure(name, kind, field) == [Blank EXCEPT !.name = name, !.kind = kind, !.field = field]

Terms(name, field, size, order, aggs) ==
  [Blank EXCEPT !.name = name, !.kind = "terms", !.field = field, !.size = size,
     !.order = order, !.aggs = aggs]

Times(name, kind, min, aggs) ==
  [Blank EXCEPT !.name = name, !.kind = kind, !.field = "t", !.min = min, !.aggs = aggs]

Is(name, field, value) == [name |-> name, field |-> field, value |-> value]

Filtering(name, kind, filters, aggs) ==
  [Blank EXCEPT !.name = name, !.kind = kind, !.filters = filters, !.aggs = aggs]

Request(aggs, count) == [aggs |-> aggs, count |-> count]

Sum == Measure("s", "sum", "v")
First == Is("one", "k", 1)
Second == Is("two", "k", 2)
Heavy == Is("heavy", "m", 1)

\* Requests that are answered as the documents say, or refused.
Answerable ==
  { \* the largest bucket only, and all documents counted beside it
    Request(<<Terms("a", "k", 1, ByCount, <<Sum>>)>>, TRUE),
    \* two levels, ordered by a metric and by the count
    Request(<<Terms("a", "k", 2, By(<<"s">>),
                <<Sum, Terms("x", "m", 1, ByCount, <<Measure("w", "max", "v")>>)>>)>>, FALSE),
    \* two queries, merged below the buckets of the first level
    Request(<<Terms("a", "k", 2, ByCount,
                <<Times("h", "histogram", 1, <<Measure("w", "avg", "v")>>),
                  Terms("x", "m", 2, ByCount, <<>>)>>)>>, TRUE),
    \* gaps between the buckets, and sub-buckets in two of them only
    Request(<<Times("a", "date_histogram", 0, <<Terms("x", "m", 1, ByCount, <<>>)>>)>>, FALSE),
    \* a query for each filter
    Request(<<Filtering("a", "filters", <<First, Second>>,
                <<Terms("x", "m", 1, ByCount, <<Sum>>)>>)>>, FALSE),
    \* filters in one query, one of them as a metric
    Request(<<Filtering("a", "filter", <<First>>, <<>>),
              Filtering("b", "filter", <<Heavy>>, <<>>), Sum>>, TRUE),
    \* filters below buckets
    Request(<<Terms("a", "k", 2, ByCount,
                <<Filtering("f", "filters", <<Heavy, Second>>, <<Sum>>)>>)>>, TRUE),
    \* a bucket for those without a key
    Request(<<[Terms("a", "k", 2, Ascending, <<Measure("w", "avg", "v")>>)
                 EXCEPT !.missing = 3]>>, TRUE),
    \* ordered by a metric below a filter
    Request(<<Terms("a", "k", 1, By(<<"f", "s">>),
                <<Filtering("f", "filter", <<Heavy>>, <<Sum>>)>>)>>, FALSE),
    \* refused: the second query does not have the metric
    Request(<<Terms("a", "k", 2, By(<<"s">>),
                <<Times("h", "histogram", 1, <<>>), Sum, Terms("x", "m", 2, ByCount, <<>>)>>)>>,
            TRUE) }

\* Filters with nothing beside them and no bucket below.
BareFilters ==
  { Request(<<Filtering("a", "filters", <<First, Second>>, <<Sum>>)>>, FALSE),
    Request(<<Filtering("a", "filters", <<First>>, <<Sum>>)>>, FALSE),
    Request(<<Filtering("a", "filters", <<First, Second>>, <<Sum>>)>>, TRUE) }

Doc(k, m, t, v) == [k |-> k, m |-> m, t |-> t, v |-> v]

Documents ==
  {Doc(1, 1, 9, 2), Doc(1, 2, 11, 5), Doc(2, 1, 11, 4), Doc(2, 2, 9, Null), Doc(Null, 1, 9, 7),
   Doc(3, 2, 9, 4)}

\* Tables: the documents of a bag of at most four.
SomeTables ==
  LET seq == SetToSeq(Documents)
      indices == UNION {[1..n -> DOMAIN seq] : n \in 0..4}
  IN  {[i \in DOMAIN f |-> seq[f[i]]] : f \in {f \in indices :
         \A i \in 1..(Len(f) - 1) : f[i] <= f[i + 1]}}

ThoseThatArrive == {Doc(2, 1, 9, 2), Doc(4, 2, 11, 9)}
=============================================================================
