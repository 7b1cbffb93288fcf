--------------------------- MODULE QueryOptimizer ---------------------------
(***************************************************************************)
(* The optimizers between the transformed queries and the database           *)
(* (optimize/): the materialized view that may stand for a table, which is   *)
(* only used where it is configured, and the split of a time range, which is *)
(* used unless it is disabled.                                               *)
(***************************************************************************)
EXTENDS SchemaTransformer

-----------------------------------------------------------------------------
\* The view has the rows of the table that satisfy a condition.

Connectives(x) == {n \in Nodes(x) : n.e = "not" \/ (n.e = "infix" /\ n.op = "OR")}
Conjunctions(x) == {n \in Nodes(x) : n.e = "infix" /\ n.op = "AND"}

\* Any conjunction counts as one that has the condition.
Traversed(rule, where) ==
  IF Connectives(where) # {} \/ Conjunctions(where) = {} THEN None
  ELSE Replace(where, rule :> TrueExpr)

MaterializedViewReplace(layout, query) ==
  LET where == query.select.where
      new == IF where = layout.view THEN TrueExpr ELSE Traversed(layout.view, where)
  IN  IF layout.view = None \/ query.select.from # "table" \/ new = None THEN query
      ELSE [query EXCEPT !.select.from = "view", !.select.where = new]

-----------------------------------------------------------------------------
\* A search for the latest rows of a time range looks at the last minutes
\* first.
QuarterOfAnHour == 15 * 60

Instants == {"fromUnixTimestamp64Milli", "fromUnixTimestamp"}

\* The limits on a column, those of a negation included.
RECURSIVE LimitsOn(_, _, _)
LimitsOn(x, column, ops) ==
  CASE x.e = "not" -> LimitsOn(x.arg, column, ops)
    [] x.e = "infix" /\ x.left = column ->
         IF x.op \in ops /\ x.right.e = "fn" /\ x.right.f \in Instants THEN <<x.right>> ELSE <<>>
    [] x.e = "infix" /\ x.op = "AND" ->
         LimitsOn(x.left, column, ops) \o LimitsOn(x.right, column, ops)
    [] OTHER -> <<>>

PlainColumn(x) == \A n \in Nodes(x) : n.e \in {"col", "lit", "fn"}

\* The queries the union is made of are kept by their conditions.
SplitTimeRange(query) ==
  LET select == query.select
      column == select.order[1].by
      Limits(ops) == LimitsOn(select.where, column, ops)
      lower == Last(Limits({">", ">="}))
      upper == Last(Limits({"<", "<="}))
      Instant(x) == x.args[1].value.num
      quarter == IF upper.f = "fromUnixTimestamp64Milli" THEN QuarterOfAnHour * 1000
                 ELSE QuarterOfAnHour
      point == Instant(upper) - quarter
      split == Fn(upper.f, <<Lit(Num(point))>>)
      Part(op) == Infix(Infix(column, op, split), "AND", select.where)
  IN  IF /\ select.limit # 0 /\ select.sample = 0
         /\ \A c \in ToSet(select.columns) : PlainColumn(c.is)
         /\ Len(select.order) = 1
         /\ column.e = "col" /\ select.order[1].desc
         /\ Limits({">", ">="}) # <<>> /\ Limits({"<", "<="}) # <<>>
         /\ point \in Instant(lower)..Instant(upper)
      THEN [query EXCEPT !.select.parts = <<Part(">"), Part("<=")>>]
      ELSE query

\* Neither is asked of a plan without queries.
Optimize(layout, query) ==
  LET viewed == MaterializedViewReplace(layout, query)
  IN  IF layout.split THEN SplitTimeRange(viewed) ELSE viewed
=============================================================================
