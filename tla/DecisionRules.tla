---------------------------- MODULE DecisionRules ----------------------------
(***************************************************************************)
(* The rules that decide which backends serve an index:                    *)
(* quesma/table_resolver/rules.go.                                         *)
(*                                                                         *)
(* What they look at is a record c:                                        *)
(*   indexes           index -> [query, ingest: targets, common, table]    *)
(*   defaults          pipeline -> targets of the wildcard index           *)
(*   commonForWildcard whether the wildcard uses the common table          *)
(*   autodiscovery     whether tables of ClickHouse count as indexes       *)
(*   virtual           the virtual tables that are known                   *)
(*   commonTable       the name of the common table                        *)
(*   internal          the names of Kibana's own indexes                   *)
(* Errors and reasons are reduced to the kind of decision.                 *)
(***************************************************************************)
EXTENDS Naturals, Sequences, FiniteSets, SequencesExt

Elastic           == [kind |-> "elasticsearch", table |-> "", indexes |-> {}, common |-> FALSE]
Clickhouse(t, i, common) ==
  [kind |-> "clickhouse", table |-> t, indexes |-> {i}, common |-> common]

Decision(kind, connectors, ab) == [kind |-> kind, connectors |-> connectors, ab |-> ab]
Error   == Decision("error", <<>>, FALSE)
Closed  == Decision("closed", <<>>, FALSE)
Empty   == Decision("empty", <<>>, FALSE)

TableName(c, i) == IF i \in DOMAIN c.indexes THEN c.indexes[i].table ELSE i

\* Connectors for the targets of an index, in their order; dual ingestion
\* always names ClickHouse first.
Connectors(targets, clickhouse) ==
  [k \in DOMAIN targets |->
     IF targets[k] = "clickhouse" THEN clickhouse ELSE Elastic]

\* The targets of an index in the pipeline p, "query" or "ingest".
TargetsOf(c, p, i) == c.indexes[i][p]

SingleIndex(c, p, i) ==
  LET targets == TargetsOf(c, p, i)
      ordered == IF p = "ingest" /\ Len(targets) = 2
                 THEN <<"clickhouse", "elasticsearch">> ELSE targets
  IN  Decision("use", Connectors(ordered, Clickhouse(TableName(c, i), i, FALSE)),
               p = "query" /\ Len(targets) = 2)

InCommonTable(c, i) ==
  \/ i \in DOMAIN c.indexes /\ c.indexes[i].common
  \/ c.autodiscovery /\ i \in c.virtual

DefaultWildcard(c, p, i) ==
  LET clickhouse == IF c.commonForWildcard THEN Clickhouse(c.commonTable, i, TRUE)
                    ELSE Clickhouse(TableName(c, i), i, FALSE)
  IN  IF c.defaults[p] = <<>> THEN Closed
      ELSE Decision("use", Connectors(c.defaults[p], clickhouse), FALSE)

\* Kibana's own indexes never leave Elasticsearch, whatever is configured.
IsInternal(c, i) == i \in c.internal

IsDisabledInConfig(c, p, i) == i \in DOMAIN c.indexes /\ TargetsOf(c, p, i) = <<>>

\* The decision ladder: the first rule that applies.
Ladder(c, p, i) ==
  IF IsInternal(c, i) THEN Decision("use", <<Elastic>>, FALSE)
  ELSE IF IsDisabledInConfig(c, p, i) THEN Closed
  ELSE IF i \in DOMAIN c.indexes /\ ~c.indexes[i].common THEN SingleIndex(c, p, i)
  ELSE IF i = c.commonTable THEN Error
  ELSE IF InCommonTable(c, i)
       THEN Decision("use", <<Clickhouse(c.commonTable, i, TRUE)>>, FALSE)
  ELSE DefaultWildcard(c, p, i)

\* mergeUseConnectors, for one connector of each side: the same table, used
\* as the common table by both or in exactly the same way.
Compatible(l, r) ==
  /\ l.kind = r.kind /\ l.table = r.table
  /\ IF l.common THEN r.common ELSE l = r

\* What it adds to the indexes of one connector.
Added(l, connectors) ==
  UNION {connectors[k].indexes : k \in {m \in DOMAIN connectors : Compatible(l, connectors[m])}}

WithIndexesOf(d, e) ==
  [d EXCEPT !.connectors =
     [k \in DOMAIN @ |-> [d.connectors[k] EXCEPT !.indexes = @ \union Added(d.connectors[k], e.connectors)]]]

HasMatch(r, connectors) == \E k \in DOMAIN connectors : Compatible(connectors[k], r)

\* Mutant: decisions with different numbers of connectors are merged.
MergeAnyNumber(d, e) ==
  IF d.kind = "error" \/ \E k \in DOMAIN e.connectors : ~HasMatch(e.connectors[k], d.connectors)
  THEN Error ELSE WithIndexesOf(d, e)

Merge(d, e) ==
  IF \/ d.kind = "error" \/ Len(d.connectors) # Len(e.connectors)
     \/ \E k \in DOMAIN e.connectors : ~HasMatch(e.connectors[k], d.connectors)
  THEN Error ELSE WithIndexesOf(d, e)

\* Closed indexes are discarded, the others merged from the left.
Merged(ds) ==
  LET merged[k \in 0 .. Len(ds)] ==
        IF k = 0 THEN Closed
        ELSE IF ds[k].kind = "closed" THEN merged[k - 1]
        ELSE IF merged[k - 1].kind = "closed" THEN ds[k]
        ELSE Merge(merged[k - 1], ds[k])
  IN  merged[Len(ds)]

\* basicDecisionMerger
MergeDecisions(ds) ==
  IF ds = <<>> THEN Empty
  ELSE IF Len(ds) = 1 THEN ds[1]
  ELSE IF \E d \in Range(ds) : d.kind = "error" \/ d.ab # ds[1].ab THEN Error
  ELSE Merged(ds)

\* A pattern has plain names and wildcards, which stand for the names they
\* match among those known.  Ingestion takes a single name only.
SingleName(pattern) == pattern.globs = {} /\ Cardinality(pattern.names) = 1

\* The indexes a pattern stands for.
Parts(pattern, known) == pattern.names \union (pattern.globs \intersect known)

\* The parts come in the order of Go's maps, that is in any order.
DecisionsFor(c, p, pattern, known) ==
  IF p = "ingest" /\ ~SingleName(pattern) THEN {Error}
  ELSE {MergeDecisions([k \in DOMAIN parts |-> Ladder(c, p, parts[k])]) :
          parts \in SetToSeqs(Parts(pattern, known))}
=============================================================================
