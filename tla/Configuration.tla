---------------------------- MODULE Configuration ----------------------------
(***************************************************************************)
(* What a configuration file means: quesma/config (config_v2.go,           *)
(* config.go, index_config.go).                                            *)
(*                                                                         *)
(* A file lists connectors, processors and pipelines that refer to each    *)
(* other by name.  It is validated, rewritten into the settings the rest   *)
(* of Quesma reads, and these are validated again.  Any complaint ends the *)
(* program before it listens, and so does a panic: both mean that the file *)
(* is not accepted.                                                        *)
(*                                                                         *)
(*   file      [pipelines, frontends, backends, processors: sequences]     *)
(*   pipeline  [name, frontends, processors, backends: sequences of names] *)
(*   frontend  [name, type, port, noAuth]                                  *)
(*   backend   [name, type, url: is there one]                             *)
(*   processor [name, type, common, indexes: name -> index]                *)
(*   index     [listed: has it a list of targets, target, common, table,   *)
(*              overrides: "none", "valid" or "invalid"]                   *)
(*   target    [name, plain: is it just the name, common, table]           *)
(***************************************************************************)
EXTENDS DecisionRules

QueryFrontend  == "elasticsearch-fe-query"
IngestFrontend == "elasticsearch-fe-ingest"
NoOp           == "quesma-v1-processor-noop"
QueryType      == "quesma-v1-processor-query"
IngestType     == "quesma-v1-processor-ingest"
Elasticsearch  == "elasticsearch"
DatabaseTypes      == {"clickhouse", "clickhouse-os", "hydrolix"}
Wildcard       == "*"

\* Names that are patterns: not allowed for the configuration of an index.
CONSTANT PatternNames

\* The lists of a file are sequences, its switches are on or off.
IsList(list) == list \in Seq(Range(list))

IsFile(file) ==
  /\ IsList(file.pipelines) /\ IsList(file.processors) /\ IsList(file.backends)
  /\ \A p \in Range(file.pipelines) : IsList(p.processors)
  /\ \A r \in Range(file.processors) :
       /\ DOMAIN r = {"name", "type", "common", "indexes"} /\ r.common \in BOOLEAN
       /\ \A i \in DOMAIN r.indexes : r.indexes[i].common \in BOOLEAN /\ IsList(r.indexes[i].target)

Names(list) == {list[k].name : k \in DOMAIN list}

Named(list, name) ==
  list[CHOOSE k \in DOMAIN list :
         list[k].name = name /\ \A j \in 1 .. k - 1 : list[j].name # name]

TypesOf(file, backends) == {Named(file.backends, b).type : b \in Range(backends)}

-----------------------------------------------------------------------------
(* Validate                                                                *)

PipelineIsValid(file, p) ==
  /\ p.name # ""
  /\ Len(p.frontends) = 1 /\ Range(p.frontends) \subseteq Names(file.frontends)
  /\ Len(p.backends) \in {1, 2} /\ Range(p.backends) \subseteq Names(file.backends)
  /\ Len(p.processors) = 1 /\ Range(p.processors) \subseteq Names(file.processors)
  /\ CASE Named(file.processors, p.processors[1]).type = NoOp ->
            Len(p.backends) = 1 /\ TypesOf(file, p.backends) = {Elasticsearch}
       [] Named(file.processors, p.processors[1]).type \in {QueryType, IngestType} ->
            Elasticsearch \in TypesOf(file, p.backends)
       [] OTHER -> TRUE

FrontendsAreValid(file) ==
  /\ \A k \in DOMAIN file.frontends : /\ file.frontends[k].name # ""
                                      /\ file.frontends[k].type \in {QueryFrontend, IngestFrontend}
  /\ Len(file.frontends) \in {1, 2}
  /\ Cardinality({file.frontends[k].port : k \in DOMAIN file.frontends}) = 1

BackendsAreValid(file) ==
  /\ \A b \in Range(file.backends) : b.name # "" /\ b.type \in {Elasticsearch} \union DatabaseTypes
  /\ \A types \in {{Elasticsearch}, DatabaseTypes}, j, k \in DOMAIN file.backends :
       file.backends[j].type \in types /\ file.backends[k].type \in types => j = k

ProcessorIsValid(file, r) ==
  /\ r.name # "" /\ r.type \in {NoOp, QueryType, IngestType}
  /\ r.type # NoOp =>
       \A i \in DOMAIN r.indexes :
         /\ i \notin PatternNames \ {Wildcard}
         /\ Len(r.indexes[i].target) <= 2
         /\ Names(r.indexes[i].target) \subseteq Names(file.backends)

FrontendOf(file, p)  == Named(file.frontends, p.frontends[1])
ProcessorOf(file, p) == Named(file.processors, p.processors[1])

\* The pipeline whose frontend is of this type.
PipelineFor(file, type) ==
  CHOOSE p \in Range(file.pipelines) : FrontendOf(file, p).type = type

\* One pipeline can only query.
SinglePipelineIsValid(file) ==
  LET p == file.pipelines[1]
      r == ProcessorOf(file, p)
  IN  /\ FrontendOf(file, p).type = QueryFrontend
      /\ CASE r.type = NoOp -> TypesOf(file, p.backends) = {Elasticsearch}
           [] r.type = QueryType ->
                /\ Len(p.backends) = 2 /\ Elasticsearch \in TypesOf(file, p.backends)
                /\ TypesOf(file, p.backends) \intersect DatabaseTypes # {}
                /\ Wildcard \in DOMAIN r.indexes
           [] OTHER -> FALSE

\* One pipeline queries and the other one ingests; an index that is configured
\* in both processors has the same settings, apart from its targets.
TwoPipelinesAreValid(file) ==
  /\ {FrontendOf(file, p).type : p \in Range(file.pipelines)} = {QueryFrontend, IngestFrontend}
  /\ LET query  == ProcessorOf(file, PipelineFor(file, QueryFrontend))
         ingest == ProcessorOf(file, PipelineFor(file, IngestFrontend))
     IN  /\ ingest.type \in {IngestType, NoOp} /\ query.type \in {QueryType, NoOp}
         /\ (query.type = NoOp) = (ingest.type = NoOp)
         /\ query.common = ingest.common
         /\ query.type # NoOp =>
              /\ Wildcard \in DOMAIN query.indexes \intersect DOMAIN ingest.indexes
              /\ \A i \in DOMAIN query.indexes \intersect DOMAIN ingest.indexes :
                   LET q == query.indexes[i]
                       n == ingest.indexes[i]
                   IN  q.table = n.table /\ q.common = n.common /\ q.overrides = n.overrides

Valid(file) ==
  /\ FrontendsAreValid(file) /\ BackendsAreValid(file)
  /\ \A r \in Range(file.processors) : ProcessorIsValid(file, r)
  /\ Len(file.pipelines) \in {1, 2}
  /\ \A p \in Range(file.pipelines) : PipelineIsValid(file, p)
  /\ IF Len(file.pipelines) = 1 THEN SinglePipelineIsValid(file) ELSE TwoPipelinesAreValid(file)

-----------------------------------------------------------------------------
(* TranslateToLegacyConfig                                                 *)

TargetType(file, name) ==
  IF Named(file.backends, name).type = Elasticsearch THEN "elasticsearch" ELSE "clickhouse"

\* The types of the targets, in their order and once each: there are only two.
Targets(file, index) ==
  LET type(k) == TargetType(file, index.target[k].name)
      others  == {type(k) : k \in DOMAIN index.target} \ {type(1)}
  IN  IF index.target = <<>> THEN <<>>
      ELSE IF others = {} THEN <<type(1)>>
      ELSE <<type(1), CHOOSE other \in others : TRUE>>

\* Every target sets whether the common table is used, by its own attribute or
\* else as its processor says: the last one stays.
Common(index, processor, yes, before) ==
  IF index.target = <<>> THEN before
  ELSE LET own == Last(index.target).common
       IN  IF own = "unset" THEN processor.common ELSE own = yes

\* The last target with a table sets the table.
Table(index, before) ==
  LET set == {k \in DOMAIN index.target : index.target[k].table # ""}
  IN  IF set = {} THEN before
      ELSE index.target[CHOOSE k \in set : \A j \in set : j <= k].table

\* The attribute useCommonTable is compared with the text "true", or with the
\* value true, in different places.
Text  == "'true'"
Value == "true"

\* An index with its settings, before the targets of a pipeline are looked at.
Base(index, query, ingest) ==
  [query |-> query, ingest |-> ingest, common |-> index.common, table |-> index.table]

FromQuery(file, r, yes, ingest, i) ==
  LET index == r.indexes[i]
  IN  [Base(index, Targets(file, index), ingest) EXCEPT
         !.common = Common(index, r, yes, @), !.table = Table(index, @)]

\* Mutant: the targets of the wildcard are not reset.
FromIngestAdding(file, r, before, i) ==
  LET index == r.indexes[i]
  IN  [before EXCEPT !.ingest = @ \o Targets(file, index),
                     !.common = Common(index, r, Value, @), !.table = Table(index, @)]

FromIngest(file, r, before, i) ==
  LET index == r.indexes[i]
  IN  [before EXCEPT !.ingest = Targets(file, index),
                     !.common = Common(index, r, Value, @), !.table = Table(index, @)]

\* An index that has no table of its own has one of its name.
WithTableNames(indexes) ==
  [i \in DOMAIN indexes |-> [indexes[i] EXCEPT !.table = IF @ = "" THEN i ELSE @]]

\* What the rest of Quesma reads: the record of DecisionRules and more.
Settings(indexes, defaults, commonForWildcard, ingests, file) ==
  [transparent |-> FALSE, indexes |-> WithTableNames(indexes), defaults |-> defaults,
   commonForWildcard |-> commonForWildcard, ingests |-> ingests,
   createCommon |-> commonForWildcard \/ \E i \in DOMAIN indexes : indexes[i].common,
   autodiscovery |-> "clickhouse" \in Range(defaults["query"]),
   noAuth |-> \E k \in DOMAIN file.frontends : file.frontends[k].noAuth]

NoIndexes == [i \in {} |-> i]

Transparent(file) ==
  [Settings(NoIndexes, [p \in {"query", "ingest"} |-> <<>>], FALSE, FALSE, file)
     EXCEPT !.transparent = TRUE]

SingleSettings(file) ==
  LET r == ProcessorOf(file, file.pipelines[1])
      all == r.indexes[Wildcard]
      defaults == [p \in {"query", "ingest"} |-> IF p = "query" THEN Targets(file, all) ELSE <<>>]
  IN  Settings([i \in DOMAIN r.indexes \ {Wildcard} |-> FromQuery(file, r, Text, <<>>, i)],
               defaults, all.common \/ Common(all, r, Text, FALSE), FALSE, file)

DualSettings(file) ==
  LET query    == ProcessorOf(file, PipelineFor(file, QueryFrontend))
      ingest   == ProcessorOf(file, PipelineFor(file, IngestFrontend))
      all(r)   == r.indexes[Wildcard]
      own(r)   == DOMAIN r.indexes \ {Wildcard}
      defaults == [p \in {"query", "ingest"} |->
                     Targets(file, all(IF p = "query" THEN query ELSE ingest))]
      common   == Common(all(ingest), ingest, Text,
                         all(query).common \/ Common(all(query), query, Text, FALSE))
      asked    == [i \in own(query) |-> FromQuery(file, query, Value, defaults["ingest"], i)]
      before(i) == IF i \in own(query) THEN asked[i]
                   ELSE Base(ingest.indexes[i], defaults["query"], <<>>)
  IN  Settings([i \in own(query) \union own(ingest) |->
                  IF i \in own(ingest) THEN FromIngest(file, ingest, before(i), i) ELSE asked[i]],
               defaults, all(ingest).common \/ common, TRUE, file)

\* The wildcard's first target has to be a plain name, or the list omitted;
\* queries of it have one target; its schema cannot be overridden.
WildcardIsSupported(file, r) ==
  LET all == r.indexes[Wildcard]
  IN  /\ all.overrides = "none"
      /\ all.listed => all.target # <<>> /\ Head(all.target).plain
      /\ r.type = QueryType => Len(Targets(file, all)) <= 1

UsedProcessors(file) == {ProcessorOf(file, p) : p \in Range(file.pipelines)}
Passes(file)         == \E r \in UsedProcessors(file) : r.type = NoOp

Translatable(file) ==
  /\ Elasticsearch \in {b.type : b \in Range(file.backends)}
  /\ ~Passes(file) => /\ \E b \in Range(file.backends) : b.type \in DatabaseTypes
                      /\ \A r \in UsedProcessors(file) : WildcardIsSupported(file, r)

TranslateToLegacyConfig(file) ==
  IF Passes(file) THEN Transparent(file)
  ELSE IF Len(file.pipelines) = 1 THEN SingleSettings(file) ELSE DualSettings(file)

\* QuesmaConfiguration.Validate, of what the translation has left to check.
SettingsAreValid(file, settings) ==
  /\ file.frontends[1].port # 0
  /\ \A b \in Range(file.backends) :
       b.type = Elasticsearch \/ ~settings.transparent => b.url
  /\ DOMAIN settings.indexes \intersect PatternNames = {}
  /\ ~settings.transparent =>
       \A r \in UsedProcessors(file) : \A i \in DOMAIN r.indexes :
         r.indexes[i].overrides # "invalid"

IsAccepted(file) ==
  Valid(file) /\ Translatable(file) /\ SettingsAreValid(file, TranslateToLegacyConfig(file))
=============================================================================
