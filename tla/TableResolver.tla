---------------------------- MODULE TableResolver ----------------------------
(***************************************************************************)
(* Which backends serve an index or a pattern of indexes:                  *)
(* quesma/table_resolver (table_resolver.go, DecisionRules) on top of           *)
(* TableDiscovery and the index manager of Elasticsearch                   *)
(* (elasticsearch/index_management.go).                                    *)
(*                                                                         *)
(* The resolver keeps its own lists of tables and indexes, replaced when a *)
(* reload message arrives, and the decisions taken from them.  Errors and  *)
(* reasons are reduced to the kind of decision.                            *)
(***************************************************************************)
EXTENDS TableDiscovery, DecisionRules

CONSTANTS Resolver,        \* the resolver's goroutine, a reader of definitions
          IndexConfig,     \* index -> [query, ingest: targets, common, table]
          DefaultTargets,  \* pipeline -> targets of the wildcard index
          CommonForWildcard,
          Internal,        \* names of Kibana's own indexes
          Patterns,        \* pattern -> [names |-> its plain names,
                           \*             globs |-> the names its wildcards match]
          ElasticIndexes,  \* what Elasticsearch may hold
          MaxDecisions     \* bound on the decisions remembered

Pipelines == {"query", "ingest"}

\* The configuration names a backend once, in any order.
TargetLists ==
  {<<>>, <<"clickhouse">>, <<"elasticsearch">>,
   <<"clickhouse", "elasticsearch">>, <<"elasticsearch", "clickhouse">>}

ASSUME TableResolverAssumption ==
  /\ Resolver \in Readers
  /\ IsFiniteSet(Names) /\ IsFiniteSet(DOMAIN IndexConfig)
  /\ \A e \in ElasticIndexes : IsFiniteSet(e)
  /\ \A x \in DOMAIN Patterns : IsFiniteSet(Patterns[x].names)
  /\ \A i \in DOMAIN IndexConfig : \A p \in Pipelines : IndexConfig[i][p] \in TargetLists
  /\ \A p \in Pipelines : DefaultTargets[p] \in TargetLists

VARIABLES
  elastic,    \* the indexes of Elasticsearch
  sources,    \* what the index manager knows of them
  chIndexes,  \* clickhouseIndexes: name -> is it virtual
  esIndexes,  \* elasticIndexes
  decisions,  \* recentDecisions: pipeline -> pattern -> decision
  resolver    \* the goroutine that refreshes them: control, tables read

resolverVars == <<elastic, sources, chIndexes, esIndexes, decisions, resolver>>

NoDecisions == [p \in Pipelines |-> <<>>]
NoIndexes   == <<>>
Listed(map) == [t \in DOMAIN map |-> map[t].virtual]

\* NewTableResolver refreshes at once, before any table is known.
ResolverInit ==
  /\ elastic \in ElasticIndexes /\ sources = elastic
  /\ chIndexes = NoIndexes /\ esIndexes = elastic
  /\ decisions = NoDecisions
  /\ resolver = [pc |-> "select", ch |-> NoIndexes]

-----------------------------------------------------------------------------
(* Decisions.                                                              *)

\* What the rules look at, at this moment.
Rules ==
  [indexes |-> IndexConfig, defaults |-> DefaultTargets,
   commonForWildcard |-> CommonForWildcard, commonTable |-> CommonTable,
   autodiscovery |-> autodiscovery, internal |-> Internal,
   virtual |-> {i \in DOMAIN chIndexes : chIndexes[i]}]

Known == DOMAIN IndexConfig \union esIndexes
           \union IF autodiscovery THEN DOMAIN chIndexes ELSE {}

Resolutions(p, pattern) == DecisionsFor(Rules, p, Patterns[pattern], Known)

-----------------------------------------------------------------------------
\* Resolve, under the lock: a recent decision is taken again.
Resolve(p, pattern) ==
  /\ Resolver \in observers /\ pattern \notin DOMAIN decisions[p]
  /\ Cardinality(UNION {{q} \X DOMAIN decisions[q] : q \in Pipelines}) < MaxDecisions
  /\ \E d \in Resolutions(p, pattern) :
       decisions' = [decisions EXCEPT ![p] =
                       [q \in DOMAIN @ \union {pattern} |-> IF q = pattern THEN d ELSE @[q]]]
  /\ UNCHANGED <<discoveryVars, elastic, sources, chIndexes, esIndexes, resolver>>

\* Start's goroutine: a reload message, then updateIndexes.
ResolverWakes ==
  /\ Resolver \in observers /\ resolver.pc = "select" /\ messages[Resolver] > 0
  /\ messages' = [messages EXCEPT ![Resolver] = @ - 1]
  /\ resolver' = [resolver EXCEPT !.pc = "tables"]
  /\ UNCHANGED <<externalVars, mapVars, timeVars, loop, reader, settings,
                 adder, elastic, sources, chIndexes, esIndexes, decisions>>

ResolverAccesses ==
  /\ resolver.pc = "tables"
  /\ Access(Resolver)
  /\ UNCHANGED resolverVars

ResolverLoads ==
  /\ Load(Resolver)
  /\ resolver' = [pc |-> "indexes", ch |-> Listed(tables)]
  /\ UNCHANGED <<elastic, sources, chIndexes, esIndexes, decisions>>

\* ReloadIndices keeps the old list when Elasticsearch fails.
ReloadIndices ==
  \/ sources' = elastic /\ UNCHANGED events
  \/ Event /\ UNCHANGED sources

ResolverReloadsIndices ==
  /\ resolver.pc = "indexes"
  /\ ReloadIndices
  /\ resolver' = [resolver EXCEPT !.pc = "update"]
  /\ UNCHANGED <<db, store, mapVars, timeVars, loop, reader, settings,
                 messages, adder, elastic, chIndexes, esIndexes, decisions>>

\* Mutant: the recent decisions outlive the lists they were taken from.
UpdateIndexesOnly ==
  /\ resolver.pc = "update"
  /\ chIndexes' = resolver.ch /\ esIndexes' = sources
  /\ resolver' = [pc |-> "select", ch |-> NoIndexes]
  /\ UNCHANGED <<discoveryVars, elastic, sources, decisions>>

\* The critical section.
UpdateIndexes ==
  /\ resolver.pc = "update"
  /\ chIndexes' = resolver.ch /\ esIndexes' = sources
  /\ decisions' = NoDecisions
  /\ resolver' = [pc |-> "select", ch |-> NoIndexes]
  /\ UNCHANGED <<discoveryVars, elastic, sources>>

\* The index manager reloads every minute on its own.
IndexManagerReloads ==
  /\ Resolver \in observers
  /\ ReloadIndices
  /\ UNCHANGED <<db, store, mapVars, timeVars, loop, reader, settings,
                 messages, adder, elastic, chIndexes, esIndexes, decisions, resolver>>

ChangeElastic ==
  /\ Resolver \in observers
  /\ Event
  /\ elastic' \in ElasticIndexes \ {elastic}
  /\ UNCHANGED <<db, store, mapVars, timeVars, loop, reader, settings,
                 messages, adder, sources, chIndexes, esIndexes, decisions, resolver>>

ResolverGoroutine ==
  \/ ResolverWakes \/ ResolverAccesses \/ ResolverLoads
  \/ ResolverReloadsIndices \/ UpdateIndexes

ResolverStep ==
  \/ \E p \in Pipelines, pattern \in DOMAIN Patterns : Resolve(p, pattern)
  \/ ResolverGoroutine \/ IndexManagerReloads \/ ChangeElastic

\* The resolver among everybody else who reads or changes the definitions.
ResolverNext ==
  \/ /\ DiscoveryNext \/ \E r \in Readers \ {Resolver} : Access(r) \/ Load(r)
     /\ UNCHANGED resolverVars
  \/ ResolverStep

ResolverSpec ==
  Init /\ ResolverInit /\ [][ResolverNext]_<<discoveryVars, resolverVars>>

-----------------------------------------------------------------------------
(* Properties.                                                             *)

TableResolverTypeOK ==
  /\ elastic \in ElasticIndexes /\ sources \in ElasticIndexes
  /\ esIndexes \in ElasticIndexes
  /\ DOMAIN chIndexes \subseteq Names
  /\ resolver.pc \in {"select", "tables", "indexes", "update"}
  /\ \A p \in Pipelines : \A pattern \in DOMAIN decisions[p] :
       decisions[p][pattern].kind \in {"use", "closed", "empty", "error"}

\* Every decision that is handed out follows from the lists of this moment,
\* and the tables listed are the published ones, except while a message about
\* newer ones is waiting, or they have been replaced without any.
DecisionsAreCurrent ==
  /\ \A p \in Pipelines : \A pattern \in DOMAIN decisions[p] :
       decisions[p][pattern] \in Resolutions(p, pattern)
  /\ Resolver \in observers =>
       \/ Listed(tables) = IF resolver.pc = "select" THEN chIndexes ELSE resolver.ch
       \/ messages[Resolver] > 0 \/ resolver.pc = "tables"
       \/ adder.pc = "notify" \/ \E l \in Loops : loop[l].pc = "notify"
       \/ unannounced

\* The order in which Go's maps enumerate the indexes of a pattern changes
\* neither whether it is served, nor by which backends, tables and indexes;
\* and a pattern that is served reads every open index it stands for.  (Every
\* pair of lists is met without decisions, when they have just been replaced.)
DecisionIgnoresOrder ==
  Resolver \in observers /\ decisions = NoDecisions =>
    \A p \in Pipelines : \A pattern \in DOMAIN Patterns :
      \A d \in Resolutions(p, pattern) :
        /\ Resolutions(p, pattern) = {d}
        /\ d.kind = "use" =>
             \A i \in Parts(Patterns[pattern], Known) :
               LET own == Ladder(Rules, p, i)
               IN  own.kind # "closed" =>
                     \A c \in Range(own.connectors) : \E e \in Range(d.connectors) :
                       e.kind = c.kind /\ c.indexes \subseteq e.indexes
=============================================================================
