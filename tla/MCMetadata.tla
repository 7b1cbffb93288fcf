------------------------------ MODULE MCMetadata ------------------------------
(***************************************************************************)
(* Table definitions and the two services that follow them, for TLC.  A    *)
(* behaviour has one of the services as the discovery's listener, so that  *)
(* their states need not be multiplied.                                    *)
(***************************************************************************)
EXTENDS SchemaRegistry, TableResolver

CONSTANTS l1, l2

metadataVars == <<discoveryVars, registryVars, resolverVars>>

\* An index of its own and the common table, without and with a new column.
Small == ("logs" :> {"host", "loc::lat"}) @@ ("common" :> {"ts"})
Large == ("logs" :> {"host", "loc::lat", "odd"}) @@ ("common" :> {"ts", "host"})
SmallDatabases == {NoTables, Small, Large}

WrittenTables ==
  ("logs" :> [cols |-> {"host"}, virtual |-> FALSE])
  @@ ("part" :> [cols |-> {"host", "ts"}, virtual |-> TRUE])

ConfiguredTables == {"logs"}
IgnoredColumns   == {<<"logs", "host">>}
OddColumns       == {"odd"}

OneIndex   == {"logs"}
TwoFields  == {"host", "loc"}
Encoding   == ("host" :> "host") @@ ("loc" :> "loc::lat")
Override   == ("logs" :> (("loc" :> [kind |-> "type", type |-> "point"])
                          @@ ("host" :> [kind |-> "ignored", type |-> ""])))
Types      == ("host" :> "keyword") @@ ("loc::lat" :> "float")
              @@ ("ts" :> "date") @@ ("odd" :> "keyword")
Geo        == ("host" :> {}) @@ ("loc" :> {"loc.lat", "loc.lon"})
OneMapping == {"host" :> "text"}

Index(query, ingest, common, table) ==
  [query |-> query, ingest |-> ingest, common |-> common, table |-> table]

IndexConfiguration ==
  ("logs" :> Index(<<"clickhouse", "elasticsearch">>, <<"elasticsearch", "clickhouse">>, FALSE, "logs"))
  @@ ("off" :> Index(<<>>, <<>>, FALSE, "off"))
  @@ ("mine" :> Index(<<"clickhouse">>, <<"clickhouse">>, TRUE, "mine"))

Defaults == ("query" :> <<"elasticsearch", "clickhouse">>) @@ ("ingest" :> <<"clickhouse">>)

Pattern(names, globs) == [names |-> names, globs |-> globs]
SomePatterns ==
  ("o*,mine,part" :> Pattern({"mine", "part"}, {"off", "other"}))
  @@ ("*"         :> Pattern({}, {"logs", "part", "other"}))

KibanaIndexes == {".kibana"}
InElastic     == {{}, {"other"}}

\* Both loops and one event, or one loop and one event more; or a listener.
MetadataInit ==
  /\ Init /\ RegistryInit /\ ResolverInit /\ elastic = {}
  /\ \/ /\ observers = {} /\ ~autodiscovery
        /\ \/ running = Loops /\ events = MaxEvents - 1 /\ db \in {NoTables, Small}
           \/ running = {l1} /\ events = 0 /\ db = NoTables
     \/ /\ observers = {Finder} /\ running = {l1} /\ events = MaxEvents - 1
        /\ db = Small
     \/ /\ observers = {Resolver} /\ running = {l1} /\ events = MaxEvents - 1
        /\ db = Small /\ autodiscovery

MetadataNext ==
  \/ DiscoveryStep /\ UNCHANGED <<registryVars, resolverVars>>
  \/ /\ \E n \in DOMAIN Ingested :
          (Resolver \in observers => Ingested[n].virtual) /\ FindTable(n)
     /\ UNCHANGED <<registryVars, resolverVars>>
  \/ /\ Resolver \notin observers
     /\ ChangeDatabase /\ (db' = Large => observers = {})
     /\ UNCHANGED <<registryVars, resolverVars>>
  \/ /\ observers = {}
     /\ AgeAccess \/ \E r \in Readers \ {Finder, Resolver} : Access(r) \/ Load(r)
     /\ UNCHANGED <<registryVars, resolverVars>>
  \/ RegistryStep /\ UNCHANGED resolverVars
  \/ ResolverStep /\ UNCHANGED registryVars

MetadataSpec == MetadataInit /\ [][MetadataNext]_metadataVars

OthersRest == UNCHANGED <<registryVars, resolverVars>>

\* The goroutine that called TableDefinitions goes on (a behaviour has one).
ReaderGoesOn ==
  \/ \E r \in Readers \ {Finder, Resolver} : Load(r) /\ UNCHANGED <<registryVars, resolverVars>>
  \/ LoadSchemas /\ UNCHANGED resolverVars
  \/ ResolverGoroutine /\ UNCHANGED registryVars

SomeForcedTaken == (\E r \in Readers, l \in Loops : TakeForced(l, r)) /\ OthersRest

\* Goroutines run.  A loop that returns to select finds a waiting reader, its
\* timer having just been started; clocks advance; nobody has to read.
MetadataFairSpec ==
  /\ MetadataSpec
  /\ \A l \in Loops : WF_metadataVars(LoopStep(l) /\ OthersRest)
  /\ SF_metadataVars(SomeForcedTaken)
  /\ WF_metadataVars(ReaderGoesOn)
  /\ WF_metadataVars(AdderStep /\ OthersRest)
  /\ WF_metadataVars(AgeReload /\ OthersRest)

-----------------------------------------------------------------------------
\* Whoever asks for table definitions gets them, also when they are stale and
\* the reload loops are busy, and also when it holds the registry's lock.
ReadersAreServed ==
  \A r \in Readers : reader[r] \in {"forcing", "waiting"} ~> reader[r] = "served"

\* Once nothing changes any more the published map is what ClickHouse and
\* Elasticsearch hold, for good, if definitions are read now and then: no
\* late reload of another loop and no addition to a replaced map survives.
TablesConverge == []<>accessed => <>[](tables = Current)
=============================================================================
