------------------------------- MODULE Routing -------------------------------
(***************************************************************************)
(* From a configuration and a request to the backends that serve it:       *)
(* quesma/config, v2/core (mux.go, dispatch.go, quesma_builder.go) and     *)
(* frontend_connectors (router_v2.go, matchers.go, dispatcher.go,          *)
(* route_handlers.go).                                                     *)
(*                                                                         *)
(* A path is the sequence of its segments.  What a handler answers is      *)
(* reduced to how it ends, and which backends it asks or writes to.  The   *)
(* middlewares before the router are those of FrontendGate.                *)
(***************************************************************************)
EXTENDS Configuration

CONSTANTS Files,       \* configurations
          SomeRequests,\* file -> [method, path, body: the index it names or ""]
          Patterns,    \* index pattern -> [names, globs]
          AsyncIds,    \* ids given out for async searches
          KibanaNames, \* names of Kibana's own indexes
          CommonTable

ASSUME RoutingAssumption == \A f \in Files : IsFile(f)

VARIABLES
  file,      \* the configuration file
  settings,  \* what it was translated to
  at,        \* "start", "listening", "refused", "routed" or "answered"
  request, handler, decision,
  response   \* [outcome, status, source, asked: <<connectors>>, closed]

routingVars == <<file, settings, at, request, handler, decision, response>>

None       == [kind |-> "none"]
NoDecision == Decision("nil", <<>>, FALSE)
NoResponse == [outcome |-> "none", status |-> 0, source |-> "none",
               asked |-> <<>>, closed |-> FALSE]

RoutingInit ==
  /\ file \in Files /\ settings = Transparent(file) /\ at = "start"
  /\ request = None /\ handler = None /\ decision = NoDecision /\ response = NoResponse

-----------------------------------------------------------------------------
(* The configuration is read.                                              *)

Start ==
  /\ at = "start"
  /\ IF IsAccepted(file)
     THEN at' = "listening" /\ settings' = TranslateToLegacyConfig(file)
     ELSE at' = "refused" /\ UNCHANGED settings
  /\ UNCHANGED <<file, request, handler, decision, response>>

\* No table is known to the resolver before something was ingested.
Rules ==
  [indexes |-> settings.indexes, defaults |-> settings.defaults,
   commonForWildcard |-> settings.commonForWildcard, commonTable |-> CommonTable,
   autodiscovery |-> settings.autodiscovery, virtual |-> {}, internal |-> KibanaNames]

Resolutions(p, pattern) ==
  DecisionsFor(Rules, p, Patterns[pattern], DOMAIN settings.indexes)

-----------------------------------------------------------------------------
(* The routes.                                                             *)

Index == ":index"
Id    == ":id"
Parameters == {Index, Id}

Route(pattern, methods, matcher, kind) ==
  [pattern |-> pattern, methods |-> methods, matcher |-> matcher, kind |-> kind]

Get     == {"GET"}
Post    == {"POST"}
GetPost == {"GET", "POST"}
PostPut == {"POST", "PUT"}
GetPut  == {"GET", "PUT"}

IngestRouter ==
  { Route(<<"_scripts", "painless", "_execute">>, Post, "script", "script"),
    Route(<<"_bulk">>, PostPut, "method", "bulk"),
    Route(<<Index, "_doc">>, Post, "ingest", "doc"),
    Route(<<Index, "_bulk">>, PostPut, "ingest", "bulk") }

SearchRouter ==
  { Route(<<"_cluster", "health">>, Get, "method", "constant"),
    Route(<<Index, "_refresh">>, Post, "query", "constant"),
    Route(<<"_resolve", "index", Index>>, Get, "method", "resolve"),
    Route(<<Index, "_count">>, Get, "query", "count"),
    Route(<<"_search">>, GetPost, "never", "search"),
    Route(<<Index, "_search">>, GetPost, "query", "search"),
    Route(<<Index, "_async_search">>, Post, "query", "search"),
    Route(<<Index, "_msearch">>, GetPost, "query", "msearch"),
    Route(<<"_msearch">>, GetPost, "method", "msearch"),
    Route(<<Index, "_mapping">>, GetPut, "query", "mapping"),
    Route(<<"_async_search", "status", Id>>, Get, "asyncId", "stored"),
    Route(<<"_async_search", Id>>, {"GET", "DELETE"}, "asyncId", "stored"),
    Route(<<Index, "_field_caps">>, GetPost, "query", "fieldCaps"),
    Route(<<Index, "_terms_enum">>, Post, "query", "termsEnum"),
    Route(<<Index, "_eql", "search">>, GetPost, "query", "eql"),
    Route(<<Index>>, GetPut, "query", "mapping"),
    Route(<<Index, "_quesma_table_resolver">>, Get, "method", "constant") }

\* Both frontends listen on one port: each router gets the handlers of both.
Routes == IngestRouter \union SearchRouter

Matches(path, pattern) ==
  /\ Len(path) = Len(pattern)
  /\ \A k \in DOMAIN path : pattern[k] \in Parameters \/ pattern[k] = path[k]

MappingsFor(path) == {r \in Routes : Matches(path, r.pattern)}

\* The mappings are sorted by their patterns, in descending order: where two of
\* them match a path, the one with the literal at the first difference is first.
Precedes(r, q) ==
  \E k \in DOMAIN r.pattern :
    /\ q.pattern[k] \in Parameters /\ r.pattern[k] \notin Parameters
    /\ \A j \in 1 .. k - 1 : r.pattern[j] = q.pattern[j]

\* What a parameter of a pattern stands for in a path; "" without it.
Param(route, path, name) ==
  LET k == {j \in DOMAIN path : route.pattern[j] = name}
  IN  IF k = {} THEN "" ELSE path[CHOOSE j \in k : TRUE]

-----------------------------------------------------------------------------
(* The predicates of the routes: [matched, decision].                      *)

Match(matched, d) == [matched |-> matched, decision |-> d]

\* A predicate without the resolver leaves no decision.
Undecided(matched) == Match(matched, NoDecision)

UsesClickhouse(d) == \E k \in DOMAIN d.connectors : d.connectors[k].kind = "clickhouse"

\* matchAgainstTableResolver
Resolved(p, pattern) == {Match(UsesClickhouse(d), d) : d \in Resolutions(p, pattern)}

\* The decision about the index of a script is only kept if it is used or wrong.
OfScript(index) ==
  {IF m.matched \/ m.decision.kind = "error" THEN m ELSE Undecided(FALSE) :
     m \in Resolved("query", index)}

\* predicateAnd: the method is looked at first, and leaves no decision.
PredicateMatches(route, r) ==
  IF r.method \notin route.methods THEN {Undecided(FALSE)}
  ELSE CASE route.matcher = "method"  -> {Undecided(TRUE)}
         [] route.matcher = "never"   -> {Undecided(FALSE)}
         [] route.matcher = "asyncId" -> {Undecided(Param(route, r.path, Id) \in AsyncIds)}
         [] route.matcher = "script"  -> OfScript(r.body)
         [] OTHER -> Resolved(route.matcher, Param(route, r.path, Index))

\* findHandler: the first mapping whose path and predicate match, or else the
\* decision of the last one whose path does.
Found(r) ==
  LET mappings   == MappingsFor(r.path)
      matched(m) == {d \in PredicateMatches(m, r) : d.matched}
      first == {m \in mappings : /\ matched(m) # {}
                                 /\ \A n \in mappings : Precedes(n, m) => matched(n) = {}}
      last  == {m \in mappings : \A n \in mappings : ~Precedes(m, n)}
  IN  IF first # {}
      THEN UNION {{[handler |-> m, decision |-> d.decision] : d \in matched(m)} : m \in first}
      ELSE IF last = {} THEN {[handler |-> None, decision |-> NoDecision]}
      ELSE UNION {{[handler |-> None, decision |-> d.decision] : d \in PredicateMatches(m, r)} :
                    m \in last}

\* A transparent proxy passes every connection on.
FindHandler ==
  /\ at = "listening"
  /\ \E r \in SomeRequests[file] :
       /\ request' = r
       /\ \E f \in IF settings.transparent THEN {[handler |-> None, decision |-> NoDecision]}
                   ELSE Found(r) :
            handler' = f.handler /\ decision' = f.decision
  /\ at' = "routed" /\ UNCHANGED <<file, settings, response>>

-----------------------------------------------------------------------------
(* The handlers.                                                           *)

\* How each may end.  "missing" (404) and "unparsable" (400 or 500) are results
\* of theirs, "nothing" is a result without a body, the others are errors.
Outcomes(kind) ==
  CASE kind = "constant"              -> {"ok"}
    [] kind = "search"                -> {"ok", "missing", "unparsable", "bad request", "error"}
    [] kind = "msearch"               -> {"ok", "bad request", "error"}
    [] kind \in {"count", "fieldCaps"} -> {"ok", "missing", "error"}
    [] kind = "resolve"               -> {"ok", "nothing", "error"}
    [] kind = "mapping"               -> {"ok", "missing", "bad request"}
    [] kind = "script"                -> {"ok", "unparsable", "error"}
    [] kind = "doc"                   -> {"ok", "unparsable"}
    [] kind = "bulk"                  -> {"ok", "unparsable", "bad request"}
    [] kind = "eql"                   -> {"error"}
    [] OTHER                          -> {"ok", "error"}

\* Dispatch builds a new result of the body, with the status 200 whatever the
\* handler's was; without a body it is an error.  Quesma's own errors with a
\* number below 2000 blame the request.
StatusOf(outcome) ==
  CASE outcome \in {"ok", "missing", "unparsable"} -> 200
    [] outcome = "bad request"                     -> 400
    [] OTHER                                       -> 500

Response(outcome, asked) ==
  [outcome |-> outcome, status |-> StatusOf(outcome), source |-> "Clickhouse",
   asked |-> asked, closed |-> FALSE]

ClosedResponse == [Response("ok", <<>>) EXCEPT !.closed = TRUE]

\* The index a request is about, the entries of a _bulk or _msearch included.
Subject(r) ==
  IF Param(handler, r.path, Index) # "" THEN Param(handler, r.path, Index) ELSE r.body

Asks   == {"search", "count"}
Writes == {"doc", "bulk"}

Answered(r) ==
  /\ response' = r
  /\ at' = "answered" /\ UNCHANGED <<file, settings, request, handler, decision>>

\* HandleSearch asks the database; with a second connector another plan of the
\* search asks it as well (ABTesting).  HandleCount asks the database only.
HandleSearch ==
  /\ at = "routed" /\ handler # None /\ handler.kind \in Asks
  /\ \E outcome \in Outcomes(handler.kind) :
       Answered(Response(outcome,
         IF outcome \notin {"ok", "error"} THEN <<>>
         ELSE IF handler.kind = "search" THEN decision.connectors
         ELSE SelectSeq(decision.connectors, LAMBDA c : c.kind = "clickhouse")))

\* Every query of a _msearch is resolved by itself; Elasticsearch gets it only
\* if it is the only connector.  A closed index is missing, in its place.
MultiSearch ==
  /\ at = "routed" /\ handler # None /\ handler.kind = "msearch"
  /\ \E d \in Resolutions("query", Subject(request)), outcome \in Outcomes("msearch") :
       Answered(IF d.kind = "closed" /\ outcome = "ok" THEN ClosedResponse
                ELSE Response(outcome, IF outcome = "bad request" THEN <<>> ELSE d.connectors))

\* A _doc is a bulk of one entry.  Every entry is resolved by itself.
\* Elasticsearch comes first, and its failure keeps the rest from the database;
\* so do entries for the database where there is no ingestion (BulkWrite).
Write ==
  /\ at = "routed" /\ handler # None /\ handler.kind \in Writes
  /\ \E d \in Resolutions("ingest", Subject(request)), outcome \in Outcomes(handler.kind) :
       LET refused == d.kind = "error" \/ (UsesClickhouse(d) /\ ~settings.ingests)
       IN  CASE outcome = "ok" ->
                  ~refused /\ Answered(IF d.kind = "closed" THEN ClosedResponse
                                       ELSE Response("ok", d.connectors))
             [] outcome = "unparsable" ->
                  \E asked \in IF refused THEN {<<>>}
                               ELSE {<<>>, d.connectors}
                                    \union (IF Elastic \in Range(d.connectors) THEN {<<Elastic>>} ELSE {}) :
                    Answered(Response(outcome, asked))
             [] OTHER -> Answered(Response(outcome, <<>>))

\* The other handlers answer from what Quesma knows (schemas, stored results).
AnswerItself ==
  /\ at = "routed" /\ handler # None
  /\ handler.kind \notin Asks \union Writes \union {"msearch"}
  /\ \E outcome \in Outcomes(handler.kind) : Answered(Response(outcome, <<>>))

\* Elasticsearch answers, or cannot be reached.
FromElastic ==
  \E outcome \in {"ok", "error"} :
    Answered([Response(outcome, <<Elastic>>) EXCEPT !.source = "Elasticsearch"])

\* ElasticFallback, where no handler was found.
ElasticFallback ==
  /\ at = "routed" /\ handler = None
  /\ \/ decision.kind = "nil"    /\ FromElastic
     \/ decision.kind = "error"  /\ Answered(Response("error", <<>>))
     \/ decision.kind = "closed" /\ Answered(ClosedResponse)
     \/ decision.kind = "empty"  /\ Answered([Response("ok", <<>>) EXCEPT !.status = 204])
     \/ /\ decision.kind = "use"
        /\ IF Elastic \in Range(decision.connectors) THEN FromElastic
           ELSE Answered(Response("error", <<>>))

Ended == at \in {"refused", "answered"} /\ UNCHANGED routingVars

RoutingNext ==
  \/ Start \/ FindHandler
  \/ HandleSearch \/ MultiSearch \/ Write \/ AnswerItself \/ ElasticFallback \/ Ended

RoutingSpec == RoutingInit /\ [][RoutingNext]_routingVars

-----------------------------------------------------------------------------
(* What the documentation promises (config-primer.md).                     *)

\* A request is for an operation on an index, which is named in the path or else,
\* where there are many, in the body.
IsFor(r, operation, methods) ==
  /\ r.method \in methods
  /\ r.path = IF r.body = "" THEN <<r.path[1], operation>> ELSE <<operation>>

NamedIn(r) == IF r.body = "" THEN r.path[1] ELSE r.body

\* The pipeline that a request belongs to, if it names an index.
Pipeline(r) ==
  CASE IsFor(r, "_msearch", GetPost)                   -> "query"
    [] IsFor(r, "_search", GetPost) /\ r.body = ""     -> "query"
    [] IsFor(r, "_async_search", Post) /\ r.body = ""  -> "query"
    [] IsFor(r, "_bulk", PostPut)                      -> "ingest"
    [] IsFor(r, "_doc", Post) /\ r.body = ""           -> "ingest"
    [] OTHER                                           -> "none"

ProcessorFor(p) ==
  LET type == IF p = "query" THEN QueryType ELSE IngestType
      used == {r \in UsedProcessors(file) : r.type = type}
  IN  IF used = {} THEN None ELSE CHOOSE r \in used : TRUE

\* The entry for an index, or the one for all others.
Entry(r, i) == r.indexes[IF i \in DOMAIN r.indexes THEN i ELSE Wildcard]

\* A target puts an index into the common table, or its processor does.
SaysCommon(r, t) == t.common # "false" /\ (t.common # "unset" \/ r.common)

\* The connector a target stands for.
Promised(r, i, t) ==
  IF Named(file.backends, t.name).type = Elasticsearch THEN Elastic
  ELSE IF SaysCommon(r, t) THEN Clickhouse(CommonTable, i, TRUE)
  ELSE Clickhouse(IF t.table = "" THEN i ELSE t.table, i, FALSE)

Promise(p, i) ==
  LET r == ProcessorFor(p)
      entry == Entry(r, i)
  IN  IF r = None THEN <<>>
      ELSE [k \in DOMAIN entry.target |-> Promised(r, i, entry.target[k])]

Attributes(p, i) ==
  LET r == ProcessorFor(p)
  IN  {[common |-> SaysCommon(r, t), table |-> t.table] : t \in Range(Entry(r, i).target)}

HasEntry(r, i) == i \in DOMAIN r.indexes \ {Wildcard}

\* The settings of an index agree: both processors say the same of its table, no
\* backend is named twice, and who uses the common table has no other target.
\* The attributes are those of targets on the database, written as the
\* documentation shows them (as a value); without ingestion and for the wildcard,
\* only the processor's setting works.
Agree(i) ==
  LET used == {p \in {"query", "ingest"} : ProcessorFor(p) # None}
  IN  /\ \A p, q \in used : Attributes(p, i) = Attributes(q, i)
      /\ \A p \in used :
           LET r == ProcessorFor(p)
               e == Entry(r, i)
           IN  /\ ~e.common /\ e.table = ""
               /\ \A j, k \in DOMAIN e.target : e.target[j].name = e.target[k].name => j = k
               /\ (\E a \in Attributes(p, i) : a.common) =>
                    Len(Promise(p, i)) = 1 /\ Promise(p, i)[1] # Elastic
               /\ \A t \in Range(e.target) :
                    /\ t.common \in {"unset", "false", Value}
                    /\ t.common # "unset" => HasEntry(r, i) /\ used = {"query", "ingest"}
                    /\ t.table # "" => HasEntry(r, i) /\ TargetType(file, t.name) = "clickhouse"

\* No index has the name of an endpoint, of Kibana or of the common table, and
\* a plain name stands for itself.
IsOrdinary(i) ==
  /\ i \notin ({m.pattern[1] : m \in Routes} \ Parameters) \union KibanaNames \union {CommonTable}
  /\ Patterns[i].names = {i} /\ Patterns[i].globs = {}

\* Whatever the file says, in whatever order, a search or a document for an
\* index goes to no backend but those its pipeline's targets name, in the
\* database to the table they say, and is not answered as done unless all of
\* them had it; of a search, the first target's answer is the one returned.
\* Without targets no backend is asked, and the index is said to be closed.
ServedAsConfigured ==
  at = "answered" /\ ~settings.transparent /\ Pipeline(request) # "none" =>
    LET i == NamedIn(request)
        p == Pipeline(request)
        asked == Range(response.asked)
    IN  IsOrdinary(i) /\ Agree(i) =>
          /\ asked \subseteq Range(Promise(p, i))
          /\ response.outcome = "ok" => /\ asked = Range(Promise(p, i))
                                        /\ response.closed = (Promise(p, i) = <<>>)
          /\ p = "query" /\ asked # {} => response.asked[1] = Promise(p, i)[1]
=============================================================================
