# Quesma: a formal model

Quesma is a proxy between Elasticsearch clients (Kibana, log shippers) and
ClickHouse. Requests arrive over HTTP, pass a chain of middlewares, and are
either forwarded to Elasticsearch, translated to SQL and executed (search), or
turned into `CREATE TABLE`, `ALTER TABLE` and `INSERT` statements (ingest). It is
one Go process whose parts share state through mutexes, atomics, concurrent maps
and channels, and often through none of these.

This directory holds TLA+ modules for these parts, TLC configurations that check
them on small instances, and proofs, checked by TLAPS, of what matters most for
every instance. Paths below are relative to `src/quesma/`.

Contents: [1 Inventory](#1-inventory), [2 Modules](#2-modules-and-the-code-they-model),
[3 Runs](#3-runs), [4 Fairness](#4-fairness), [5 Proofs](#5-what-is-proved),
[6 Observations](#6-where-the-code-and-what-is-said-of-it-differ),
[7 Limits](#7-what-is-not-modelled), [8 Plan](#8-what-is-left).

## 1. Inventory

### 1.1 The parts, their state, and what makes them correct

**Async search life cycle** (`frontend_connectors/search.go`,
`async_search_storage/in_memory.go`; module `AsyncSearch`).
*State*: for every search a request handler, a worker goroutine, possibly a
second goroutine that waits for a late result, and the channel `doneCh` of
capacity one; shared by all, the stored results and the cancel functions of
running queries, each with the time it was added.
*Operations*: `_search`, `_async_search` (submit, fetch, status, delete), and the
evictor that runs on a timer.
*Hard*: a timer races the result; the worker may send two messages; the late
goroutine assigns the named results of a function that may have returned already;
polls load and then delete; the evictor collects ids and deletes them later.
*Correct when*: all clients hear the same outcome of a search; an error is never
turned into a success; nothing young is evicted and nothing stays for ever; no
goroutine is left blocked; an async request is answered even if ClickHouse is not
answering.

**Query jobs** (`searchWorkerCommon`, `runQueryJobs*` of `search.go`; `QueryJobs`).
*State*: one atomic counter shared by all searches; for each search its jobs, the
channel they report to, and the results by query.
*Hard*: searches add first and compare afterwards; a run gives up at the first
error while jobs are still running; its own cancellation makes jobs fail; panics
in goroutines; numbering by job and numbering by query differ as soon as one
query of the plan is not executed.
*Correct when*: the counter counts, the limit holds, rows and errors are at their
own query, a run returns the cause of a failure and not an echo of its own
cancellation, nobody is left blocked.

**HTTP gate** (`dual_write_proxy_v2.go`, `auth_middleware.go`,
`frontend_connectors/basic_http_frontend_connector.go`; `FrontendGate`).
*State*: the limiter's counter, the cache of accepted `Authorization` headers,
the status code captured by the response writer.
*Hard*: the chain is a loop and not nested calls, so deferred statements of a
middleware run before the next one; load and add are two steps; a header is
cached after Elasticsearch has been asked.
*Correct when*: only accepted requests are handled, a refused request is not
handled as well, a revoked header is forgotten, every request is answered, the
number of clients is limited.

**Ingest processor** (`ingest/processor.go`, `ingest_validator.go`, `parser.go`;
`IngestTables`, `ColumnPromotion`, `IngestContent`).
*State*: the map of `*Table` objects, replaced as a whole by every reload; the
columns of each object, replaced or written in place by ingesting goroutines
without a lock; the tables of ClickHouse; field statistics; encodings of names.
*Operations*: find or create the table, validate every document, find its new
fields, add columns in memory, then execute the statements; reload.
*Hard*: three views of one table (ClickHouse, the published object, the object a
goroutine holds); two reload loops; statements that fail half way and are sent
again by the client; answers that are lost. In a document: names that collide
when they are encoded, values that do not fit the column, columns whose type is
known differently before and after a reload, and attributes for the rest.
*Correct when*: what is acknowledged is stored, and a field is lost for a known
reason only; nothing is inserted twice without a lost answer; everything converges to what
ClickHouse holds; the fields that become columns are the frequent ones.

**Table discovery, schema registry, table resolver**
(`clickhouse/table_discovery.go`, `schema/registry.go`, `table_resolver/`;
`TableDiscovery`, `SchemaRegistry`, `TableResolver`, `DecisionRules`).
*State*: one published map of tables with its age, virtual tables in Elasticsearch,
a request channel for forced reloads; on top of it a cache of schemas, and lists of
tables and indexes with the decisions that were taken from them.
*Hard*: reads of stale definitions wait for a loop of which there are two;
observers are told by goroutines, later; ingestion adds to the map a reload is
about to replace; snapshots are taken outside the lock that guards the decisions;
decisions about several indexes are merged in the order of a Go map.
*Correct when*: readers get definitions; the map converges; a cached schema or
decision is that of the present sources unless somebody is on the way to tell;
the order of merging does not matter.

**Configuration and routing** (`config/`, `frontend_connectors/router_v2.go`,
`dispatcher.go`, `route_handlers.go`, `v2/core/`; `Configuration`, `Routing`).
*State*: handlers in their order, the settings a file is translated into.
*Hard*: a file says things per target, per index, per processor and for `*`, for two
pipelines; the settings keep one value of each; the dispatcher takes the last of
the first handlers that match and falls back to Elasticsearch in several ways.
*Correct when*: a request for an index reaches exactly the backends its pipeline's
targets name.

**Search for documents** (`parsers/elastic_query_dsl/query_parser.go`, `lucene/`,
`painful/`, `frontend_connectors/schema_transformer.go`, `optimize/`,
`model/typical_queries/hits.go`; `QueryExpr`, `LuceneParser`, `QueryParser`,
`Painless`, `SchemaTransformer`, `QueryOptimizer`, `SearchPlan`).
*Hard*: fourteen transformations in a row, each of which sees another form of names
and literals; field names, aliases, columns and attributes; several indexes in one
table; pages that begin after what a hit was *formatted* as; documents that arrive
between the queries.
*Correct when*: the hits are the first of the documents that match, with their
fields; the total counts them; pages neither overlap nor skip.

**Aggregations** (`pancake_*.go`, `model/bucket_aggregations/`; `PancakePlan`,
`PancakeQuery`, `PancakeAnswer`, `Pancake`).
*Hard*: a tree is cut into layers and several queries with window functions, which
run in any order; ranks, limits, gaps, filters in WHERE or in `-If`; answers are
merged by name and key.
*Correct when*: the answer is the one computed bucket by bucket over the documents.

**A/B testing** (`frontend_connectors/search_ab_testing.go`, `ab_testing/`,
`util/jsondiff.go`; `ABTesting`, `ABResults`, `ResponseDiff`).
*State*: two plans and a collector per search; coordinator, sender and collectors
with five bounded queues.
*Hard*: both plans have the client's async id; collectors are replaced while
messages of the old ones are on their way; everyone waits on everyone.
*Correct when*: both plans' answers are compared, each in its place, and the
client gets the main plan's; the sender uses the present collector; what is
reported as different is.

**Bulk write, log shipping, management console, telemetry** (`functionality/bulk/`,
`logger/`, `ui/management_console.go`, `telemetry/`; `BulkWrite`, `LogForwarding`,
`ManagementConsole`, `Telemetry`).
*Hard*: a bulk is split over two backends and put together again by pointers; a
buffer is cut, dropped or kept depending on sizes, time and failures; goroutines
write into channels only they read; samples are reset while they are taken.
*Correct when*: items of a bulk are in place and claim nothing that is not stored;
messages keep their order and are not sent again; the console has exactly the last
requests and compares them; a report says what is true of its window; nobody waits
for ever, except in the circles that are named.

`PROJECT.json` lists the components with their files, and forty hazards of the code
at the lines where they bite.

### 1.2 How the parts interact

```
 client ── HTTP ──> [limiter] ─> [authentication] ─> router ─> handler
                       FrontendGate                   Routing, Configuration
                                                        │    (DecisionRules)
             ┌─────────── search ───────────────────────┤
             v                                          v ingest
     main plan   alternative plan  (ABTesting)        bulk (BulkWrite)
        │              └─> results ─> comparison        │
  executePlan          (ABResults, ResponseDiff)   processInsertQuery
     │   └ doneCh ── worker                          │        │
     │            parse, transform, optimize      *Table map  statements
     │             (SearchPlan, Pancake)             ^        │
     v             runQueryJobs (QueryJobs)          │        v
  AsyncRequestStorage    │                        reload   ClickHouse
   ^       ^             v                           │
 clients  evictor    ClickHouse <────────────────────┘
   AsyncSearch, SearchPromise          TableDiscovery ─> SchemaRegistry
                                                      ─> TableResolver
 everything ─> logs (LogForwarding), console (ManagementConsole), Telemetry
```

The modules meet at narrow places. `AsyncSearch` sees the query jobs as one step
that succeeds, fails or never comes back (`QueriesSucceed`, `QueriesFail`,
`Panic`), and a cancelled context of `AsyncSearch` is `Abandon` in `QueryJobs`.
`IngestTables` leaves open which fields are promoted above the column limit
(`Promotions`), and `ColumnPromotion` says which; it takes names and types as
given, and `IngestContent` says what they are. `SchemaRegistry` and
`TableResolver` extend `TableDiscovery` and see its actions. `Routing` takes
its decisions from `DecisionRules`, as `TableResolver` does, with the settings
`Configuration` derives from a file. `SearchPlan` begins with a decision about the
indexes and ends with hits; `ABTesting` reduces a plan to how it ends.

## 2. Modules and the code they model

| Module | Models | Kind |
|---|---|---|
| `SearchPromise` | what the query runner promises about each search | abstract specification |
| `AsyncSearch` | `executePlan`, the worker, the storage, the evictor, the async endpoints | state machine; implements `SearchPromise` |
| `QueryJobs` | `searchWorkerCommon`, `runQueryJobs`, `...Parallel`, `...Sequence` | state machine |
| `FrontendGate` | limiter, authentication, chain, cache wipe | state machine |
| `IngestTables` | `processInsertQuery`, its statements, the reload | state machine |
| `ColumnPromotion` | `shouldAlterColumns`, the choice in `generateNewColumns` | sequential algorithm |
| `IngestContent` | names, types, validation, attributes and columns of documents; own and common tables | sequential, with reloads and repeats |
| `TableDiscovery` | reload loops, forced reloads, published map, observers | state machine |
| `SchemaRegistry`, `TableResolver` | the two services on top of it | state machines |
| `DecisionRules` | the decision ladder, patterns and merging | operators |
| `Configuration`, `Routing` | files to settings; requests to backends | operators, and the steps of a request |
| `QueryExpr` | SQL expressions, and what the database makes of them (external) | operators |
| `LuceneParser`, `QueryParser`, `Painless` | a search's body to queries; scripts | operators |
| `SchemaTransformer`, `QueryOptimizer` | the chain from parsed to executed queries | operators |
| `SearchPlan` | a search from its indexes to its pages of hits, while documents arrive | steps, with the reference it is compared with |
| `PancakePlan`, `PancakeQuery`, `PancakeAnswer`, `Pancake` | aggregations: tree to queries, rows (external), JSON, the search | operators, and steps with their reference |
| `ABTesting`, `ABResults` | two plans and their collector; the pipeline of results | state machines |
| `ResponseDiff` | what the comparison of two responses finds | operators, and steps with their reference |
| `BulkWrite`, `LogForwarding`, `ManagementConsole`, `Telemetry` | one component each | state machines |
| `MCFrontend`, `MCIngest`, `MCMetadata`, `MCBackground` | the instances TLC checks | composition |
| `MCSearchPlan`, `MCPancake`, `MCRouting` | their searches, requests, tables and files | data |
| `AsyncSearchProofs`, `QueryJobsProofs`, `FrontendProofs`, `IngestTablesProofs`, `MetadataProofs`, `ABResultsProofs`, `ManagementConsoleProofs`, `BackgroundProofs` | | theorems and their proofs |

The MC modules hold several components that share no state, or whose shared state
does not matter to them: a behaviour observes one of them (`focus`) and the others
rest. Interleaving them would multiply their states and show nothing, since no
action of one reads or writes a variable of another.

Definitions whose comment begins with *a mutant* are plausible errors of the
definition they name (a dropped guard, a wrong order, an unbuffered channel).
They are used by no specification; `PROJECT.json` lists for every property one
of them that breaks it, which shows that the property depends on the code.

### 2.1 AsyncSearch

Every step at which another goroutine can intervene is an action: a send, a
receive, a load, a store, a deletion, an assignment to a captured variable.

| Code | Actions |
|---|---|
| `runExecutePlanAsync` and `searchWorker` | `Refuse`, `Admit`, `QueriesSucceed`, `QueriesFail`, `NoHits`, `PostProcess`, `PostProcessFails`, `Respond`, `RespondError`, `Panic` |
| `executePlan`, its `select` | `ReceiveSync`, `ReceiveInTime`, `StoreInTime`, `TimerFires`, `PartialLoad`, `PartialDelete`, `Return` |
| the goroutine after the timer | `LateReceive`, `LateStore`, `LateAssignBody`, `LateAssignErr` |
| `HandlePartialAsyncSearch`, status, delete | `PollMiss`, `PollHit`, `PollDelete`, `Status`, `DeleteAsyncSearch` |
| `tryEvictAsyncRequests` | `EvictorCollect`, `EvictorDelete`, `EvictorCollectContexts`, `EvictorCancel`, `EvictorSleep` |

Two details carry most of the difficulty. `reachedQueriesLimit` reports the error
on `doneCh` itself and returns; the worker goes on with no results and sends a
second message, "no hits" or even a success. A failed `postProcessResults` is
reported without a `return`, so that a second message follows. The channel holds
one message and one is read: the error is read because it is first, and the
worker is not blocked because it is read.

Abstracted: bodies to `pending`, `ok`, `error`; time to one bit per entry, older
than the eviction interval or not; the limit on bytes to the limit on results.
Whether marshalling succeeds is a choice made when a result is stored.
`verdict`, `doomed` and `told` are history variables no action reads, except
that `LateAssign*` take the value just stored from `verdict`, which stands there
for the return value of `storeAsyncSearch`.

`SearchPromise` has three variables: the outcome, decided once; whether clients
can still fetch it; what they were told. `AsyncSearch` implements it with
`outcome <- verdict` and a retention that is "open" while nothing is decided,
"kept" while the result is stored and "gone" otherwise.

### 2.2 QueryJobs

`CountJobs` is the atomic `Add(n)`, `BackOut` the `Add(-n)` of a search that does
not fit, `ReleaseJobs` the deferred one. Between the two a search is `parallel`
and collects. `JobEnds` is a job's goroutine: it ends with rows, an error, a
panic turned into an error by its recovery handler, or, once the context is
cancelled, an error for that reason alone. `Collect` takes results until the first
error. In a sequence a panic is not recovered and ends the worker, which is
where `AsyncSearch.Panic` takes over. `FillHits` and `ReportErrors` translate
from jobs to queries. Rows are represented by the number of the job that
produced them, which is all that `AnswerInPlace` needs.

### 2.3 FrontendGate

`LoadCounter`, `TooManyRequests` and `CountClient` are the limiter up to its
`return`, `UncountClient` the deferred decrement; `AfterLimiter` and `AfterAuth`
are the loop of `ServeHTTP`, which looks at the captured status code (`NextAfter`).
The authentication looks into the cache (`CacheHit`, `CacheMiss`), asks
Elasticsearch (`Accepted`, `NotAccepted`), stores (`StoreHeader`). The wipe visits
the concurrent map one header after another; a header stored while it runs may be
missed. Elasticsearch may stop accepting a header at any time (`Revoke`), and
asking it may fail.

### 2.4 IngestTables, ColumnPromotion, IngestContent

**`IngestTables`.** `heap` holds the columns of every `*Table` object, `published`
is the object in the table map, `table[i]` the pointer of an ingesting goroutine.
The steps of `processInsertQuery` are separate wherever they read or write what
others write: `Begin` (find), `CheckAbsent` and `AddTable`, `Decorate`
(`addOurFieldsToCreateTableQuery` writes into the published map), `Refind`,
`Validate` for each document, then for each document `NothingToAdd` or `Diff`,
`CopyCols`, `AssignCols`, `Filter`, and at last the statements. ClickHouse is
external: `Create` and `Alter` do nothing to what exists, `Insert` takes a whole
batch or nothing. A value of another type than its column's refuses the batch (`Fits`);
a field the table has no column for is dropped and the INSERT succeeds, as
`input_format_skip_unknown_fields` says by default since ClickHouse 22.6: neither the
statement (`processor.go:839`) nor the connection sets it. `SkipUnknownFields` is true
in every run; the proofs hold for either value. Three histories say why a field may be
missing: `dropped` (columns another goroutine took out of the table object an ingester
holds), `abandoned` (columns of statements that failed or found another table), and
`Pending` (columns that statements still to be executed will add). A statement may fail before it is executed (`ExecuteFails`), or be executed
and its answer be lost (`AnswerLost`). The client sends a failed request again or
gives up. `ReadTables` and `Populate` are the two halves of a reload; a failed read
empties the table map (`ReadFails`).

**`ColumnPromotion`.** `CountField` is one iteration of the loop of
`shouldAlterColumns`: count, and restart the statistics when the shared counter is
due, possibly in the middle of a document. `AddedOf` is the loop of
`generateNewColumns` over the positions of the chosen list. The counter is
saturated at the limit, above which its value is never told apart.

**`IngestContent`.** A document is flattened, rewritten and encoded
(`Rewritten`, `FieldToColumnEncoder`), validated against the types memory has
(`ValidAgainst`), and its fields go to columns, new columns or attributes with their
types beside them (`BuildAttrsMap`, `AddInvalidJsonFieldsToAttributes`,
`ConvertNonSchemaFieldsToString`, `Row`). Numbers are known by their magnitude, so
that every bound of an integer type can be told from its neighbours. Names are
sequences of characters, since encoding and collisions are what it is about. What
ClickHouse holds and what it refuses is external (`Holds`, `Wraps`, `RowAccepted`);
a row's unknown fields are dropped here too.
A reload rebuilds what memory knows of a column from its type's name (`ReadBack`),
which is not always what ingestion had written there; it may come at any time
between two attempts.

### 2.5 TableDiscovery, SchemaRegistry, TableResolver

The reload loops are the one of the log manager and the one of the ingest processor.
Time is what the code compares it with: definitions are fresh for a minute, recent up
to fifteen, then stale, and a reader of stale definitions asks a loop for a reload
over an unbuffered channel and waits (`Access`, `TakeForced`, `Answer`). A reload
reads ClickHouse, then Elasticsearch (`ReadTables`, `ReadVirtualTables`), publishes
a new map and tells the observers by a goroutine each (`Publish`, `Notify`); a failed
read publishes an empty map and tells nobody. `FindTable` to `AddTable` are the
ingesting goroutine, which may add to a map that has been replaced.

`SchemaRegistry` builds the schemas of all indexes at once (`Schemas`), from
definitions, configuration, encodings, dynamic configuration and origins of fields,
and keeps them until something invalidates them. `UpdateFieldsOrigins` is the only
change that does not. `TableResolver` keeps copies of the tables' and the indexes'
names, taken at different moments (`ResolverLoads`, `ReloadIndices`,
`UpdateIndexes`), and at most `MaxDecisions` decisions, dropped as a whole when
the lists change. `Ladder` is the list of rules in the order of
`NewTableResolver`, `MergeDecisions` the merger, for every order of the parts.

### 2.6 Configuration and Routing

`Configuration` has a file as a record (section by section) and follows validation
and translation to the settings and their own validation. A complaint or a panic
means that the file is not accepted. `Routing` has the routes in their order, with
their predicates, both routers, the dispatcher's choice (`FindHandler`, from what
`Found` says a request may find), the fallbacks, and for each handler the ways it ends
and the backends it reaches. `ServedAsConfigured` compares that with what
`config-primer.md` says of a file (`Promise`): the documentation's reading knows no
settings, routes or decisions. It speaks of indexes whose two processors agree about
their table (`Agree`), written as the documentation writes them, and of names that
are no endpoint, none of Kibana's and not the common table (`IsOrdinary`); the cases
left out are those of section 6.

### 2.7 Searches for documents

A query in the body is a record for its kind; what it *means* for a document is
`Means`, what its scripts say is `Says`: these are the reference, and know
nothing of SQL. `ParseQuery` makes queries of expressions (`QueryExpr`),
`Transform` is the chain of `schema_transformer.go` in its order, `Optimize` the two
optimizers; `ExecuteQuery` evaluates the result over rows in which a missing value is
NULL or the type's default, with three-valued logic and refusals (external), and
`MakeHits` turns rows into hits. The next page is asked after the sort values of
the last hit. Lucene queries and scripts begin at the pieces of their text, so
that the lexer's choices (blanks, escapes, wildcards, what ends a term) are part of
what is checked; for scripts the generated packrat parser is modelled with its
memo table and its seeds for left recursion.

### 2.8 Aggregations

`PancakePlan` cuts a tree into pancakes; `PancakeQuery` is the SELECT each becomes,
evaluated over a table (groups, window functions, ranks, -If combinators);
`PancakeAnswer` renders rows to JSON and merges the answers of several queries.
In `Pancake` the queries run in any order and documents arrive in between.
`Reference` computes the answer bucket by bucket, with none of that.

### 2.9 A/B testing

In `ABTesting` the main plan runs in the handler and the alternative one in the
background, each on ClickHouse or Elasticsearch, with timers, cancelled contexts and
a client that may disconnect; the storage is the one cell of their shared id.
`ABResults` has coordinator, sender and collectors as goroutines that block on
bounded channels; collectors are numbered in the order of their creation. A
collector's context is cancelled by the coordinator (`stopped`) or by the handler of a
panic in one of its goroutines (`died`), of which the coordinator is not told.
`ResponseDiff` follows the processors and `JsonDifference`. Fields and elements are
steps (`Steps`, `Child`), a path is a sequence of them, and a recursive descent is the
set of paths it comes to (`ComparedAt`, `Descended`): a path is among them when the
code goes on at every prefix of it (`GoesInto`, `Descends`). What is found is collected
over these paths. The reference says where two values differ for somebody who reads
both (`Different`, `OtherKeys`, `Lacks`, `Clash`).

### 2.10 BulkWrite, LogForwarding, ManagementConsole, Telemetry

`BulkWrite` follows an entry's position through the split by decision, the two
backends and the answer. `LogForwarding` numbers messages as they are written; a
message is sent, kept, cut or dropped with the buffer it is in, for every age of the
buffer; failures are reported through the same channel. `ManagementConsole` has the
goroutine that receives what requests push, the one that compares, their channel and
the pages that read under the mutex. `Telemetry` has the spans and the counter
of user agents with their channels, the percentiles from the ring of samples, the
agent's loop and `Stop`, which may collect at the same time.

## 3. Runs

Twelve runs; the six that pass check 25 invariants and 15 action and temporal
properties between them. Deadlock is checked unless stated below.

| Run | Observes | Properties |
|---|---|---|
| `async_search` | one search of any kind, two pollers, a deleting client, the evictor; limit 1, with room or without | `TypeOK`, `ClientsAgree`, `ErrorIsNeverMasked`, `EvictsOnlyOldResults`, `ImplementsPromise`, `AsyncRequestAnswered`, `WorkersEnd`, `StorageDrains` |
| `frontend_paths` | two searches and their jobs, or one with one job; three requests at the gate; a request under a configuration; aggregations; searches for documents | `CounterIsExact`, `CollectedJobsWithinLimit`, `AnswerInPlace`, `ErrorIsGenuine`, `EveryRunReturns`; `AdmissionIsRespected`, `RevocationTakesEffect`, `EveryRequestAnswered`; `ServedAsConfigured`; `AnswerIsReference`; `RowsAreThoseAsked`, `PagesFollowOn` |
| `ingest_failures` | two clients, a reload loop, a failure or a lost answer; promotion; contents | `LossesAreExplained`, `InsertedOncePerAnswer`; `ChosenWereFrequent`; `DocumentsAreKept` |
| `ingest_two_clients` | two clients and two reload loops; promotion | `EveryIngestAnswered`, `MemoryConverges`; `PresentBecomesColumn` |
| `metadata` | two reload loops, an adder and one of: a reader, the registry, the resolver | `ReadersAreServed`, `TablesConverge`; `SchemasAreCurrent`; `DecisionsAreCurrent`, `DecisionIgnoresOrder` |
| `background` | one of: plans, pipeline of results, logs, console, usage, bulk, comparison | `ComparesBoth`, `SenderFollows`, `DifferencesAreFound`, `LogsAreAccountedFor`, `ConsoleRemembers`, `ReportsAreExact`, `BulkAnswersInPlace`, `EverybodyGoesOn` |
| `frontend_hard_limit`, `filters_in_where`, `ingest_race`, `ingest_incomplete`, `ingest_frequent`, `ab_alternative` | *violations*, section 6 | one each |

Their sizes: `ingest_failures` 3.8 million states, `background` 780 thousand,
`metadata` and `frontend_paths` 170 thousand each, `ingest_two_clients` 120
thousand; each takes one to four minutes.

### Why the bounds are enough

* *Async search.* Searches share nothing except the number of stored results,
  which matters only at admission, and the evictor, which treats ids one by one.
  One search with other results that fill the limit or do not (`OtherResults`)
  meets both admissions; all other actors of one search (handler, worker, late
  goroutine, two pollers, evictor) are present. The proofs cover any number.
* *Query jobs.* The smallest interesting sum is two runs that fit alone and not
  together: 2 + 2 > 3. The plan with a skipped query between two others makes the
  numbers of jobs and queries differ. Both paths, and the path from the failed
  attempt to run in parallel into the sequence, are taken.
* *Gate.* Two requests of one user race for the cache; the third has no header. Two
  places are one fewer than the requests.
* *Aggregations.* Tables are bags of up to four of six documents (the last may
  arrive between two queries), requests are ten trees with up to three levels, in
  which each kind of bucket is above, below and beside others, with metrics, sizes
  smaller than the number of keys, orders by count, key and metric, and gaps.
* *Searches.* 374 searches over seven layouts: a table of its own with and without
  attributes and with dates of seconds, one under another name with a renamed
  timestamp, one with a view, a common table asked for by one name, by several
  and by prefix; among them patterns that match nothing and tables that cannot be found.
  Four documents and a late one, up to three pages of two. Scripts have six
  meanings, with blanks and without, and five mistakes.
* *Ingestion.* A table has two fields besides Quesma's own: one that is there
  from the first document and one that is new. A limit of 2 columns makes the second
  compete for promotion, the limit of 9 in the other runs is never reached. In
  `ingest_failures` two clients with a batch each and one failure (of a statement, an
  answer or a reload) meet every reason for which a field is lost, and their
  combinations: a second failure adds none, since what the first leaves behind stays
  until a reload. One client and no reload are enough for `ingest_incomplete`.
  `ingest_two_clients` has no failures, since the conflicts between two clients produce
  refused statements and retries anyway. Statistics restart after three documents,
  and the history `recent` is one window of them.
* *Content.* 21 documents with one field each (every kind of value, sizes at the
  bounds of integer types) and 5 with names that collide, in batches of one or two
  and in two batches, under 17 situations (no table, tables with each type of
  column, overrides, ignored fields, the common table): 15,436 initial states.
* *Metadata.* The database is empty, has two tables, or has more columns in them,
  one of a type Quesma does not know; a table and a virtual one to add, two changes
  or failures. Two loops are what the program has.
* *Routing.* Some 400 files (one index described in 11 ways for queries, 11 for
  ingestion and 2 for its processor, wildcards, a single pipeline, unusual and
  invalid files) times 14 requests, and all routes for a sample of the files.
* *Background.* Channels of one or two, so that each is full and empty; five results
  and two collectors, one of which is replaced; messages that fit, nearly fill and
  exceed the buffer; three requests of which the console remembers two, with one
  that never gets its second answer; three calls, with a pool of two samples that
  wraps; bulks of up to two entries over five kinds of indexes; 1,137 pairs of
  responses (29 × 29 values, 14 × 14 lists of buckets, ignored names, wrapped,
  failed and unreadable responses).

`CHECK_DEADLOCK FALSE` is set where the system may rest: a client is done with its
batches and the reloaders wait (ingest runs), nothing changes any more (metadata),
and all results are taken (background, `ab_alternative`). The other runs check
deadlock: the gate's wipe and the evictor never end, and where searches are over
an action that stutters says so (`Quiet`, `Answered`, `Ended`). Symmetry is not used.

## 4. Fairness

Weak fairness stands for the Go scheduler: a goroutine that can run does. It is
stated per goroutine and not per action in `QueryJobs`, `FrontendGate` and
`IngestTables`, and per group of a goroutine's own steps in `AsyncSearch`, so that
a `select`, an outcome or a branch stays a choice. Beyond that:

* `AsyncSearch`: timers fire, the evictor runs and entries age, since clocks
  run. Nothing makes the database answer: `QueriesSucceed`, `QueriesFail` and
  `Panic` are unfair, except that a query whose context was cancelled returns an
  error. Nothing makes clients submit, poll or delete.
* `QueryJobs`: every job ends, as the driver answers or times out.
* `FrontendGate`: the call to Elasticsearch ends (its HTTP client has a
  timeout), and the ticker of the wipe ticks. Revocations are unfair, and
  `RevocationTakesEffect` assumes that a header is revoked for good.
* `IngestTables`: ingesters proceed; the reloaders read and publish again and
  again; a failed request is retried or given up, the choice being free. `Paced`
  says that each ingester can make one whole attempt between two publications of
  a reload: the reload interval is a minute, an attempt a few statements. Without
  it a reload could hit every attempt at the same place, and no request would ever
  be answered.
* `TableDiscovery`: the steps of each loop, of the adder and of whoever holds
  definitions; the clock that makes definitions old. Strong fairness for a loop
  taking a forced reload: a loop comes back to its `select` again and again with a
  timer that was just started, so a waiting reader is the ready case. Nobody has to
  read, and `TablesConverge` assumes that definitions are read now and then (the
  loops reload only while they are).
* The modules of `background` do a bounded number of things each, so that
  behaviours end; a fair one does not stop while a step is left that a goroutine
  or a timer takes. Databases need not answer, clients need not disconnect or
  poll, nobody has to shut down or flush.

## 5. What is proved

The theorems hold for every value of the constants that satisfies the named
assumptions (`...Assumption`): finite sets of searches, requests, fields and
goroutines, natural limits, capacities of at least one, plans and batches that are
sequences, configured targets that name a backend once (`TranslateToLegacyConfig`
appends a target only if it is not there yet), finite sets of names, files whose lists are sequences and whose switches are
on or off, and values of JSON that are nested to some depth. The code has no others: the
finite sets are what has arrived at any time, the capacities are constants of the
source.

| Module | Theorems |
|---|---|
| `AsyncSearchProofs` | `TypeCorrect`, `ClientsAlwaysAgree`, `ErrorsAreNeverMasked`, `EvictionRespectsAge`, `KeepsPromise` |
| `QueryJobsProofs` | `CounterAlwaysExact`, `CollectedJobsAlwaysWithinLimit`, `AnswersInPlace`, `ErrorsAreGenuine`, `TypesAreKept` |
| `FrontendProofs` | `AdmissionIsAlwaysRespected`, `CounterOnlyCountsLimiter`, `GateTypesAreKept`, `RequestsAreServedAsConfigured` |
| `IngestTablesProofs` | `BatchesInsertedOnce`, `LossesAreAlwaysExplained`, `ChosenAreFrequent` |
| `MetadataProofs` | `SchemasAreAlwaysCurrent`, `DecisionsAreAlwaysCurrent`, `DecisionsIgnoreOrder`, `TablesKeepTheirTypes` |
| `ABResultsProofs` | `SenderAlwaysFollows`, `BothAreCompared`, `DifferencesAreAlwaysFound` |
| `ManagementConsoleProofs` | `ConsoleAlwaysRemembers` |
| `BackgroundProofs` | `BulkAnswersAlwaysInPlace`, `LogsAlwaysAccountedFor`, `ReportsAreAlwaysExact` |

**Async search.** All five follow from one inductive invariant `IInv`. None of the
properties is inductive alone: that clients agree needs that whoever still holds a
result holds *the* result, hence `Control` (who has yet to read `doneCh` and who has
decided the search, so that it is decided at most once), `FirstMessage` (the first
message of a worker that met an error is the error, and it is the one that is read),
`Copies` (the stored result, the shared return values and what was told are all the
verdict), `Evictable` (what the evictor collected was not stored again since, because
a search is stored only as it is decided) and `Held` (the same for what a poller has
loaded). For the refinement of `SearchPromise` every action is invisible, or
decides, forgets or tells (`InvisibleStep`, `DecideStep`, `ForgetStep`, ...).

**Query jobs.** The limit is not inductive: between its `Add` and its decision a
search is not collecting yet but is going to, if the sum it got was within the
maximum. `CInv` therefore bounds the jobs of `Launching`, the searches that collect or
are going to. The last of them to add got a sum that included all the others and is
within the maximum. Sums are cardinalities of sets of (search, job) pairs, so that
the library's facts about finite sets apply. `AnswersInPlace` and `ErrorsAreGenuine`
rest on `RInv`, one invariant `SInv(s)` per search, and on the translation between
the numbers of jobs and of queries being increasing and onto (`JobOfIncreases`,
`JobOfOnto`): a job's rows are its own from its channel to the hits; a job fails
because of a cancelled context only when its run already has its error or was
abandoned, and the collector reads what was sent first. `TypesAreKept` bounds every
channel: no job waits for a search that has gone.

**HTTP gate.** `GInv`: what is cached was accepted, a status code is written only
as the last thing before a middleware returns, and the place of a request tells
whether its header was accepted. `LInv`: the counter is the number of requests
*inside* the limiter. That is exactly why the limit is not one on clients: no request
being handled is counted.

**Configuration and routing.** `RequestsAreServedAsConfigured` holds for every set of
files whose lists are lists (`RoutingAssumption`), requests, patterns and names.
`RoutingInv` remembers what the property needs at the end of a request: the settings
are the translation of an accepted file (`Translated`), and the handler or decision a
request waits with is one it could have found (`RoutedAsFound`). The steps are then
short; the weight is in the data, in four parts.
*From a file to the settings.* A list that names something has a first place for it
(`LeastPlace`, `NamedIsListed`); the targets of an index come out in the file's order,
each once, because a target is appended only if it is not there yet and two targets of
an accepted file differ in type (`TypesDiffer`, `TargetsInOrder`); the table
is one that a target names, if any does (`TableIsOne`), and the common table is used if and only if the targets say so
(`CommonIsSaid`). Whether there is one pipeline (`SinglePipeline`) or a pair (`TwoPipelines`)
decides which processor the entry of an index comes from; that both say the same is
where `Agree` is needed (`AgreementOnEntry`, `AgreementOfBoth`).
*From the settings to a decision.* `SingleIsConfigured` and `DualIsConfigured` say that
the settings of an index are what its entry promises, and `LadderIsPromised` that the
ladder, whichever rung it ends on, decides for the connectors of `Promise`, in their
order. An ordinary name gets one decision and nothing is merged (`OneDecision`).
*From a request to a handler.* `FoundOfIndex` and `FoundOfMany` say which of all routes
a request of a pipeline can find, or what it falls back to; `RequestsOfPipelines`
enumerates the pipeline's requests, and `RoutedAsDecided` joins the two: it has a handler
of the right kind, or a decision that asks for no database.
*From a handler to the answer.* `SearchServes`, `MultiSearchServes`, `WriteServes` and
`FallbackServes`, one for each step that answers; `RoutingNext_Inv` puts them together.

**Ingestion.** `IngestInv` is `Shape` (types of everything that is shared) and for
each goroutine `Placed` (where it is, and with which table object), `InProgress` (the
statements and rows under construction are those of a prefix of its batch) and
`CountsInsertions` (how often the batch was inserted, against the answers that were lost).
`BatchesInsertedOnce` follows for any number of goroutines, reloads and failures:
the INSERT is the last statement, so that every other failure comes before it.
`LossesAreAlwaysExplained` says of any number of goroutines, reloads and failures, and
of either setting of ClickHouse, which fields an INSERT can lose. Its invariant
`LossInv` has two halves. `ColumnsInv`: every column of a table object somebody can
reach, of a copy of one or of what a reload has read is `Backed`, that is, in
ClickHouse, in a statement still to be executed, or abandoned by one that failed;
`Backed` is never lost again, since a failing request leaves its columns in
`abandoned` (`FailColumns`) and one that succeeds has them in ClickHouse
(`ExecuteColumns`). It needs `FirstDocument`: nobody takes the columns out of a new
table object before its `CREATE TABLE` is made of it. `DocumentsInv`: a field of the
document under construction is an attribute, or a column of the object the ingester
holds or of its copy, unless another goroutine has dropped it (`AttributesAre`), and so
is every field of a row (`Accounted`). When the batch is inserted its request has no
other statement left, so that a field which ClickHouse lacks is another request's to
add, or abandoned (`InsertExplained`).

**Promotion of fields.** That what was chosen had been frequent is not inductive
by itself: `StatisticsAreRecent` says which documents the statistics can be of, the
last `counter + 1` and never more than an iteration (`Having`). A document more adds at most one
to both sides (`RememberCounts`, `CountFieldCounts`). `CountedSoFar` is the
invariant of the loop over a document's fields; it has two cases, because the
statistics may have restarted with its first field. The loop is a recursive function
(`CountingExists`, `CountedCounts`, by the least counterexample); that the fields come
in order and each once is `InOrderHasAll`: no two of them have as many before them.

**Schemas and decisions.** `Followed` is the heart of both: whenever the published
map has changed since a service last looked, a message is waiting for it, or some
loop or the adder is in a state in which it is going to send one. `Shape` says which
states these are. A cache that is not the present sources' is therefore one
somebody is about to empty (`SchemasInv`), and no step that changes a source forgets
to announce it, except `UpdateFieldsOrigins`, which the property names. The resolver
is simpler: its decisions are dropped in the step in which its lists change.

**The order of Go's maps.** `DecisionsIgnoreOrder` is about data rather than steps.
What the ladder can say of an index is one of four things (`LadderKinds`): an error,
closed, a decision for the common table or Elasticsearch (`IsJoint`), or one for a
table of its own (`IsOwn`). Two of them merge exactly if both are joint with the same
list of targets (`MergeAlike`); other lists (`MergeUnlike`), a table of its own and a
joint decision (`MergeOwn`), two tables of their own (`MergeOwns`) give an error, from
either side. `MergedFrom(c, p, S, m)` says without any order what merging the open
indexes `S` comes to, `MergeStep` that one index more keeps it so, `MergedInSequence`
that a whole enumeration does (by the least counterexample), and `MergedOnce` that
there is only one such `m`; here the argument needs that the lists of targets of
joint decisions are three at most, two of them of a single target, so that lists which
differ have different lengths or connectors without a match. (Two lists of the same
two targets in a different order would merge into the first of them; only the
wildcard's targets reach the common table in pairs, so that this cannot happen.)
`JoinedCovers` gives the second half of the
property, that every open index is read. The model's parts are finite because the
resolver's tables are among the names (`TablesKeepTheirTypes`: `Maps` for everything
kept by name, `Controls` for the rest, one lemma per group of actions).

**A/B results.** `ResultsInv`: the last control message, or else what the sender
uses, is the newest collector or none (`KeepsNewest`), and a collector is stopped
only after its withdrawal was put into the queue (`WithdrawnBeforeStop`). Then late
messages of old collectors cannot revive one. That the collector followed is still
alive is not promised: one that ended in a panic stays the newest (section 6).

**A/B plans.** `PlansInv`: a report, in the channel (`InChannel`) or with the
collector (`InCollector`), is the only one of its plan; the plan is done, and the
report says how its call ended or, of an async search, that the client was
answered before the call did. As no plan reports twice, two places in the channel
are enough (`AtMostTwo`), whichever plan is first.

**Comparison.** `DifferencesAreAlwaysFound` is about any values of JSON, which are given
by their depth (`Values[n]`: what is a step below one of them is in `Values[n - 1]`).
The values on the way to a path and the paths of a value are recursive functions, which
are shown to exist and to be what they say by the argument with a least number
(`WalkExists`, `AtStep`, `LevelsHave`, `PathsAre`). Then: nothing is compared below what
is ignored (`ComparedCounts`); a difference that counts is at a path that is compared,
or the descent ended at the least prefix that is not, because something was wrong just
above it (`DifferenceIsCompared`); a mismatch is a difference or keys in another order,
which needs that distinct keys are as many as the elements (`KeysAreAsMany`, `KeysDiffer`).
For the console, a path that one answer lacks is one step below a path that both share
(`LackedIsBelowShared`), and the descent comes to every shared path that is not within an
array of arrays (`SharedIsDescended`). `DiffInv` says that what is written and shown is
of the answers compared.

**Management console.** `MemoryInv`: the list and the map hold the same requests,
none twice, and a request becomes complete only in the step that also puts it on
the way to the matcher.

**Bulk.** `BInv`: an entry is either settled (`Settled`: its item is the one of the
backend that had it last, and says "stored" only if that backend has it) or waits
for a backend that is still to be called (`WaitingFor`). That the answer has an item
for *every* entry is where `WithoutEmpty` removes nothing (`NothingEmpty`).

**Logs.** `LogInv`: what the buffer and the channel hold is ascending
(`Ascending`, `Before`), its numbers are at most `written`, disjoint from what was
acknowledged, and together with what was delivered and dropped they are all there
is. The length of a buffer is a recursive function over its messages; that it exists,
and what it is for a tail and for one more message, is proved by induction with a
least natural number (`LeastNatural`, from the library's well-foundedness of the
order of natural numbers), because the library's induction theorems cannot be cited
here. (`IsSum` is such a function for any sequence of numbers; `Length` and `Total`
are two uses of it.)

**Usage.** `UsageInv` adds to the property that the measurement is true of the
durations since the last reset (`Measures`). Reports cannot be true without it, and
its part about the pool is the interesting one (`KeepsLast`): a number of the window
that is not older than the pool is long is at its place modulo the pool's size, whatever
was left by earlier windows. That places do not collide (`PlacesDiffer`) makes the used
part of the pool the last of the window in another order (`PoolIsLast`), so that as
many of both are in any set (`CountSame`). A number at a place of a sorted sequence
has fewer before it than its place says, and no fewer up to it (`SortedPlaces`: no two
indexes have as many before them, hence each place has one; `SortedCounts`): this is
what makes a percentile one, for any percentile below 100 and a pool filled in part.

Only model-checked, and why:

* everything temporal beyond `[]`: the proof system does not treat `ENABLED`, on
  which fairness rests;
* what recursive operators compute: `AnswerIsReference`, `RowsAreThoseAsked`,
  `PagesFollowOn`, `DocumentsAreKept`. Their modules declare operators over trees, which TLAPS'
  arithmetic backend does not accept, and they are statements about data of any
  size.

Nothing else of what the passing runs check as an invariant is left to TLC. The descent
into two answers, the merging
of decisions, the counting of fields and the sums of durations are recursive functions
(`At` and `Paths`, `Merged`, `Counted` and `Total`), about which the least-number argument proves what
is needed; the pool is sorted by `Sorted`, the number at a place being the one with as
many before it; and which settings a file's targets come to is said by quantifiers
over their places (`Targets`, `Table`, `Found`) instead of folds.

## 6. Where the code and what is said of it differ

Six violation runs, described with their quotations in `PROJECT.json`:

* `HardLimit`: "this is hard limit, we should not allow to go over it". Loading
  and adding are two steps, and the decrement comes before the request is handled.
* `ColsNotAlteredWhileRead`: "We must avoid altering the table.Cols map and
  reading at the same time." The columns Quesma adds are written into a map that
  is already published.
* `AcknowledgedIsComplete`: "Quesma will automatically add these fields to the
  ClickHouse table" (`ingest.md:69`). When the `ALTER TABLE` fails the client is told so, but the table
  object keeps the column (`processor.go:360`). The batch that is sent again finds
  nothing to add, its INSERT succeeds without the field, and it is acknowledged.
* `OnlyFrequentFieldsPromoted`: a loop ranges over positions where it means the
  elements.
* `AlternativeIsIgnored`: the alternative plan "ignore the result" stores its answer
  under the client's id.
* `FiltersApply`: filters that are taken to be in the WHERE clause are not.

What follows was seen while modelling. It is part of the models where the module is
named, and is left out of what the runs require (a property excludes these cases
by name, or their inputs are not asked); no run is about it alone.

### Searches and aggregations

* *Async searches.* `docs/public/docs/limitations.md:69` gives limits for stored
  results: admission compares before the query runs and stores after it, so that
  searches in flight exceed the limit; and a result leaves at the first fetch, not
  after 15 minutes (`search.go:731`, `747`). `search.go:42` speaks of a maximum of
  parallel queries: a run that failed releases its jobs (`:862`) while they may still
  be running. `runExecutePlanAsync` has no `return` after an error of
  `postProcessResults`. The named results of `executePlan` are a data race.
* *A/B plans.* `HandlePartialAsyncSearch` of the alternative deletes the main
  plan's stored result; the main call to Elasticsearch is cancelled when the
  partial answer is returned.
* *Query DSL.* `should: [match_all, x]` loses the `match_all`; `must` as an object
  with a `match_all` makes `should` required, as a list not; `must_not: [match_all]`
  is a NOT of nothing; `minimum_should_match` above 1 counts as 1; a document without
  the field is excluded by `must_not`; a query object with several known keys uses one
  in the order of a map; `geo_bounding_box` restricts nothing; `terms`, `exists` and
  `regexp` do not resolve names; a regexp without special characters has to match the
  whole text and any other any part of it; `ids` match by timestamp; bounds against
  `DateTime` lose their fraction; `exists` of an attribute or an array is true; `sort`
  as an object uses names as they came; `fields` with one name leaves hits without
  sort values, and over several indexes every hit is of the first.
* *Lucene.* A pair of parentheses at the top groups its first term only
  (`lucene_parser.go:27` says AND, OR, NOT are fully supported); an escaped `~` or
  `^` is removed with its escape, unlike the comment there; a comparison with
  something that is no number makes a bound `'NaN'` and drops the rest; "AND(" is
  a term; a bound missing at the end of the query indexes an empty text.
* *Scripts.* Calls with two arguments do not parse; arguments are appended to
  themselves (`onMethodCall1`); nothing after the first expression is read; `+`
  always concatenates; aliases and unselected fields are unknown; a filter or sort on
  a scripted field compares NULL; the text `formatISO8601NoTimezone` makes cannot be
  read back as a date.
* *Transformations.* A match on a field that is not in the schema keeps the raw
  `__quesma_match`, on an `Array` or `Map` it becomes an `iLIKE` the database
  refuses; a literal whose text contains "true" or "false" loses its quotes;
  `startsWith` of a group reads other indexes with its prefix; renamed map columns
  are no maps; aliases are unknown over the common table (`search.go:587`).
  `search_after` skips ties, fails after null sort values, and cuts times to
  milliseconds; renamed sort fields have no sort value. Attributes are not in hits.
* *Optimizers.* `traverse` of `materialized_view_replace.go` always sets
  `leftReplaced`, so that every conjunction goes to the view, its condition there or
  not; without a WHERE it panics. `truncate_date` returns rows outside the range (its
  comment says so) and is unreachable. `split_time_range` relies on the order of
  UNION ALL, and finds limits inside a NOT.
* *Aggregations.* Filters first with a bucket or metric beside them restrict what is
  beside them and the total (`query_parser.go:62`); `filters` with two sub-buckets
  loses the second for all filters but the first (`pancake_transformer.go:464`); terms
  ordered by a metric with two sub-buckets lose aggregations silently;
  `date_histogram` with `min_doc_count` above 1 drops sub-aggregations; ranges under
  a gap panic; a filter under a gap has no `doc_count`; `sum_other_doc_count` counts
  documents without a key; documents that arrive between two pancakes' queries
  can misplace sub-aggregations; an empty aggregation `{}` panics; one with "filter"
  beside a bucket loses the filter; the invariant in the comment at
  `pancake_model.go:17` is not one.

### Ingestion and metadata

* After a failed reload the table map is empty; the next document's `CREATE TABLE IF
  NOT EXISTS` does nothing, memory has its fields as columns, no `ALTER TABLE` is made,
  and a new field is dropped by ClickHouse from documents that are acknowledged, until
  a reload succeeds. While the `ALTER TABLE` of one request is on its way another
  request already counts on its column, with the same effect.
* Promoted attributes leave the document (`processor.go:360`), and the column they
  became leaves the table object when another goroutine assigns its own copy of the
  columns: the field is then in neither (`dropped` in `LossesAreExplained`).
* New columns get a type named, for example, "Array(String)" until the next
  reload, so that later arrays go to attributes; arrays of arrays make a column
  unresolvable, and the next reload skips the whole table. An array of objects and
  other things fails its batch. Attributes are written without escaping quotes. A
  table without attribute columns silently drops values that do not fit. Bounds of
  `UInt64` and `Int64` as floats include 2^64 and 2^63, those of `Int128` and
  `Int256` are doubled. An `unsigned_long` override gives "Uint64"; an override of a
  field not ingested yet an empty column name. Ignored fields with upper-case or
  other characters are not removed. Names that are encoded alike share a column.
* After a reload a virtual table has no attribute columns (`processor.go:924-965`),
  so new fields never enter its definition; `common_table_test.go` expects them to
  ("ingest to existing column and new column"). One whose reading fails is dropped
  and later overwritten with fewer columns.
* `LogPanic` of a reload loop stands outside its `for`. `HandleCount` and
  `terms_enum` look tables up by the index's name and not by the configured one;
  `_count` of a virtual index fails; "a,_all" counts twice. `GET` of a mapping drops
  properties beside a type, multi-fields and unknown types. There are three different
  matchers of patterns. `docs/.../ingest.md:96` says that mappings are taken from
  `PUT /:index/_mapping`; that route goes to `HandlePutIndex`, which looks for a
  "mappings" key the body does not have.

### Configuration and routing

* `Dispatch` rebuilds every `[]byte` result with status 200, so that a handler's
  404, 400 or 500 becomes 200, and makes a result without a `GenericResult` a 500.
  The comment at `router_v2.go:113-119` (the first handler with the path) is not what
  `findHandler` does. `And(method, ...)` has no decision when the method differs, so
  that `PUT /idx/_doc/1` or `DELETE /idx` of an index in ClickHouse goes to
  Elasticsearch. `_msearch` for an Elasticsearch index is forwarded without its name.
  Predicates run for mappings whose path does not match.
* A `*` target written as a map or an empty list panics; the default index's
  `useCommonTable` is compared with the text "true"; an index's own one is overwritten
  by the processor's when it has targets; the last target's attribute decides; with the
  processor's set, an Elasticsearch-only index goes to the common table, and a second
  target is lost. A single pipeline leaves the ingest target nil: ingestion is closed.
  Table names of query and ingest targets need not agree. `validatePipeline` indexes
  `FrontendConnectors[0]` after noting that there are none.

### Background

* *A/B pipeline.* A stopped collector with a full queue blocks the sender for ever,
  also when its first goroutine reports an error to its second, which has ended; all
  four may wait in a circle (`Stuck`, `Circle` in `ABResults`, excluded from
  `EverybodyGoesOn` by name). A late message of the old collector can stop the new one.
  A collector that dies in a panic (`collector.go:117-129`; with a pipeline that only
  queries there is no ingest processor, and `internalIngestFanout` panics at the first
  result) stays in use: the coordinator's timer has nothing under "check if collector
  is still alive" (`coordinator.go:113`), a thousand results fill the dead collector's
  queue, the next blocks the sender, and ten more block those who send (`Stuck`).
* *Comparison.* `JSONDiff` never compares texts that are not dates
  (`jsondiff.go:447-467`), nor, in most cases, text keys of buckets; whether a text is
  a date is asked of the expected value only; two empty objects differ; keys 1 and
  "1" are equal; ignored paths are prefixes; if B's body is no JSON both stay
  wrapped. `JsonDifference` lists nothing where Elasticsearch has a scalar and
  Quesma an object, nor anything within an array that is an element of another one,
  of which `utils.go:198` says that "it should return that they are different".
* *Bulk.* For an entry written to both, ClickHouse's item replaces Elasticsearch's;
  the default index of the URL is not added to what Elasticsearch gets
  (`bulk.go:139-143`, `197`).
* *Logs.* `log_sender.go:61` speaks of a retry after 10% of the interval; it comes
  after 90%. `FlushLogs` leaves what is in the channel. The forwarder waits for itself
  when its channel is full (`BlocksItself`).
* *Console.* The processor, and the processor with the comparer, can wait for
  themselves (`WaitsForItself`). `ui/dashboard_healthcheck.go:27` contradicts its
  comment in lines 13-14.
* *Telemetry.* `Stop` cancels before it collects, so that samples in the channels
  are lost, and what requests send afterwards waits for ever once they are full
  (`Abandoned`); the sizes of tables are asked with the cancelled context
  (`phone_home.go:231`); `callElastic` returns no error for a status other than 200;
  the *top* user agents are the rarest (`multi_counter.go:91`); the loop and `Stop`
  may collect at once, and `recent` has no lock.

## 7. What is not modelled

JSON and SQL texts, date expressions, formatting, logging, metrics and tracing. HTTP
servers and their start and shutdown. In the modelled parts: highlighting, top hits,
pipeline aggregations, samplers, ranges and the other kinds of buckets;
intervals and time zones; what the transformers do to aggregations; the SQL lexer;
nested arrays beyond their failing; the pages of the console; throttled loggers;
several tables ingested at once. Not at all: L4 proxy and TCP frontends, SQL backend
connectors, licensing, the processors of the v2 API the configured program does not
build. ClickHouse and Elasticsearch are external: they answer, fail or refuse, and
evaluate expressions as their documentation says; Elasticsearch lists virtual tables
late, otherwise its consistency is not modelled.

## 8. What is left

* Proofs: the types of `SchemaRegistry`; the trees of expressions and requests as
  functions on their nodes, so that what the recursive operators compute could be
  reasoned about.
* Models: the aggregations left out above, beginning with ranges and top hits;
  `DateTime` arithmetic of intervals.

## Running

```
tlc -workers 2 -config AsyncSearch.cfg AsyncSearch.tla
tlc -workers 2 -config Frontend_paths.cfg MCFrontend.tla
tlapm AsyncSearchProofs.tla
```

`PROJECT.json` names the module and the configuration of every run.
