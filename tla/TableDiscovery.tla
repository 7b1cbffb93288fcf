---------------------------- MODULE TableDiscovery ----------------------------
(***************************************************************************)
(* The table definitions every other component reads:                      *)
(* quesma/clickhouse/table_discovery.go, with the reload loops of the log  *)
(* manager (clickhouse/clickhouse.go) and of the ingest processor          *)
(* (ingest/processor.go), which share one discovery, and the addition of   *)
(* tables and virtual columns by ingestion.                                *)
(*                                                                         *)
(* A definition is the set of a table's columns and whether the table is   *)
(* virtual (a part of the common table, described in Elasticsearch).  Time *)
(* is what the code compares it with: the definitions are "fresh" for the  *)
(* minute after a reload began, "recent" up to 15 minutes, then "stale".   *)
(***************************************************************************)
EXTENDS Naturals, FiniteSets, Functions, TLC

CONSTANTS Loops,          \* goroutines that reload the definitions
          Readers,        \* goroutines that call TableDefinitions
          CommonTable,    \* common_table.TableName
          Databases,      \* what ClickHouse may hold: table -> set of columns
          Ingested,       \* tables written to: name -> definition
          Configured,     \* tables of the configuration that use ClickHouse
          Ignored,        \* <<table, column>> of its schema overrides
          Unresolved,     \* columns whose type resolveColumn rejects
          MaxEvents,      \* bound on changes and on failures, together
          MaxMessages     \* waiting messages beyond which they are merged

NoTables == [t \in {} |-> {}]
Nobody   == "nobody"

ASSUME TableDiscoveryAssumption ==
  /\ Loops # {} /\ Nobody \notin Readers
  /\ NoTables \in Databases
  /\ \A n \in DOMAIN Ingested : Ingested[n] \in [cols : SUBSET Ingested[n].cols, virtual : BOOLEAN]
  /\ MaxEvents \in Nat /\ MaxMessages \in Nat \ {0}

VARIABLES
  db,         \* the tables in ClickHouse
  store,      \* the virtual tables in Elasticsearch: name -> set of columns
  tables,     \* tableDefinitions, the published map
  fetchError, \* ReloadTablesError # nil
  reloadAge,  \* how long ago LastReloadTime is
  accessed,   \* LastAccessTime is less than two minutes ago
  loop,       \* each loop: control, what it has read, whom it must answer
  reader,     \* each caller of TableDefinitions
  observers,  \* the registered reload listeners
  running,    \* the loops that were started (ingestion may be disabled)
  autodiscovery, \* cfg.IndexAutodiscoveryEnabled()
  messages,   \* messages in a listener's channel or in goroutines blocked on it
  adder,      \* the ingesting goroutine: control, table, its columns
  unannounced, \* history: changed since the last publication, telling nobody
  events         \* changes of what is read, and failures, so far

timeVars      == <<reloadAge, accessed>>
externalVars  == <<db, store, events>>
settings      == <<observers, running, autodiscovery>>
mapVars       == <<tables, fetchError, unannounced>>
discoveryVars == <<externalVars, mapVars, timeVars, loop, reader, settings,
                   messages, adder>>

Names      == DOMAIN Ingested \union UNION {DOMAIN D : D \in Databases}
Columns    == (UNION {Ingested[n].cols : n \in DOMAIN Ingested})
                \union UNION {UNION {D[t] : t \in DOMAIN D} : D \in Databases}
RestingLoop  == [pc |-> "select", found |-> NoTables, for |-> Nobody]
RestingAdder == [pc |-> "idle", name |-> Nobody, cols |-> {}]

\* Start has reloaded once and registered the listeners.
Init ==
  /\ observers \in SUBSET Readers /\ autodiscovery \in BOOLEAN
  /\ running \in (SUBSET Loops) \ {{}}
  /\ db \in Databases /\ store = NoTables
  /\ tables = NoTables /\ fetchError = FALSE /\ unannounced = FALSE
  /\ reloadAge = "fresh" /\ accessed = TRUE
  /\ loop = [l \in Loops |-> RestingLoop]
  /\ reader = [r \in Readers |-> "idle"]
  /\ messages = [o \in observers |-> 0]
  /\ adder = RestingAdder
  /\ events \in 0 .. MaxEvents

-----------------------------------------------------------------------------
(* From what is read to what is published.                                 *)

\* configureTables, autoConfigureTables: the tables Quesma is to manage.
Configure(d) ==
  LET managed == IF autodiscovery THEN DOMAIN d
                 ELSE DOMAIN d \intersect (Configured \union {CommonTable})
  IN  [t \in managed |-> [cols |-> d[t], virtual |-> FALSE]]

\* The virtual tables that could be read; one keeps the columns the common
\* table has, and takes the place of a table of its name.
WithVirtual(found, read) ==
  IF CommonTable \notin DOMAIN found THEN found
  ELSE [t \in read \union DOMAIN found |->
          IF t \in read THEN [cols |-> store[t] \intersect found[CommonTable].cols, virtual |-> TRUE]
          ELSE found[t]]

\* Ignored columns are dropped, tables not fully resolved are skipped.
Populate(found) ==
  LET kept(t) == {c \in found[t].cols : \/ found[t].virtual \/ autodiscovery
                                        \/ <<t, c>> \notin Ignored}
  IN  [t \in {u \in DOMAIN found : kept(u) \intersect Unresolved = {}} |->
         [found[t] EXCEPT !.cols = kept(t)]]

\* What a reload publishes that reads everything now.
Current == Populate(WithVirtual(Configure(db), DOMAIN store))

-----------------------------------------------------------------------------
(* The reload loops.                                                       *)

Event == events < MaxEvents /\ events' = events + 1

\* ReloadTableDefinitions notes the time before anything else.
StartReload(l, r) ==
  /\ reloadAge' = "fresh"
  /\ loop' = [loop EXCEPT ![l].pc = "read", ![l].for = r]

\* Mutant: a request is answered only after a reload.
TakeForcedIfOld(l, r) ==
  /\ l \in running /\ loop[l].pc = "select" /\ reader[r] = "forcing"
  /\ reader' = [reader EXCEPT ![r] = "waiting"]
  /\ IF reloadAge = "fresh" THEN UNCHANGED <<loop, reloadAge>> ELSE StartReload(l, r)
  /\ UNCHANGED <<externalVars, mapVars, accessed, settings, messages, adder>>

\* case doneCh := <-forceReloadCh: the request is met; a flood is prevented.
TakeForced(l, r) ==
  /\ l \in running /\ loop[l].pc = "select" /\ reader[r] = "forcing"
  /\ IF reloadAge = "fresh"
     THEN reader' = [reader EXCEPT ![r] = "served"] /\ UNCHANGED <<loop, reloadAge>>
     ELSE reader' = [reader EXCEPT ![r] = "waiting"] /\ StartReload(l, r)
  /\ UNCHANGED <<externalVars, mapVars, accessed, settings, messages, adder>>

\* case <-time.After(reloadInterval): nothing happens unless Quesma is used.
Tick(l) ==
  /\ l \in running /\ loop[l].pc = "select" /\ accessed
  /\ StartReload(l, Nobody)
  /\ UNCHANGED <<externalVars, mapVars, accessed, reader, settings, messages, adder>>

ReadTables(l) ==
  /\ loop[l].pc = "read"
  /\ loop' = [loop EXCEPT ![l].pc = "virtual", ![l].found = Configure(db)]
  /\ UNCHANGED <<externalVars, mapVars, timeVars, reader, settings, messages, adder>>

\* doneCh <- struct{}{} never blocks; back to select.
Answer(l) ==
  /\ reader' = IF loop[l].for = Nobody THEN reader
               ELSE [reader EXCEPT ![loop[l].for] = "served"]
  /\ loop' = [loop EXCEPT ![l] = RestingLoop]

\* Nothing is known any more, and no listener is told.
ReadFails(l) ==
  /\ loop[l].pc = "read" /\ Event
  /\ tables' = NoTables /\ fetchError' = TRUE /\ unannounced' = TRUE
  /\ reloadAge' = "fresh"
  /\ Answer(l)
  /\ UNCHANGED <<db, store, accessed, settings, messages, adder>>

\* readVirtualTables: List, or Get of any of them, may fail.
ReadVirtualTables(l) ==
  /\ loop[l].pc = "virtual"
  /\ \E read \in SUBSET DOMAIN store :
       /\ IF read = DOMAIN store THEN UNCHANGED events ELSE Event
       /\ loop' = [loop EXCEPT ![l].pc = "publish",
                               ![l].found = WithVirtual(@, read)]
  /\ UNCHANGED <<db, store, mapVars, timeVars, reader,
                 settings, messages, adder>>

\* Mutant: an empty result leaves the published map as it is.
PublishNonEmpty(l) ==
  /\ loop[l].pc = "publish"
  /\ tables' = IF loop[l].found = NoTables THEN tables ELSE Populate(loop[l].found)
  /\ fetchError' = FALSE /\ unannounced' = FALSE
  /\ loop' = [loop EXCEPT ![l].pc = "notify", ![l].found = NoTables]
  /\ UNCHANGED <<externalVars, timeVars, reader, settings, messages, adder>>

Publish(l) ==
  /\ loop[l].pc = "publish"
  /\ tables' = Populate(loop[l].found) /\ fetchError' = FALSE /\ unannounced' = FALSE
  /\ loop' = [loop EXCEPT ![l].pc = "notify", ![l].found = NoTables]
  /\ UNCHANGED <<externalVars, timeVars, reader, settings, messages, adder>>

\* notifyObservers: a goroutine for every listener sends, and may block.
NotifyObservers ==
  messages' = [o \in observers |->
                 IF messages[o] < MaxMessages THEN messages[o] + 1 ELSE messages[o]]

\* Mutant: the loop itself sends into the channels, which hold one message.
NotifySynchronously(l) ==
  /\ loop[l].pc = "notify"
  /\ \A o \in observers : messages[o] = 0
  /\ messages' = [o \in observers |-> 1]
  /\ Answer(l)
  /\ UNCHANGED <<externalVars, mapVars, timeVars, settings, adder>>

Notify(l) ==
  /\ loop[l].pc = "notify"
  /\ NotifyObservers
  /\ Answer(l)
  /\ UNCHANGED <<externalVars, mapVars, timeVars, settings, adder>>

-----------------------------------------------------------------------------
(* TableDefinitions(): the access is noted; stale definitions are reloaded *)
(* first; then the published map is loaded.                                *)

Access(r) ==
  /\ reader[r] = "idle"
  /\ accessed' = TRUE
  /\ reader' = [reader EXCEPT ![r] = IF reloadAge = "stale" THEN "forcing" ELSE "served"]
  /\ UNCHANGED <<externalVars, mapVars, reloadAge, loop, settings,
                 messages, adder>>

Load(r) ==
  /\ reader[r] = "served"
  /\ reader' = [reader EXCEPT ![r] = "idle"]
  /\ UNCHANGED <<externalVars, mapVars, timeVars, loop, settings,
                 messages, adder>>

-----------------------------------------------------------------------------
(* Ingestion: AddTableIfDoesntExist, storeVirtualTable and the statements  *)
(* that follow.  The definitions are not stale (see Access for that case). *)

AdderGoes(pc) == adder' = [adder EXCEPT !.pc = pc]

Put(map, n, value) == [m \in DOMAIN map \union {n} |-> IF m = n THEN value ELSE map[m]]

\* FindTable: an unknown table is added, a virtual one extended in place.
FindTable(n) ==
  LET found == n \in DOMAIN tables
      cols  == Ingested[n].cols \union (IF found THEN tables[n].cols ELSE {})
  IN  /\ adder.pc = "idle" /\ reloadAge # "stale"
      /\ found => tables[n].virtual /\ cols # tables[n].cols
      /\ Event
      /\ accessed' = TRUE
      /\ tables' = IF found THEN [tables EXCEPT ![n].cols = cols] ELSE tables
      /\ unannounced' = (unannounced \/ found)
      /\ adder' = [name |-> n, cols |-> cols,
                   pc |-> IF found THEN "extend"
                          ELSE IF Ingested[n].virtual THEN "store" ELSE "add"]
      /\ UNCHANGED <<db, store, fetchError, reloadAge, loop, reader,
                     settings, messages>>

\* storeVirtualTable writes all columns of its table object; a failure is
\* only logged.
StoreVirtualTable ==
  /\ adder.pc \in {"store", "extend"}
  /\ \/ store' = Put(store, adder.name, adder.cols) /\ UNCHANGED events
     \/ Event /\ UNCHANGED store
  /\ AdderGoes(IF adder.pc = "store" THEN "add" ELSE "execute")
  /\ UNCHANGED <<db, mapVars, timeVars, loop, reader,
                 settings, messages>>

\* AddTable stores into the map that is published now ...
AddTable ==
  /\ adder.pc = "add"
  /\ tables' = Put(tables, adder.name, Ingested[adder.name])
  /\ unannounced' = FALSE
  /\ AdderGoes("notify")
  /\ UNCHANGED <<externalVars, fetchError, timeVars, loop, reader, settings, messages>>

\* ... and notifies.
AddTableNotifies ==
  /\ adder.pc = "notify"
  /\ NotifyObservers
  /\ AdderGoes("execute")
  /\ UNCHANGED <<externalVars, mapVars, timeVars, loop, reader, settings>>

\* CREATE TABLE, or ALTER of the common table; the request may fail instead.
Execute ==
  LET n == adder.name
      t == IF Ingested[n].virtual THEN CommonTable ELSE n
  IN  /\ adder.pc = "execute"
      /\ \/ /\ IF t \in DOMAIN db
               THEN db' = [db EXCEPT ![t] = @ \union Ingested[n].cols]
               ELSE IF t = CommonTable THEN UNCHANGED db
               ELSE db' = Put(db, t, Ingested[n].cols)
            /\ UNCHANGED events
         \/ Event /\ UNCHANGED db
      /\ adder' = RestingAdder
      /\ UNCHANGED <<store, mapVars, timeVars, loop, reader,
                     settings, messages>>

-----------------------------------------------------------------------------
\* Time passes, and administrators change the tables.
AgeReload ==
  /\ reloadAge # "stale"
  /\ reloadAge' = IF reloadAge = "fresh" THEN "recent" ELSE "stale"
  /\ UNCHANGED <<externalVars, mapVars, accessed, loop, reader,
                 settings, messages, adder>>

AgeAccess ==
  /\ accessed /\ accessed' = FALSE
  /\ UNCHANGED <<externalVars, mapVars, reloadAge, loop, reader,
                 settings, messages, adder>>

ChangeDatabase ==
  /\ Event
  /\ db' \in Databases \ {db}
  /\ UNCHANGED <<store, mapVars, timeVars, loop, reader,
                 settings, messages, adder>>

LoopStep(l) ==
  \/ Tick(l) \/ ReadTables(l) \/ ReadFails(l) \/ ReadVirtualTables(l)
  \/ Publish(l) \/ Notify(l)

AdderStep == StoreVirtualTable \/ AddTable \/ AddTableNotifies \/ Execute

DiscoveryStep ==
  \/ \E l \in Loops : LoopStep(l) \/ \E r \in Readers : TakeForced(l, r)
  \/ AdderStep \/ AgeReload

\* Everything that happens to the definitions, but for those who read them.
DiscoveryNext ==
  \/ DiscoveryStep \/ AgeAccess \/ ChangeDatabase
  \/ \E n \in DOMAIN Ingested : FindTable(n)

-----------------------------------------------------------------------------
(* Properties.                                                             *)

IsMap(m, D) == DOMAIN m \subseteq Names /\ Range(m) \subseteq D
Definition  == [cols : SUBSET Columns, virtual : BOOLEAN]

\* The discovery keeps its shape; every map is one of definitions by name.
TypeOK ==
  /\ IsMap(db, SUBSET Columns) /\ IsMap(store, SUBSET Columns)
  /\ IsMap(tables, Definition)
  /\ \A l \in Loops : IsMap(loop[l].found, Definition)
  /\ fetchError \in BOOLEAN /\ unannounced \in BOOLEAN /\ accessed \in BOOLEAN
  /\ reloadAge \in {"fresh", "recent", "stale"}
  /\ \A l \in Loops : loop[l].for \in Readers \union {Nobody}
  /\ reader \in [Readers -> {"idle", "forcing", "waiting", "served"}]
  /\ messages \in [observers -> 0 .. MaxMessages]
  /\ adder.name \in Names \union {Nobody} /\ adder.cols \subseteq Columns
  /\ events \in 0 .. MaxEvents
=============================================================================
