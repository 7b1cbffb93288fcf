---------------------------- MODULE SchemaRegistry ----------------------------
(***************************************************************************)
(* The schemas queries are planned with: quesma/schema/registry.go on top  *)
(* of TableDiscovery.  Schemas are cached until something they are built   *)
(* from is known to have changed: a reload message, a five-minute ticker   *)
(* or an update drops the cache, the next reader builds it again, under    *)
(* the registry's lock, from the definitions of that moment.               *)
(*                                                                         *)
(* A field of a schema has the column it is kept in, its type and where    *)
(* its definition came from.  No two fields of a table are encoded into    *)
(* one column here.                                                        *)
(***************************************************************************)
EXTENDS TableDiscovery

CONSTANTS Finder,      \* who calls FindSchema or AllSchemas and holds the lock
          Indexes,     \* the configured indexes, tables of the same name
          Fields,      \* public names of fields
          Encode,      \* util.FieldToColumnEncoder: field -> column
          Overrides,   \* index -> field -> kind of override and type
          TypeOf,      \* the type adapter: column -> Quesma type
          GeoParts,    \* field of type point -> "<field>.lat", "<field>.lon"
          Mappings     \* bodies of PUT index: field -> type

ASSUME SchemaRegistryAssumption ==
  /\ Finder \in Readers /\ Indexes # {}
  /\ Encode \in Injection(Fields, Range(Encode))
  /\ DOMAIN Overrides = Indexes /\ DOMAIN GeoParts = Fields

VARIABLES
  cached,        \* cachedSchemas, NoSchemas for nil
  encodings,     \* fieldEncodings: <<table, field>>, for Encode[field]
  dynamic,       \* dynamicConfiguration: index -> field -> type
  origins,       \* fieldOrigins: the columns known to come from ingestion
  invalidating,  \* the registry's goroutine wants the lock to drop the cache
  originsUnseen  \* history: origins changed since the cache was dropped

sourceVars   == <<encodings, dynamic, origins>>
registryVars == <<cached, sourceVars, invalidating, originsUnseen>>

NoSchemas  == <<>>
NoFields   == [f \in {} |-> {}]
Locked     == reader[Finder] # "idle"
Field(column, type, origin) == [column |-> column, type |-> type, origin |-> origin]

RegistryInit ==
  /\ cached = NoSchemas /\ encodings = {}
  /\ dynamic = [i \in Indexes |-> NoFields]
  /\ origins = [i \in Indexes |-> {}]
  /\ invalidating = FALSE /\ originsUnseen = FALSE

-----------------------------------------------------------------------------
(* loadSchemas, one layer after the other.                                 *)

FromDynamic(i) ==
  [f \in DOMAIN dynamic[i] |-> Field(f, dynamic[i][f], "mapping")]

OfKind(i, kind) == {f \in DOMAIN Overrides[i] : Overrides[i][f].kind = kind}

FromStatic(i) ==
  [f \in OfKind(i, "type") |-> Field(Encode[f], Overrides[i][f].type, "")]

\* The public name of a column: its encoding's, or its own.
PublicName(t, c) ==
  IF \E f \in Fields : <<t, f>> \in encodings /\ Encode[f] = c
  THEN CHOOSE f \in Fields : <<t, f>> \in encodings /\ Encode[f] = c
  ELSE c

\* A field that is already configured keeps its type and origin.
FromTable(t, fields) ==
  LET cols == IF t \in DOMAIN tables THEN tables[t].cols ELSE {}
      of(c) == IF PublicName(t, c) \in DOMAIN fields
               THEN [fields[PublicName(t, c)] EXCEPT !.column = c]
               ELSE Field(c, TypeOf[c], "")
  IN  [f \in {PublicName(t, c) : c \in cols} |->
         of(CHOOSE c \in cols : PublicName(t, c) = f)] @@ fields

WithoutIgnored(i, fields) ==
  Restrict(fields, DOMAIN fields \ OfKind(i, "ignored"))

WithoutGeoParts(fields) ==
  LET points == {f \in DOMAIN fields \intersect Fields : fields[f].type = "point"}
  IN  Restrict(fields, DOMAIN fields \ UNION {GeoParts[f] : f \in points})

WithOrigins(i, fields) ==
  [f \in DOMAIN fields |->
     IF fields[f].column \in origins[i] THEN [fields[f] EXCEPT !.origin = "ingest"]
     ELSE fields[f]]

IndexSchema(i) ==
  [fields  |-> WithOrigins(i, WithoutGeoParts(WithoutIgnored(i,
                 FromTable(i, FromStatic(i) @@ FromDynamic(i))))),
   aliases |-> OfKind(i, "alias"),
   exists  |-> i \in DOMAIN tables]

TableSchema(t) ==
  [fields |-> FromTable(t, NoFields), aliases |-> {}, exists |-> TRUE]

\* Configured indexes replace what was discovered under their name.
Schemas ==
  [i \in Indexes |-> IndexSchema(i)]
  @@ [t \in IF autodiscovery THEN DOMAIN tables ELSE {} |-> TableSchema(t)]

-----------------------------------------------------------------------------
Invalidate == cached' = NoSchemas /\ originsUnseen' = FALSE

\* FindSchema, AllSchemas: cached schemas are returned at once; otherwise the
\* definitions are asked for with the lock held.
FindSchema ==
  /\ Finder \in observers /\ cached = NoSchemas
  /\ Access(Finder)
  /\ UNCHANGED registryVars

LoadSchemas ==
  /\ Load(Finder)
  /\ cached' = Schemas
  /\ UNCHANGED <<sourceVars, invalidating, originsUnseen>>

\* The goroutine of Start: a message or the ticker, then the lock.
ReceiveMessage ==
  /\ Finder \in observers /\ ~invalidating /\ messages[Finder] > 0
  /\ messages' = [messages EXCEPT ![Finder] = @ - 1]
  /\ invalidating' = TRUE
  /\ UNCHANGED <<externalVars, mapVars, timeVars, loop, reader,
                 settings, adder, cached, sourceVars, originsUnseen>>

RegistryTicker ==
  /\ Finder \in observers /\ ~invalidating
  /\ invalidating' = TRUE
  /\ UNCHANGED <<discoveryVars, cached, sourceVars, originsUnseen>>

ProtectedReload ==
  /\ invalidating /\ ~Locked
  /\ Invalidate /\ invalidating' = FALSE
  /\ UNCHANGED <<discoveryVars, sourceVars>>

\* Updates count as changes of the tables, to bound them.
Counted ==
  /\ Event
  /\ UNCHANGED <<db, store, mapVars, timeVars, loop, reader, settings,
                 messages, adder>>

\* Mutant: new encodings leave the cached schemas alone.
UpdateFieldEncodingsOnly(t, f) ==
  /\ Finder \in observers /\ ~Locked /\ <<t, f>> \notin encodings
  /\ encodings' = encodings \union {<<t, f>>}
  /\ Counted /\ UNCHANGED <<cached, dynamic, origins, invalidating, originsUnseen>>

\* Ingestion tells the registry how it encoded fields ...
UpdateFieldEncodings(t, f) ==
  /\ Finder \in observers /\ ~Locked /\ <<t, f>> \notin encodings
  /\ encodings' = encodings \union {<<t, f>>}
  /\ Invalidate
  /\ Counted /\ UNCHANGED <<dynamic, origins, invalidating>>

\* ... and which columns are its own; this does not drop the cache.
UpdateFieldsOrigins(i) ==
  /\ Finder \in observers /\ ~Locked
  /\ \E cols \in {Ingested[n].cols : n \in DOMAIN Ingested} \ {origins[i]} :
       origins' = [origins EXCEPT ![i] = cols]
  /\ originsUnseen' = TRUE
  /\ Counted /\ UNCHANGED <<cached, encodings, dynamic, invalidating>>

\* PUT index: the mapping, and the encodings of its fields.
UpdateDynamicConfiguration(i, mapping) ==
  /\ Finder \in observers /\ ~Locked /\ dynamic[i] # mapping
  /\ dynamic' = [dynamic EXCEPT ![i] = mapping]
  /\ encodings' = encodings \union {<<i, f>> : f \in DOMAIN mapping}
  /\ Invalidate
  /\ Counted /\ UNCHANGED <<origins, invalidating>>

RegistryUpdate ==
  \E i \in Indexes :
     \/ \E f \in Fields : UpdateFieldEncodings(i, f)
     \/ UpdateFieldsOrigins(i)
     \/ \E mapping \in Mappings : UpdateDynamicConfiguration(i, mapping)

RegistryStep ==
  \/ FindSchema \/ LoadSchemas \/ ReceiveMessage \/ RegistryTicker
  \/ ProtectedReload \/ RegistryUpdate

\* The registry among everybody else who reads or changes the definitions.
RegistryNext ==
  \/ /\ DiscoveryNext \/ \E r \in Readers \ {Finder} : Access(r) \/ Load(r)
     /\ UNCHANGED registryVars
  \/ RegistryStep

RegistrySpec ==
  Init /\ RegistryInit /\ [][RegistryNext]_<<discoveryVars, registryVars>>

-----------------------------------------------------------------------------
(* Properties.                                                             *)

SchemaRegistryTypeOK ==
  /\ encodings \subseteq Indexes \X Fields
  /\ dynamic \in [Indexes -> Mappings \union {NoFields}]
  /\ origins \in [Indexes -> SUBSET Columns]
  /\ invalidating \in BOOLEAN /\ originsUnseen \in BOOLEAN
  /\ cached # NoSchemas => Indexes \subseteq DOMAIN cached

\* Schemas differ from what the tables, encodings, mappings and origins give
\* only for a while: a message is waiting or being handled, a loop or the
\* ingesting goroutine is about to send one, the last reload failed (and told
\* nobody), a virtual table was extended in place, or only the origins are
\* new.
SchemasAreCurrent ==
  \/ cached \in {NoSchemas, Schemas}
  \/ messages[Finder] > 0 \/ invalidating
  \/ adder.pc = "notify" \/ \E l \in Loops : loop[l].pc = "notify"
  \/ unannounced \/ originsUnseen
=============================================================================
