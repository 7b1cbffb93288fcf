----------------------------- MODULE MetadataProofs -----------------------------
(***************************************************************************)
(* Proofs about the two services that follow the table definitions, for    *)
(* any number of reload loops and readers, any tables, configuration and   *)
(* bounds: the schemas of SchemaRegistry and the decisions of              *)
(* TableResolver differ from the definitions only while somebody is about  *)
(* to tell them; what a pattern of indexes is decided to be does not       *)
(* depend on the order of Go's maps; and everything keeps its type.        *)
(***************************************************************************)
EXTENDS SchemaRegistry, TableResolver, FiniteSetTheorems, NaturalsInduction,
        WellFoundedInduction, TLAPS

-----------------------------------------------------------------------------
(* The discovery.                                                          *)

\* Loops, the ingesting goroutine and the listeners keep their shape.
Shape ==
  /\ DOMAIN loop = Loops
  /\ \A l \in Loops : DOMAIN loop[l] = {"pc", "found", "for"}
  /\ DOMAIN adder = {"pc", "name", "cols"}
  /\ DOMAIN reader = Readers
  /\ messages \in [observers -> Nat]

\* Somebody is about to send, or nobody ever will.
Announcing ==
  \/ adder.pc = "notify" \/ \E l \in Loops : loop[l].pc = "notify"
  \/ unannounced

\* A step of a listener that takes a message, or of anyone who only reads.
DiscoveryStays == UNCHANGED <<tables, unannounced, loop, adder, settings>>

LEMMA InitShape == Init => Shape
BY TableDiscoveryAssumption DEF Init, Shape, RestingLoop, RestingAdder

LEMMA AccessShape ==
  ASSUME Shape, NEW r \in Readers, Access(r) \/ Load(r)
  PROVE  /\ Shape' /\ DiscoveryStays /\ UNCHANGED messages
         /\ \A s \in Readers \ {r} : reader'[s] = reader[s]
BY DEF Shape, Access, Load, mapVars, settings, externalVars, DiscoveryStays

LEMMA AnswerShape ==
  ASSUME Shape, NEW l \in Loops, Answer(l)
  PROVE  /\ DOMAIN loop' = Loops
         /\ \A k \in Loops : DOMAIN loop'[k] = {"pc", "found", "for"}
         /\ \A k \in Loops : k # l => loop'[k] = loop[k]
         /\ loop'[l] = RestingLoop
         /\ DOMAIN reader' = Readers
BY DEF Shape, Answer, RestingLoop

LEMMA NotifyShape ==
  ASSUME Shape, NotifyObservers, UNCHANGED observers
  PROVE  /\ messages' \in [observers' -> Nat]
         /\ \A o \in observers : messages'[o] > 0
BY TableDiscoveryAssumption DEF Shape, NotifyObservers

\* A reader that has asked for nothing, and that no loop is to answer.
Resting(r) == reader[r] = "idle" /\ \A l \in Loops : loop[l].for # r

\* What a step of the discovery does to those who follow it: if it changes the
\* tables somebody will announce it, and who was about to announce something
\* still is, unless everybody has a message now.
Followed ==
  /\ Shape' /\ UNCHANGED settings
  /\ \A o \in observers : messages[o] > 0 => messages'[o] > 0
  /\ \/ Announcing'
     \/ UNCHANGED tables /\ (~Announcing \/ \A o \in observers : messages'[o] > 0)
  /\ \A r \in Readers : Resting(r) => Resting(r)'

\* The steps that touch neither loops nor tables nor messages.
LEMMA ReadersFollowed ==
  ASSUME Shape, UNCHANGED <<loop, adder, unannounced, tables, settings, messages, reader>>
  PROVE  Followed
BY DEF Followed, Shape, Announcing, Resting, settings

LEMMA LoopFollowed ==
  ASSUME Shape, NEW l \in Loops, LoopStep(l)
  PROVE  Followed
<1> USE DEF Followed, Shape, settings, mapVars, externalVars, timeVars
<1>1. CASE Tick(l)
  <2>1. /\ UNCHANGED <<adder, unannounced, tables, settings, messages, reader>>
        /\ loop' = [loop EXCEPT ![l].pc = "read", ![l].for = Nobody]
        /\ loop[l].pc = "select"
    BY <1>1 DEF Tick, StartReload
  <2>2. Shape'
    BY <2>1
  <2>3. Announcing' <=> Announcing
    BY <2>1 DEF Announcing
  <2>4. \A r \in Readers : Resting(r) => Resting(r)'
    BY <2>1, TableDiscoveryAssumption DEF Resting
  <2> QED BY <2>1, <2>2, <2>3, <2>4
<1>2. CASE ReadTables(l)
  <2>1. /\ UNCHANGED <<adder, unannounced, tables, settings, messages, reader>>
        /\ loop' = [loop EXCEPT ![l].pc = "virtual", ![l].found = Configure(db)]
        /\ loop[l].pc = "read"
    BY <1>2 DEF ReadTables
  <2>2. Shape'
    BY <2>1
  <2>3. Announcing' <=> Announcing
    BY <2>1 DEF Announcing
  <2>4. \A r \in Readers : Resting(r) => Resting(r)'
    BY <2>1 DEF Resting
  <2> QED BY <2>1, <2>2, <2>3, <2>4
<1>3. CASE ReadFails(l)
  <2>1. /\ UNCHANGED <<adder, settings, messages>> /\ unannounced' /\ Answer(l)
    BY <1>3 DEF ReadFails
  <2>2. Shape'
    BY <2>1, AnswerShape
  <2>3. Announcing'
    BY <2>1 DEF Announcing
  <2>4. \A r \in Readers : Resting(r) => Resting(r)'
    BY <2>1, AnswerShape, TableDiscoveryAssumption DEF Resting, Answer, RestingLoop
  <2> QED BY <2>1, <2>2, <2>3, <2>4
<1>4. CASE ReadVirtualTables(l)
  <2>1. PICK read \in SUBSET DOMAIN store :
             loop' = [loop EXCEPT ![l].pc = "publish", ![l].found = WithVirtual(@, read)]
    BY <1>4 DEF ReadVirtualTables
  <2>2. /\ UNCHANGED <<adder, unannounced, tables, settings, messages, reader>>
        /\ loop[l].pc = "virtual"
    BY <1>4 DEF ReadVirtualTables
  <2>3. Shape'
    BY <2>1, <2>2
  <2>4. Announcing' <=> Announcing
    BY <2>1, <2>2 DEF Announcing
  <2>5. \A r \in Readers : Resting(r) => Resting(r)'
    BY <2>1, <2>2 DEF Resting
  <2> QED BY <2>2, <2>3, <2>4, <2>5
<1>5. CASE Publish(l)
  <2>1. /\ UNCHANGED <<adder, settings, messages, reader>>
        /\ loop' = [loop EXCEPT ![l].pc = "notify", ![l].found = NoTables]
    BY <1>5 DEF Publish
  <2>2. Shape' /\ loop'[l].pc = "notify"
    BY <2>1
  <2>3. Announcing'
    BY <2>2 DEF Announcing
  <2>4. \A r \in Readers : Resting(r) => Resting(r)'
    BY <2>1 DEF Resting
  <2> QED BY <2>1, <2>2, <2>3, <2>4
<1>6. CASE Notify(l)
  <2>1. /\ UNCHANGED <<adder, unannounced, tables, settings>>
        /\ NotifyObservers /\ Answer(l)
    BY <1>6 DEF Notify
  <2>2. Shape' /\ \A o \in observers : messages'[o] > 0
    BY <2>1, AnswerShape, NotifyShape
  <2>3. \A r \in Readers : Resting(r) => Resting(r)'
    BY <2>1, AnswerShape, TableDiscoveryAssumption DEF Resting, Answer, RestingLoop
  <2> QED BY <2>1, <2>2, <2>3
<1> QED BY <1>1, <1>2, <1>3, <1>4, <1>5, <1>6 DEF LoopStep

LEMMA ForcedFollowed ==
  ASSUME Shape, NEW l \in Loops, NEW r \in Readers, TakeForced(l, r)
  PROVE  Followed
<1> USE DEF Shape, settings, mapVars, externalVars, timeVars
<1>1. /\ UNCHANGED <<adder, unannounced, tables, settings, messages>>
      /\ reader[r] = "forcing" /\ loop[l].pc = "select"
      /\ \/ loop' = loop
         \/ loop' = [loop EXCEPT ![l].pc = "read", ![l].for = r]
      /\ \/ reader' = [reader EXCEPT ![r] = "served"]
         \/ reader' = [reader EXCEPT ![r] = "waiting"]
  BY DEF TakeForced, StartReload
<1>2. Shape'
  BY <1>1
<1>3. Announcing' <=> Announcing
  BY <1>1 DEF Announcing
<1>4. \A s \in Readers : Resting(s) => Resting(s)'
  BY <1>1 DEF Resting
<1> QED BY <1>1, <1>2, <1>3, <1>4 DEF Followed

LEMMA AdderFollowed ==
  ASSUME Shape, AdderStep \/ \E n \in DOMAIN Ingested : FindTable(n)
  PROVE  Followed
<1> USE DEF Followed, Shape, settings, mapVars, externalVars, timeVars, AdderGoes
<1>1. CASE StoreVirtualTable
  <2>1. /\ UNCHANGED <<unannounced, tables, loop, settings, messages, reader>>
        /\ DOMAIN adder' = DOMAIN adder
        /\ adder.pc # "notify"
    BY <1>1 DEF StoreVirtualTable
  <2> QED BY <2>1 DEF Announcing, Resting
<1>2. CASE AddTable
  <2>1. /\ UNCHANGED <<loop, settings, messages, reader>>
        /\ DOMAIN adder' = DOMAIN adder /\ adder'.pc = "notify"
    BY <1>2 DEF AddTable
  <2> QED BY <2>1 DEF Announcing, Resting
<1>3. CASE AddTableNotifies
  <2>1. /\ UNCHANGED <<unannounced, tables, loop, settings, reader>>
        /\ DOMAIN adder' = DOMAIN adder /\ NotifyObservers
    BY <1>3 DEF AddTableNotifies
  <2> QED BY <2>1, NotifyShape DEF Resting
<1>4. CASE Execute
  <2>1. /\ UNCHANGED <<unannounced, tables, loop, settings, messages, reader>>
        /\ DOMAIN adder' = DOMAIN adder /\ adder.pc # "notify"
    BY <1>4 DEF Execute, RestingAdder
  <2> QED BY <2>1 DEF Announcing, Resting
<1>5. ASSUME NEW n \in DOMAIN Ingested, FindTable(n)
      PROVE  Followed
  <2>1. /\ UNCHANGED <<loop, settings, messages, reader>>
        /\ DOMAIN adder' = DOMAIN adder /\ adder.pc = "idle"
    BY <1>5 DEF FindTable
  <2>2. /\ unannounced' <=> unannounced \/ n \in DOMAIN tables
        /\ n \notin DOMAIN tables => UNCHANGED tables
    BY <1>5 DEF FindTable
  <2> QED BY <2>1, <2>2 DEF Announcing, Resting
<1> QED BY <1>1, <1>2, <1>3, <1>4, <1>5 DEF AdderStep

LEMMA DiscoveryFollowed ==
  ASSUME Shape, DiscoveryNext
  PROVE  Followed
<1>1. CASE AgeReload \/ AgeAccess \/ ChangeDatabase
  BY <1>1, ReadersFollowed
     DEF AgeReload, AgeAccess, ChangeDatabase, mapVars, settings, externalVars
<1> QED BY <1>1, LoopFollowed, ForcedFollowed, AdderFollowed DEF DiscoveryNext, DiscoveryStep

-----------------------------------------------------------------------------
(* The schemas.                                                            *)

\* A registry that was never started has never read anything.
SchemasInv ==
  /\ Shape /\ SchemasAreCurrent
  /\ Finder \notin observers => cached = NoSchemas /\ Resting(Finder)

\* All of loadSchemas reads these and the configuration only.
LEMMA SchemasDependOn ==
  ASSUME UNCHANGED <<tables, autodiscovery, encodings, dynamic, origins>>
  PROVE  Schemas' = Schemas
<1>1. ASSUME NEW t, NEW fields
      PROVE  FromTable(t, fields)' = FromTable(t, fields)
  BY DEF FromTable, PublicName, Field
<1>2. \A i, fields : /\ WithoutIgnored(i, fields)' = WithoutIgnored(i, fields)
                     /\ WithoutGeoParts(fields)' = WithoutGeoParts(fields)
  BY DEF WithoutIgnored, WithoutGeoParts, OfKind
<1>3. \A i, fields : WithOrigins(i, fields)' = WithOrigins(i, fields)
  BY DEF WithOrigins
<1>4. \A i : FromDynamic(i)' = FromDynamic(i)
  BY DEF FromDynamic, Field
<1>5. \A i : IndexSchema(i)' = IndexSchema(i)
  BY <1>1, <1>2, <1>3, <1>4 DEF IndexSchema, FromStatic, OfKind, Field
<1>6. \A t : TableSchema(t)' = TableSchema(t)
  BY <1>1 DEF TableSchema, NoFields
<1> QED BY <1>5, <1>6 DEF Schemas

\* Whatever the registry does not do itself.
LEMMA OthersKeepSchemas ==
  ASSUME SchemasInv, Followed, UNCHANGED registryVars
  PROVE  SchemasInv'
<1> USE DEF registryVars, sourceVars
<1>1. Shape' /\ UNCHANGED <<observers, autodiscovery>>
  BY DEF Followed, settings
<1>2. Finder \notin observers => cached' = NoSchemas /\ Resting(Finder)'
  BY SchemaRegistryAssumption DEF SchemasInv, Followed
<1>3. SchemasAreCurrent'
  <2>1. CASE Announcing'
    BY <2>1 DEF SchemasAreCurrent, Announcing
  <2>2. CASE Finder \notin observers
    BY <2>2, <1>2 DEF SchemasAreCurrent, NoSchemas
  <2>3. CASE Finder \in observers /\ UNCHANGED tables /\ ~Announcing
    <3>1. Schemas' = Schemas
      BY <2>3, <1>1, SchemasDependOn
    <3> QED BY <3>1, <2>3 DEF SchemasInv, SchemasAreCurrent, Announcing, Followed, NoSchemas
  <2>4. CASE Finder \in observers /\ messages'[Finder] > 0
    BY <2>4 DEF SchemasAreCurrent
  <2> QED BY <2>1, <2>2, <2>3, <2>4 DEF Followed
<1> QED BY <1>1, <1>2, <1>3 DEF SchemasInv

\* The registry's own steps.
LEMMA RegistryKeepsSchemas ==
  ASSUME SchemasInv, RegistryStep
  PROVE  SchemasInv'
<1> USE DEF registryVars, sourceVars
<1> Finder \in Readers
  BY SchemaRegistryAssumption
<1> Shape
  BY DEF SchemasInv
<1>1. CASE FindSchema
  <2>1. /\ Shape' /\ UNCHANGED <<observers, messages>> /\ Finder \in observers
        /\ cached' = NoSchemas
    BY <1>1, AccessShape DEF FindSchema, DiscoveryStays, settings
  <2> QED BY <2>1 DEF SchemasInv, SchemasAreCurrent, NoSchemas
<1>2. CASE LoadSchemas
  <2>1. /\ Shape' /\ DiscoveryStays /\ UNCHANGED messages
    BY <1>2, AccessShape DEF LoadSchemas
  <2>2. Schemas' = Schemas /\ UNCHANGED observers
    BY <1>2, <2>1, SchemasDependOn DEF LoadSchemas, DiscoveryStays, settings
  <2>3. Finder \in observers
    BY <1>2 DEF LoadSchemas, Load, SchemasInv, Resting
  <2> QED BY <1>2, <2>1, <2>2, <2>3 DEF LoadSchemas, SchemasInv, SchemasAreCurrent
<1>3. CASE ReceiveMessage \/ RegistryTicker
  <2>1. /\ Shape' /\ invalidating' /\ Finder \in observers'
    BY <1>3 DEF ReceiveMessage, RegistryTicker, Shape, settings, discoveryVars
  <2> QED BY <2>1 DEF SchemasInv, SchemasAreCurrent
<1>4. CASE ProtectedReload
  <2>1. Shape' /\ cached' = NoSchemas
    BY <1>4 DEF ProtectedReload, Invalidate, Shape, settings, discoveryVars
  <2>2. UNCHANGED <<observers, reader, loop>>
    BY <1>4 DEF ProtectedReload, discoveryVars, settings
  <2> QED BY <2>1, <2>2 DEF SchemasInv, SchemasAreCurrent, NoSchemas, Resting
<1>5. ASSUME NEW i \in Indexes, NEW f \in Fields, UpdateFieldEncodings(i, f)
      PROVE  SchemasInv'
  <2>1. Shape' /\ cached' = NoSchemas /\ Finder \in observers'
    BY <1>5 DEF UpdateFieldEncodings, Counted, Invalidate, Shape, settings
  <2> QED BY <2>1 DEF SchemasInv, SchemasAreCurrent, NoSchemas
<1>6. ASSUME NEW i \in Indexes, UpdateFieldsOrigins(i)
      PROVE  SchemasInv'
  <2>1. Shape' /\ originsUnseen' /\ Finder \in observers'
    BY <1>6 DEF UpdateFieldsOrigins, Counted, Shape, settings
  <2> QED BY <2>1 DEF SchemasInv, SchemasAreCurrent
<1>7. ASSUME NEW i \in Indexes, NEW mapping \in Mappings,
             UpdateDynamicConfiguration(i, mapping)
      PROVE  SchemasInv'
  <2>1. Shape' /\ cached' = NoSchemas /\ Finder \in observers'
    BY <1>7 DEF UpdateDynamicConfiguration, Counted, Invalidate, Shape, settings
  <2> QED BY <2>1 DEF SchemasInv, SchemasAreCurrent, NoSchemas
<1> QED BY <1>1, <1>2, <1>3, <1>4, <1>5, <1>6, <1>7 DEF RegistryStep, RegistryUpdate

\* Readers other than the one that holds the registry's lock.
LEMMA AccessFollowed ==
  ASSUME Shape, NEW s \in Readers, NEW r \in Readers, r # s, Access(r) \/ Load(r)
  PROVE  /\ Shape' /\ DiscoveryStays /\ UNCHANGED messages
         /\ Resting(s) => Resting(s)'
BY AccessShape DEF Resting, DiscoveryStays

\* Registry.FindSchema and AllSchemas: cached schemas are those the tables,
\* encodings, mappings and origins give, except while somebody is about to
\* say that they changed, or said nothing (a failed reload, a virtual table
\* extended in place, origins).
THEOREM SchemasAreAlwaysCurrent == RegistrySpec => []SchemasAreCurrent
<1>1. Init /\ RegistryInit => SchemasInv
  BY InitShape, SchemaRegistryAssumption, TableDiscoveryAssumption
     DEF Init, RegistryInit, SchemasInv, SchemasAreCurrent, Resting, RestingLoop
<1>2. SchemasInv /\ [RegistryNext]_<<discoveryVars, registryVars>> => SchemasInv'
  <2> SUFFICES ASSUME SchemasInv, [RegistryNext]_<<discoveryVars, registryVars>>
               PROVE  SchemasInv'
    OBVIOUS
  <2>1. CASE DiscoveryNext /\ UNCHANGED registryVars
    BY <2>1, DiscoveryFollowed, OthersKeepSchemas DEF SchemasInv
  <2>2. ASSUME NEW r \in Readers \ {Finder}, Access(r) \/ Load(r), UNCHANGED registryVars
        PROVE  SchemasInv'
    <3>1. /\ Shape' /\ DiscoveryStays /\ UNCHANGED messages
          /\ Resting(Finder) => Resting(Finder)'
      BY <2>2, AccessFollowed, SchemaRegistryAssumption DEF SchemasInv
    <3>2. Schemas' = Schemas
      BY <2>2, <3>1, SchemasDependOn DEF DiscoveryStays, settings, registryVars, sourceVars
    <3> QED BY <2>2, <3>1, <3>2
               DEF SchemasInv, SchemasAreCurrent, DiscoveryStays, settings, registryVars,
                   NoSchemas
  <2>3. CASE RegistryStep
    BY <2>3, RegistryKeepsSchemas
  <2>4. CASE UNCHANGED <<discoveryVars, registryVars>>
    BY <2>4, ReadersFollowed, OthersKeepSchemas
       DEF SchemasInv, discoveryVars, mapVars, settings
  <2> QED BY <2>1, <2>2, <2>3, <2>4 DEF RegistryNext
<1> QED BY <1>1, <1>2, PTL DEF RegistrySpec, SchemasInv

-----------------------------------------------------------------------------
(* The decisions.                                                          *)

\* The lists of tables and indexes the resolver goes by, or is about to.
ListedByResolver == IF resolver.pc = "select" THEN chIndexes ELSE resolver.ch

ResolverShape == DOMAIN decisions = Pipelines /\ DOMAIN resolver = {"pc", "ch"}

DecisionsInv == Shape /\ ResolverShape /\ DecisionsAreCurrent

LEMMA ResolutionsDependOn ==
  ASSUME UNCHANGED <<chIndexes, esIndexes, autodiscovery>>, NEW p, NEW pattern
  PROVE  Resolutions(p, pattern)' = Resolutions(p, pattern)
BY DEF Resolutions, Rules, Known

\* The two halves of DecisionsAreCurrent.
DecisionsFollow ==
  \A p \in Pipelines : \A pattern \in DOMAIN decisions[p] :
    decisions[p][pattern] \in Resolutions(p, pattern)

ListsFollow ==
  Resolver \in observers =>
    \/ Listed(tables) = ListedByResolver
    \/ messages[Resolver] > 0 \/ resolver.pc = "tables"
    \/ Announcing

LEMMA Halves == DecisionsAreCurrent <=> DecisionsFollow /\ ListsFollow
BY DEF DecisionsAreCurrent, DecisionsFollow, ListsFollow, ListedByResolver, Announcing

LEMMA OthersKeepDecisions ==
  ASSUME DecisionsInv, UNCHANGED <<chIndexes, esIndexes, decisions, resolver>>, Followed
  PROVE  DecisionsInv'
<1>1. Shape' /\ ResolverShape' /\ UNCHANGED <<observers, autodiscovery>>
  BY DEF DecisionsInv, Followed, ResolverShape, settings
<1>2. DecisionsFollow'
  BY <1>1, ResolutionsDependOn, Halves DEF DecisionsInv, DecisionsFollow
<1>3. ListsFollow'
  BY <1>1, Halves DEF DecisionsInv, ListsFollow, ListedByResolver, Followed, Listed
<1>4. DecisionsAreCurrent'
  BY <1>2, <1>3, Halves DEF DecisionsAreCurrent, DecisionsFollow, ListsFollow,
                            ListedByResolver, Announcing
<1> QED BY <1>1, <1>4 DEF DecisionsInv

\* The steps that leave the lists and the decisions alone.
LEMMA ListersKeepDecisions ==
  ASSUME DecisionsInv, Shape', ResolverShape', ListsFollow',
         UNCHANGED <<chIndexes, esIndexes, autodiscovery, decisions>>
  PROVE  DecisionsInv'
<1>1. DecisionsFollow'
  BY ResolutionsDependOn, Halves DEF DecisionsInv, DecisionsFollow
<1>2. DecisionsAreCurrent'
  BY <1>1 DEF DecisionsAreCurrent, DecisionsFollow, ListsFollow, ListedByResolver, Announcing
<1> QED BY <1>2 DEF DecisionsInv

LEMMA ResolverKeepsDecisions ==
  ASSUME DecisionsInv, ResolverStep
  PROVE  DecisionsInv'
<1> Resolver \in Readers
  BY TableResolverAssumption
<1> Shape /\ ResolverShape
  BY DEF DecisionsInv
<1> DecisionsFollow /\ ListsFollow
  BY Halves DEF DecisionsInv
<1>1. ASSUME NEW p \in Pipelines, NEW pattern \in DOMAIN Patterns, Resolve(p, pattern)
      PROVE  DecisionsInv'
  <2>1. PICK d \in Resolutions(p, pattern) :
             decisions' = [decisions EXCEPT ![p] =
               [q \in DOMAIN @ \union {pattern} |-> IF q = pattern THEN d ELSE @[q]]]
    BY <1>1 DEF Resolve
  <2>2. /\ UNCHANGED <<tables, unannounced, loop, adder, messages, reader>>
        /\ UNCHANGED <<observers, autodiscovery, chIndexes, esIndexes, resolver>>
    BY <1>1 DEF Resolve, discoveryVars, mapVars, settings
  <2>3. Shape' /\ ResolverShape'
    BY <2>1, <2>2 DEF Shape, ResolverShape
  <2>4. ListsFollow'
    BY <2>2 DEF ListsFollow, ListedByResolver, Announcing, Listed
  <2>5. DecisionsFollow'
    <3> SUFFICES ASSUME NEW q \in Pipelines, NEW other \in DOMAIN decisions'[q]
                 PROVE  decisions'[q][other] \in Resolutions(q, other)
      BY <2>2, ResolutionsDependOn DEF DecisionsFollow
    <3>1. CASE q # p
      BY <3>1, <2>1 DEF ResolverShape, DecisionsFollow
    <3>2. CASE q = p
      <4>1. decisions'[p] = [o \in DOMAIN decisions[p] \union {pattern} |->
                                IF o = pattern THEN d ELSE decisions[p][o]]
        BY <2>1 DEF ResolverShape
      <4>2. /\ DOMAIN decisions'[p] = {pattern} \union DOMAIN decisions[p]
            /\ decisions'[p][pattern] = d
            /\ other # pattern => decisions'[p][other] = decisions[p][other]
        BY <4>1, <3>2
      <4> QED BY <4>2, <3>2 DEF DecisionsFollow
    <3> QED BY <3>1, <3>2
  <2>6. DecisionsAreCurrent'
    BY <2>4, <2>5 DEF DecisionsAreCurrent, DecisionsFollow, ListsFollow, ListedByResolver,
                      Announcing
  <2> QED BY <2>3, <2>6 DEF DecisionsInv
<1>2. CASE ResolverWakes
  <2>1. /\ Shape' /\ ResolverShape' /\ resolver'.pc = "tables"
        /\ UNCHANGED <<chIndexes, esIndexes, autodiscovery, decisions>>
    BY <1>2 DEF ResolverWakes, Shape, ResolverShape, settings
  <2> QED BY <2>1, ListersKeepDecisions DEF ListsFollow
<1>3. CASE ResolverAccesses
  <2>1. /\ Shape' /\ DiscoveryStays /\ UNCHANGED messages
    BY <1>3, AccessShape DEF ResolverAccesses
  <2>2. /\ ResolverShape' /\ ListsFollow'
        /\ UNCHANGED <<chIndexes, esIndexes, autodiscovery, decisions>>
    BY <1>3, <2>1 DEF ResolverAccesses, ResolverShape, ListsFollow, ListedByResolver, Listed,
                      Announcing, DiscoveryStays, settings, resolverVars
  <2> QED BY <2>1, <2>2, ListersKeepDecisions
<1>4. CASE ResolverLoads
  <2>1. /\ Shape' /\ DiscoveryStays
        /\ resolver' = [pc |-> "indexes", ch |-> Listed(tables)]
    BY <1>4, AccessShape DEF ResolverLoads
  <2>2. /\ ResolverShape' /\ ListsFollow'
        /\ UNCHANGED <<chIndexes, esIndexes, autodiscovery, decisions>>
    BY <1>4, <2>1 DEF ResolverLoads, ResolverShape, ListsFollow, ListedByResolver, Listed,
                      DiscoveryStays, settings
  <2> QED BY <2>1, <2>2, ListersKeepDecisions
<1>5. CASE ResolverReloadsIndices \/ IndexManagerReloads \/ ChangeElastic
  <2>1. /\ UNCHANGED <<tables, unannounced, loop, adder, messages, reader>>
        /\ UNCHANGED <<observers, autodiscovery, chIndexes, esIndexes, decisions>>
    BY <1>5 DEF ResolverReloadsIndices, IndexManagerReloads, ChangeElastic, mapVars, settings
  <2>2. \/ resolver' = resolver
        \/ resolver.pc = "indexes" /\ resolver' = [resolver EXCEPT !.pc = "update"]
    BY <1>5 DEF ResolverReloadsIndices, IndexManagerReloads, ChangeElastic
  <2>3. Shape' /\ ResolverShape'
    BY <2>1, <2>2 DEF Shape, ResolverShape
  <2>4. ListsFollow'
    BY <2>1, <2>2 DEF ListsFollow, ListedByResolver, Announcing, Listed, ResolverShape
  <2> QED BY <2>1, <2>3, <2>4, ListersKeepDecisions
<1>6. CASE UpdateIndexes
  <2>1. /\ UNCHANGED <<tables, unannounced, loop, adder, messages, reader, observers>>
        /\ decisions' = NoDecisions /\ resolver.pc = "update"
        /\ chIndexes' = resolver.ch
        /\ resolver' = [pc |-> "select", ch |-> NoIndexes]
    BY <1>6 DEF UpdateIndexes, discoveryVars, mapVars, settings
  <2>2. Shape' /\ ResolverShape'
    BY <2>1 DEF Shape, ResolverShape, NoDecisions
  <2>3. ListsFollow'
    BY <2>1 DEF ListsFollow, ListedByResolver, Announcing, Listed
  <2>4. DecisionsFollow'
    BY <2>1 DEF DecisionsFollow, NoDecisions
  <2>5. DecisionsAreCurrent'
    BY <2>3, <2>4 DEF DecisionsAreCurrent, DecisionsFollow, ListsFollow, ListedByResolver,
                      Announcing
  <2> QED BY <2>2, <2>5 DEF DecisionsInv
<1> QED BY <1>1, <1>2, <1>3, <1>4, <1>5, <1>6 DEF ResolverStep, ResolverGoroutine

\* The invariant of the decisions is inductive.
LEMMA DecisionsInductive ==
  /\ Init /\ ResolverInit => DecisionsInv
  /\ DecisionsInv /\ [ResolverNext]_<<discoveryVars, resolverVars>> => DecisionsInv'
<1>1. Init /\ ResolverInit => DecisionsInv
  <2> SUFFICES ASSUME Init, ResolverInit
               PROVE  DecisionsInv
    OBVIOUS
  <2>1. Shape /\ ResolverShape
    BY InitShape DEF ResolverInit, ResolverShape, NoDecisions
  <2>2. Listed(tables) = NoIndexes
    BY DEF Init, NoTables, Listed, NoIndexes
  <2>3. DecisionsAreCurrent
    BY <2>2 DEF ResolverInit, DecisionsAreCurrent, NoDecisions
  <2> QED BY <2>1, <2>3 DEF DecisionsInv
<1>2. DecisionsInv /\ [ResolverNext]_<<discoveryVars, resolverVars>> => DecisionsInv'
  <2> SUFFICES ASSUME DecisionsInv, [ResolverNext]_<<discoveryVars, resolverVars>>
               PROVE  DecisionsInv'
    OBVIOUS
  <2>1. CASE DiscoveryNext /\ UNCHANGED resolverVars
    BY <2>1, DiscoveryFollowed, OthersKeepDecisions DEF DecisionsInv, resolverVars
  <2>2. ASSUME NEW r \in Readers \ {Resolver}, Access(r) \/ Load(r), UNCHANGED resolverVars
        PROVE  DecisionsInv'
    <3>1. /\ Shape' /\ DiscoveryStays /\ UNCHANGED messages
      BY <2>2, AccessShape DEF DecisionsInv
    <3>2. /\ ResolverShape' /\ ListsFollow'
          /\ UNCHANGED <<chIndexes, esIndexes, autodiscovery, decisions>>
      BY <2>2, <3>1, Halves
         DEF DecisionsInv, ResolverShape, ListsFollow, ListedByResolver, Listed,
             Announcing, DiscoveryStays, settings, resolverVars
    <3> QED BY <3>1, <3>2, ListersKeepDecisions
  <2>3. CASE ResolverStep
    BY <2>3, ResolverKeepsDecisions
  <2>4. CASE UNCHANGED <<discoveryVars, resolverVars>>
    BY <2>4, ReadersFollowed, OthersKeepDecisions
       DEF DecisionsInv, discoveryVars, mapVars, settings, resolverVars
  <2> QED BY <2>1, <2>2, <2>3, <2>4 DEF ResolverNext
<1> QED BY <1>1, <1>2

\* tableRegistryImpl.Resolve: a remembered decision is one the rules take for
\* the lists the resolver goes by now, and those lists are the published
\* tables unless somebody is about to say that they changed, or said nothing.
THEOREM DecisionsAreAlwaysCurrent == ResolverSpec => []DecisionsAreCurrent
<1>1. DecisionsInv => DecisionsAreCurrent
  BY DEF DecisionsInv
<1> QED BY <1>1, DecisionsInductive, PTL DEF ResolverSpec

-----------------------------------------------------------------------------
(* Merging the decisions of a pattern: DecisionRules.                      *)

\* A part of the common table, and a table of its own.
Shared(t, I) == [kind |-> "clickhouse", table |-> t, indexes |-> I, common |-> TRUE]
Own(t, i)    == Clickhouse(t, i, FALSE)

Lists == TargetLists \ {<<>>}

\* What SingleIndex and DefaultWildcard make of each list of targets.
LEMMA ConnectorsOf ==
  ASSUME NEW x
  PROVE  /\ Connectors(<<"clickhouse">>, x) = <<x>>
         /\ Connectors(<<"elasticsearch">>, x) = <<Elastic>>
         /\ Connectors(<<"clickhouse", "elasticsearch">>, x) = <<x, Elastic>>
         /\ Connectors(<<"elasticsearch", "clickhouse">>, x) = <<Elastic, x>>
BY DEF Connectors

\* Parts of one table go together; a table of its own with nothing of others.
LEMMA CompatibleTables ==
  ASSUME NEW t, NEW I, NEW i, NEW u, NEW J, NEW j, i # j
  PROVE  /\ Compatible(Shared(t, I), Shared(t, J))
         /\ ~Compatible(Shared(t, I), Own(u, j))
         /\ ~Compatible(Own(t, i), Shared(u, J))
         /\ ~Compatible(Own(t, i), Own(u, j))
BY DEF Compatible, Shared, Own, Clickhouse

\* Elasticsearch goes with itself and no table does.
LEMMA CompatibleElastic ==
  ASSUME NEW t, NEW I, NEW i
  PROVE  /\ Compatible(Elastic, Elastic) /\ Shared(t, I) # Elastic
         /\ ~Compatible(Shared(t, I), Elastic) /\ ~Compatible(Elastic, Shared(t, I))
         /\ ~Compatible(Own(t, i), Elastic) /\ ~Compatible(Elastic, Own(t, i))
BY DEF Compatible, Shared, Own, Clickhouse, Elastic

Use(connectors, a) == Decision("use", connectors, a)
Wider(l, indexes) == [l EXCEPT !.indexes = @ \union indexes]

\* mergeUseConnectors gives up: other numbers, or a connector without a match.
LEMMA MergeErrs ==
  ASSUME NEW l, NEW r, NEW a, NEW b, Len(l) # Len(r) \/ \E k \in DOMAIN r : ~HasMatch(r[k], l)
  PROVE  Merge(Use(l, a), Use(r, b)) = Error
<1>1. Use(l, a).connectors = l /\ Use(r, b).connectors = r
  BY DEF Decision, Use
<1> QED BY <1>1 DEF Merge

Matched(l, r) == Len(l) = Len(r) /\ \A k \in DOMAIN r : HasMatch(r[k], l)
Widened(l, r) == [k \in DOMAIN l |-> Wider(l[k], Added(l[k], r))]

\* Otherwise the indexes of each connector are widened, the kind and ab kept.
LEMMA MergeWidens ==
  ASSUME NEW l, NEW r, NEW a, NEW b, Matched(l, r)
  PROVE  Merge(Use(l, a), Use(r, b)) = Use(Widened(l, r), a)
<1> DEFINE d == Use(l, a)
           e == Use(r, b)
<1>1. d.kind # "error" /\ d.connectors = l /\ e.connectors = r
  BY DEF Decision, Use
<1>2. \A x : [d EXCEPT !.connectors = x] = Use(x, a)
  BY DEF Decision, Use
<1> HIDE DEF d, e
<1>3. WithIndexesOf(d, e) = Use(Widened(l, r), a)
  BY <1>1, <1>2 DEF WithIndexesOf, Wider, Widened
<1>4. Merge(d, e) = WithIndexesOf(d, e)
  BY <1>1 DEF Merge, Matched
<1> QED BY <1>3, <1>4 DEF d, e

\* Its connectors, if there are one or two.
LEMMA WidenedIs ==
  ASSUME NEW l, NEW r
  PROVE  /\ DOMAIN l = {1} => Widened(l, r) = <<Wider(l[1], Added(l[1], r))>>
         /\ DOMAIN l = {1, 2} =>
              Widened(l, r) = <<Wider(l[1], Added(l[1], r)), Wider(l[2], Added(l[2], r))>>
<1> DEFINE w(k) == Wider(l[k], Added(l[k], r))
<1>1. Widened(l, r) = [k \in DOMAIN l |-> w(k)]
  BY DEF Widened
<1> HIDE DEF w
<1>2. DOMAIN l = {1} => [k \in DOMAIN l |-> w(k)] = <<w(1)>>
  OBVIOUS
<1>3. DOMAIN l = {1, 2} => [k \in DOMAIN l |-> w(k)] = <<w(1), w(2)>>
  OBVIOUS
<1> QED BY <1>1, <1>2, <1>3 DEF w

\* One connector each.
LEMMA MergeOfOne ==
  ASSUME NEW x, NEW y, NEW a, NEW b, Compatible(x, y)
  PROVE  Merge(Use(<<x>>, a), Use(<<y>>, b)) = Use(<<Wider(x, y.indexes)>>, a)
<1> DEFINE l == <<x>>
           r == <<y>>
<1>1. /\ DOMAIN l = {1} /\ DOMAIN r = {1} /\ Len(l) = Len(r) /\ l[1] = x /\ r[1] = y
  OBVIOUS
<1> HIDE DEF l, r
<1>2. HasMatch(y, l) /\ Added(x, r) = y.indexes
  BY <1>1 DEF HasMatch, Added
<1>3. Matched(l, r)
  BY <1>1, <1>2 DEF Matched
<1>4. Widened(l, r) = <<Wider(x, y.indexes)>>
  BY <1>1, <1>2, WidenedIs
<1> QED BY <1>3, <1>4, MergeWidens DEF l, r

\* Two of each, one of them Elasticsearch on both sides.
LEMMA MergeBeforeElastic ==
  ASSUME NEW x, NEW y, NEW a, NEW b, Compatible(x, y), ~Compatible(x, Elastic),
         ~Compatible(Elastic, y)
  PROVE  Merge(Use(<<x, Elastic>>, a), Use(<<y, Elastic>>, b)) = Use(<<Wider(x, y.indexes), Elastic>>, a)
<1> DEFINE l == <<x, Elastic>>
           r == <<y, Elastic>>
<1>1. /\ DOMAIN l = {1, 2} /\ DOMAIN r = {1, 2} /\ Len(l) = Len(r)
      /\ l[1] = x /\ l[2] = Elastic /\ r[1] = y /\ r[2] = Elastic
  OBVIOUS
<1> HIDE DEF l, r
<1>2. Compatible(Elastic, Elastic)
  BY CompatibleElastic
<1>3. \A k \in DOMAIN r : HasMatch(r[k], l)
  BY <1>1, <1>2 DEF HasMatch
<1>4. Added(x, r) = y.indexes /\ Added(Elastic, r) = Elastic.indexes
  BY <1>1, <1>2 DEF Added
<1>5. Wider(Elastic, Elastic.indexes) = Elastic
  BY DEF Wider, Elastic
<1>6. Matched(l, r)
  BY <1>1, <1>3 DEF Matched
<1>7. Widened(l, r) = <<Wider(x, y.indexes), Elastic>>
  BY <1>1, <1>4, <1>5, WidenedIs
<1> QED BY <1>6, <1>7, MergeWidens DEF l, r

\* The same, with Elasticsearch first.
LEMMA MergeAfterElastic ==
  ASSUME NEW x, NEW y, NEW a, NEW b, Compatible(x, y), ~Compatible(x, Elastic),
         ~Compatible(Elastic, y)
  PROVE  Merge(Use(<<Elastic, x>>, a), Use(<<Elastic, y>>, b)) = Use(<<Elastic, Wider(x, y.indexes)>>, a)
<1> DEFINE l == <<Elastic, x>>
           r == <<Elastic, y>>
<1>1. /\ DOMAIN l = {1, 2} /\ DOMAIN r = {1, 2} /\ Len(l) = Len(r)
      /\ l[2] = x /\ l[1] = Elastic /\ r[2] = y /\ r[1] = Elastic
  OBVIOUS
<1> HIDE DEF l, r
<1>2. Compatible(Elastic, Elastic)
  BY CompatibleElastic
<1>3. \A k \in DOMAIN r : HasMatch(r[k], l)
  BY <1>1, <1>2 DEF HasMatch
<1>4. Added(x, r) = y.indexes /\ Added(Elastic, r) = Elastic.indexes
  BY <1>1, <1>2 DEF Added
<1>5. Wider(Elastic, Elastic.indexes) = Elastic
  BY DEF Wider, Elastic
<1>6. Matched(l, r)
  BY <1>1, <1>3 DEF Matched
<1>7. Widened(l, r) = <<Elastic, Wider(x, y.indexes)>>
  BY <1>1, <1>4, <1>5, WidenedIs
<1> QED BY <1>6, <1>7, MergeWidens DEF l, r

\* The decision for indexes I of the common table.
No == FALSE
Joint(c, T, I) == Use(Connectors(T, Shared(c.commonTable, I)), No)

\* A part of a table, with the indexes of another.
LEMMA WiderTable ==
  ASSUME NEW t, NEW I, NEW J
  PROVE  Wider(Shared(t, I), Shared(t, J).indexes) = Shared(t, I \union J)
<1>1. Shared(t, J).indexes = J /\ Shared(t, I).indexes = I
  BY DEF Shared
<1>2. ASSUME NEW K, NEW b
      PROVE  [[kind |-> "clickhouse", table |-> t, indexes |-> I, common |-> b] EXCEPT !.indexes = K]
               = [kind |-> "clickhouse", table |-> t, indexes |-> K, common |-> b]
  OBVIOUS
<1>3. \A K : [Shared(t, I) EXCEPT !.indexes = K] = Shared(t, K)
  BY <1>2 DEF Shared
<1> QED BY <1>1, <1>3 DEF Wider

\* Decisions for the common table with the same targets are joined.
LEMMA MergeAlike ==
  ASSUME NEW c, NEW T \in Lists, NEW I, NEW J
  PROVE  Merge(Joint(c, T, I), Joint(c, T, J)) = Joint(c, T, I \union J)
<1> DEFINE x == Shared(c.commonTable, I)
           y == Shared(c.commonTable, J)
           z == Wider(x, y.indexes)
<1>1. /\ Compatible(x, y) /\ Compatible(Elastic, Elastic) /\ x # Elastic
      /\ ~Compatible(x, Elastic) /\ ~Compatible(Elastic, y)
  <2>1. \E i, j \in BOOLEAN : i # j
    OBVIOUS
  <2> QED BY <2>1, CompatibleTables, CompatibleElastic
<1>2. /\ Joint(c, T, I) = Use(Connectors(T, x), No)
      /\ Joint(c, T, J) = Use(Connectors(T, y), No)
      /\ Joint(c, T, I \union J) = Use(Connectors(T, z), No)
  BY WiderTable DEF Joint
<1>3. Wider(Elastic, Elastic.indexes) = Elastic
  BY DEF Wider, Elastic
<1> HIDE DEF x, y, z
<1>4. CASE T = <<"clickhouse">>
  <2>1. Merge(Use(<<x>>, No), Use(<<y>>, No)) = Use(<<z>>, No)
    BY <1>1, MergeOfOne DEF z
  <2> QED BY <1>2, <1>4, <2>1, ConnectorsOf
<1>5. CASE T = <<"elasticsearch">>
  <2>1. Merge(Use(<<Elastic>>, No), Use(<<Elastic>>, No)) = Use(<<Elastic>>, No)
    BY <1>1, <1>3, MergeOfOne
  <2> QED BY <1>2, <1>5, <2>1, ConnectorsOf
<1>6. CASE T = <<"clickhouse", "elasticsearch">>
  <2>1. Merge(Use(<<x, Elastic>>, No), Use(<<y, Elastic>>, No)) = Use(<<z, Elastic>>, No)
    BY <1>1, MergeBeforeElastic DEF z
  <2> QED BY <1>2, <1>6, <2>1, ConnectorsOf
<1>7. CASE T = <<"elasticsearch", "clickhouse">>
  <2>1. Merge(Use(<<Elastic, x>>, No), Use(<<Elastic, y>>, No)) = Use(<<Elastic, z>>, No)
    BY <1>1, MergeAfterElastic DEF z
  <2> QED BY <1>2, <1>7, <2>1, ConnectorsOf
<1> QED BY <1>4, <1>5, <1>6, <1>7 DEF Lists, TargetLists

\* Tables that cannot be joined: one of the lists has one.
LEMMA MergeRefused ==
  ASSUME NEW T \in Lists, NEW U \in Lists, NEW x, NEW y, NEW a, NEW b,
         ~Compatible(x, y), ~Compatible(x, Elastic), ~Compatible(Elastic, y),
         T # <<"elasticsearch">> \/ U # <<"elasticsearch">>
  PROVE  Merge(Use(Connectors(T, x), a), Use(Connectors(U, y), b)) = Error
<1> DEFINE l == Connectors(T, x)
           r == Connectors(U, y)
<1>1. /\ l = <<x>> \/ l = <<Elastic>> \/ l = <<x, Elastic>> \/ l = <<Elastic, x>>
      /\ r = <<y>> \/ r = <<Elastic>> \/ r = <<y, Elastic>> \/ r = <<Elastic, y>>
      /\ l # <<Elastic>> \/ r # <<Elastic>> \/ l = <<x>> \/ r = <<y>>
  BY ConnectorsOf DEF Lists, TargetLists
<1> HIDE DEF l, r
<1>2. ASSUME Len(l) = Len(r)
      PROVE  \E k \in DOMAIN r : ~HasMatch(r[k], l)
  <2>1. CASE l = <<x>>
    <3>1. r = <<y>> \/ r = <<Elastic>>
      BY <1>1, <1>2, <2>1
    <3>2. 1 \in DOMAIN r /\ (r[1] = y \/ r[1] = Elastic) /\ l[1] = x /\ DOMAIN l = {1}
      BY <2>1, <3>1
    <3> QED BY <3>2 DEF HasMatch
  <2>2. CASE l = <<Elastic>>
    <3>1. r = <<y>>
      <4>1. <<x>> = <<Elastic>> => x = Elastic /\ Compatible(Elastic, Elastic)
        BY CompatibleElastic
      <4>2. l # <<x>> /\ (r = <<y>> \/ r # <<Elastic>>)
        BY <1>1, <2>2, <4>1
      <4>3. r # <<y, Elastic>> /\ r # <<Elastic, y>>
        BY <1>2, <2>2
      <4> QED BY <1>1, <4>2, <4>3
    <3>2. 1 \in DOMAIN r /\ r[1] = y /\ l[1] = Elastic /\ DOMAIN l = {1}
      BY <2>2, <3>1
    <3> QED BY <3>2 DEF HasMatch
  <2>3. CASE l = <<x, Elastic>> \/ l = <<Elastic, x>>
    <3>1. r = <<y, Elastic>> \/ r = <<Elastic, y>>
      BY <1>1, <1>2, <2>3
    <3>2. \E k \in DOMAIN r : r[k] = y
      <4>1. <<y, Elastic>>[1] = y /\ 1 \in DOMAIN <<y, Elastic>>
        OBVIOUS
      <4>2. <<Elastic, y>>[2] = y /\ 2 \in DOMAIN <<Elastic, y>>
        OBVIOUS
      <4> QED BY <3>1, <4>1, <4>2
    <3>3. \A k \in DOMAIN l : l[k] = x \/ l[k] = Elastic
      BY <2>3
    <3> QED BY <3>2, <3>3 DEF HasMatch
  <2> QED BY <1>1, <2>1, <2>2, <2>3
<1>3. Merge(Use(l, a), Use(r, b)) = Error
  BY <1>2, MergeErrs
<1> QED BY <1>3 DEF l, r

-----------------------------------------------------------------------------
(* The decisions of the ladder. *)

\* What the configuration says, for a pipeline.
WellConfigured(c, p) ==
  /\ \A i \in DOMAIN c.indexes : c.indexes[i][p] \in TargetLists
  /\ c.defaults[p] \in TargetLists

JointLists(c, p) ==
  {<<"elasticsearch">>, <<"clickhouse">>} \union {T \in {c.defaults[p]} : T # <<>>}

IsOwn(d, i) ==
  \E T \in Lists \ {<<"elasticsearch">>} : \E t, a : d = Use(Connectors(T, Own(t, i)), a)

IsJoint(c, p, d, i) == \E T \in JointLists(c, p) : d = Joint(c, T, {i})

\* The connector of one index in the common table.
LEMMA SharedIsClickhouse == ASSUME NEW t, NEW i PROVE Shared(t, {i}) = Clickhouse(t, i, TRUE)
BY DEF Shared, Clickhouse

\* The ladder refuses an index, closes it, gives it to the common table or to
\* Elasticsearch, or to a table of its own.
LEMMA LadderKinds ==
  ASSUME NEW c, NEW p, NEW i, WellConfigured(c, p)
  PROVE  LET d == Ladder(c, p, i) IN d = Error \/ d = Closed \/ IsJoint(c, p, d, i) \/ IsOwn(d, i)
<1> DEFINE d == Ladder(c, p, i)
           x == Shared(c.commonTable, {i})
<1>1. Decision("use", <<Elastic>>, FALSE) = Joint(c, <<"elasticsearch">>, {i})
  BY ConnectorsOf DEF Joint, Use, No
<1>2. Decision("use", <<Clickhouse(c.commonTable, i, TRUE)>>, FALSE) = Joint(c, <<"clickhouse">>, {i})
  BY ConnectorsOf, SharedIsClickhouse DEF Joint, Use, No
<1>3. CASE d = SingleIndex(c, p, i) /\ i \in DOMAIN c.indexes /\ c.indexes[i][p] # <<>>
  <2> DEFINE T == c.indexes[i][p]
             U == IF p = "ingest" /\ Len(T) = 2 THEN <<"clickhouse", "elasticsearch">> ELSE T
             a == p = "query" /\ Len(T) = 2
             t == TableName(c, i)
  <2>1. T \in Lists
    BY <1>3 DEF WellConfigured, Lists
  <2>2. d = Use(Connectors(U, Own(t, i)), a)
    BY <1>3 DEF SingleIndex, TargetsOf, Use, Own
  <2>3. CASE T = <<"elasticsearch">>
    <3>1. U = <<"elasticsearch">> /\ a = No
      BY <2>3 DEF No
    <3>2. d = Joint(c, <<"elasticsearch">>, {i})
      BY <2>2, <3>1, ConnectorsOf DEF Joint
    <3> QED BY <3>2 DEF IsJoint, JointLists
  <2>4. CASE T # <<"elasticsearch">>
    <3>1. U \in Lists \ {<<"elasticsearch">>}
      BY <2>1, <2>4 DEF Lists, TargetLists
    <3> HIDE DEF U, a, t
    <3> QED BY <2>2, <3>1 DEF IsOwn
  <2> QED BY <2>3, <2>4
<1>4. CASE d = DefaultWildcard(c, p, i)
  <2> DEFINE T == c.defaults[p]
             t == TableName(c, i)
  <2>1. T \in TargetLists
    BY DEF WellConfigured
  <2>2. CASE T = <<>>
    BY <1>4, <2>2 DEF DefaultWildcard
  <2>3. CASE T # <<>> /\ c.commonForWildcard
    <3>1. d = Decision("use", Connectors(T, Clickhouse(c.commonTable, i, TRUE)), FALSE)
      BY <1>4, <2>3 DEF DefaultWildcard
    <3>2. d = Joint(c, T, {i})
      BY <3>1, SharedIsClickhouse DEF Joint, Use, No
    <3> QED BY <2>3, <3>2 DEF IsJoint, JointLists
  <2>4. CASE T # <<>> /\ ~c.commonForWildcard
    <3>1. d = Use(Connectors(T, Own(t, i)), No)
      BY <1>4, <2>4 DEF DefaultWildcard, Use, Own, No
    <3>2. CASE T = <<"elasticsearch">>
      <4>1. d = Joint(c, <<"elasticsearch">>, {i})
        BY <3>1, <3>2, ConnectorsOf DEF Joint
      <4> QED BY <4>1 DEF IsJoint, JointLists
    <3>3. CASE T # <<"elasticsearch">>
      <4> HIDE DEF t
      <4> QED BY <2>1, <2>4, <3>1, <3>3 DEF IsOwn, Lists
    <3> QED BY <3>2, <3>3
  <2> QED BY <2>2, <2>3, <2>4
<1>5. \/ d = Decision("use", <<Elastic>>, FALSE) \/ d = Closed \/ d = Error
      \/ d = SingleIndex(c, p, i) /\ i \in DOMAIN c.indexes /\ c.indexes[i][p] # <<>>
      \/ d = Decision("use", <<Clickhouse(c.commonTable, i, TRUE)>>, FALSE)
      \/ d = DefaultWildcard(c, p, i)
  BY DEF Ladder, IsDisabledInConfig, TargetsOf
<1> HIDE DEF d
<1>6. CASE \/ d = Decision("use", <<Elastic>>, FALSE)
           \/ d = Decision("use", <<Clickhouse(c.commonTable, i, TRUE)>>, FALSE)
  <2>1. d = Joint(c, <<"elasticsearch">>, {i}) \/ d = Joint(c, <<"clickhouse">>, {i})
    BY <1>1, <1>2, <1>6
  <2> QED BY <2>1 DEF IsJoint, JointLists, d
<1> QED BY <1>3, <1>4, <1>5, <1>6 DEF d

\* The kinds of the decisions above.
LEMMA Kinds ==
  ASSUME NEW c, NEW T, NEW I, NEW l, NEW a
  PROVE  /\ Use(l, a).kind = "use" /\ Joint(c, T, I).kind = "use"
         /\ Closed.kind = "closed" /\ Error.kind = "error"
BY DEF Use, Joint, Decision, Closed, Error

\* A pattern's decisions join only if they have the same targets.
LEMMA MergeUnlike ==
  ASSUME NEW c, NEW p, WellConfigured(c, p), NEW T \in JointLists(c, p),
         NEW U \in JointLists(c, p), T # U, NEW I, NEW J
  PROVE  Merge(Joint(c, T, I), Joint(c, U, J)) = Error
<1> DEFINE x == Shared(c.commonTable, I)
           y == Shared(c.commonTable, J)
           l == Connectors(T, x)
           r == Connectors(U, y)
<1>1. T \in Lists /\ U \in Lists
  BY DEF JointLists, WellConfigured, Lists, TargetLists
<1>2. /\ l = <<x>> \/ l = <<Elastic>> \/ l = <<x, Elastic>> \/ l = <<Elastic, x>>
      /\ r = <<y>> \/ r = <<Elastic>> \/ r = <<y, Elastic>> \/ r = <<Elastic, y>>
  BY <1>1, ConnectorsOf DEF Lists, TargetLists
<1>3. /\ T = <<"clickhouse">> => l = <<x>>
      /\ T = <<"elasticsearch">> => l = <<Elastic>>
      /\ U = <<"clickhouse">> => r = <<y>>
      /\ U = <<"elasticsearch">> => r = <<Elastic>>
  BY ConnectorsOf
<1>4. \/ T = <<"clickhouse">> /\ U = <<"elasticsearch">>
      \/ U = <<"clickhouse">> /\ T = <<"elasticsearch">>
      \/ T \in {<<"clickhouse">>, <<"elasticsearch">>} /\ U = c.defaults[p]
             /\ U \notin {<<"clickhouse">>, <<"elasticsearch">>}
      \/ U \in {<<"clickhouse">>, <<"elasticsearch">>} /\ T = c.defaults[p]
             /\ T \notin {<<"clickhouse">>, <<"elasticsearch">>}
  BY DEF JointLists
<1>5. /\ T \notin {<<"clickhouse">>, <<"elasticsearch">>} => l = <<x, Elastic>> \/ l = <<Elastic, x>>
      /\ U \notin {<<"clickhouse">>, <<"elasticsearch">>} => r = <<y, Elastic>> \/ r = <<Elastic, y>>
  BY <1>1, ConnectorsOf DEF Lists, TargetLists
<1>6. ~Compatible(x, Elastic) /\ ~Compatible(Elastic, y)
  BY CompatibleElastic
<1>7. Joint(c, T, I) = Use(l, No) /\ Joint(c, U, J) = Use(r, No)
  BY DEF Joint
<1> HIDE DEF l, r, x, y
<1>8. \/ l = <<x>> /\ r = <<Elastic>>
      \/ l = <<Elastic>> /\ r = <<y>>
      \/ Len(l) # Len(r)
  <2>1. /\ l = <<x>> \/ l = <<Elastic>> => Len(l) = 1
        /\ r = <<y>> \/ r = <<Elastic>> => Len(r) = 1
        /\ l = <<x, Elastic>> \/ l = <<Elastic, x>> => Len(l) = 2
        /\ r = <<y, Elastic>> \/ r = <<Elastic, y>> => Len(r) = 2
    OBVIOUS
  <2>2. CASE /\ T \in {<<"clickhouse">>, <<"elasticsearch">>}
             /\ U \in {<<"clickhouse">>, <<"elasticsearch">>}
    <3>1. \/ T = <<"clickhouse">> /\ U = <<"elasticsearch">>
          \/ U = <<"clickhouse">> /\ T = <<"elasticsearch">>
      BY <1>4, <2>2
    <3> QED BY <1>3, <3>1
  <2>3. CASE /\ T \in {<<"clickhouse">>, <<"elasticsearch">>}
             /\ U \notin {<<"clickhouse">>, <<"elasticsearch">>}
    BY <1>3, <1>5, <2>1, <2>3
  <2>4. CASE /\ T \notin {<<"clickhouse">>, <<"elasticsearch">>}
             /\ U \in {<<"clickhouse">>, <<"elasticsearch">>}
    BY <1>3, <1>5, <2>1, <2>4
  <2> QED BY <1>4, <2>2, <2>3, <2>4
<1>9. Len(l) = Len(r) => \E k \in DOMAIN r : ~HasMatch(r[k], l)
  BY <1>6, <1>8 DEF HasMatch
<1> QED BY <1>7, <1>9, MergeErrs

\* A table of its own joins nothing that belongs to another index.
LEMMA MergeOwn ==
  ASSUME NEW c, NEW p, WellConfigured(c, p), NEW i, NEW d, IsOwn(d, i),
         NEW T \in JointLists(c, p), NEW I
  PROVE  /\ Merge(d, Joint(c, T, I)) = Error /\ Merge(Joint(c, T, I), d) = Error
         /\ d # Joint(c, T, I)
<1>1. T \in Lists
  BY DEF JointLists, WellConfigured, Lists, TargetLists
<1>2. PICK U \in Lists \ {<<"elasticsearch">>} : \E t, a : d = Use(Connectors(U, Own(t, i)), a)
  BY DEF IsOwn
<1>3. PICK t, a : d = Use(Connectors(U, Own(t, i)), a)
  BY <1>2
<1> DEFINE x == Own(t, i)
           z == Shared(c.commonTable, I)
<1>4. ~Compatible(x, z) /\ ~Compatible(z, x)
  <2>1. \E j : j # i
    <3>1. TRUE # FALSE
      OBVIOUS
    <3> QED BY <3>1
  <2> QED BY <2>1, CompatibleTables
<1>5. /\ ~Compatible(x, Elastic) /\ ~Compatible(Elastic, x)
      /\ ~Compatible(z, Elastic) /\ ~Compatible(Elastic, z)
  BY CompatibleElastic
<1>6. Joint(c, T, I) = Use(Connectors(T, z), No)
  BY DEF Joint
<1> HIDE DEF x, z
<1>7. Merge(d, Joint(c, T, I)) = Error
  BY <1>1, <1>3, <1>4, <1>5, <1>6, MergeRefused DEF x
<1>8. Merge(Joint(c, T, I), d) = Error
  BY <1>1, <1>3, <1>4, <1>5, <1>6, MergeRefused DEF x
<1>9. d # Joint(c, T, I)
  <2>1. Merge(Joint(c, T, I), Joint(c, T, I)) = Joint(c, T, I \union I)
    BY <1>1, MergeAlike
  <2>2. Joint(c, T, I \union I) # Error
    BY Kinds
  <2> QED BY <1>7, <2>1, <2>2
<1> QED BY <1>7, <1>8, <1>9

\* Nor do two tables of their own.
LEMMA MergeOwns ==
  ASSUME NEW i, NEW j, i # j, NEW d, IsOwn(d, i), NEW e, IsOwn(e, j)
  PROVE  Merge(d, e) = Error
<1>1. PICK U \in Lists \ {<<"elasticsearch">>} : \E t, a : d = Use(Connectors(U, Own(t, i)), a)
  BY DEF IsOwn
<1>2. PICK t, a : d = Use(Connectors(U, Own(t, i)), a)
  BY <1>1
<1>3. PICK V \in Lists \ {<<"elasticsearch">>} : \E u, b : e = Use(Connectors(V, Own(u, j)), b)
  BY DEF IsOwn
<1>4. PICK u, b : e = Use(Connectors(V, Own(u, j)), b)
  BY <1>3
<1>5. /\ ~Compatible(Own(t, i), Own(u, j))
      /\ ~Compatible(Own(t, i), Elastic) /\ ~Compatible(Elastic, Own(u, j))
  BY CompatibleTables, CompatibleElastic
<1> QED BY <1>2, <1>4, <1>5, MergeRefused

\* What merging comes to, whatever the order: one index decides for itself;
\* several have to belong to the common table, with the same targets.
AllJoint(c, p, T, S) == \A i \in S : Ladder(c, p, i) = Joint(c, T, {i})

MergedFrom(c, p, S, m) ==
  /\ S = {} => m = Closed
  /\ \A i \in S : S = {i} => m = Ladder(c, p, i)
  /\ (\E i, j \in S : i # j) =>
       \/ \E T \in JointLists(c, p) : AllJoint(c, p, T, S) /\ m = Joint(c, T, S)
       \/ m = Error /\ \A T \in JointLists(c, p) : ~AllJoint(c, p, T, S)

\* One index more.
LEMMA MergeStep ==
  ASSUME NEW c, NEW p, WellConfigured(c, p), NEW S, NEW j, j \notin S, NEW m,
         MergedFrom(c, p, S, m),
         \A i \in S \union {j} : Ladder(c, p, i).kind \notin {"closed", "error"}
  PROVE  MergedFrom(c, p, S \union {j},
                    IF m.kind = "closed" THEN Ladder(c, p, j) ELSE Merge(m, Ladder(c, p, j)))
<1> DEFINE d(i) == Ladder(c, p, i)
           n == IF m.kind = "closed" THEN d(j) ELSE Merge(m, d(j))
           R == S \union {j}
<1>1. \A i \in R : IsJoint(c, p, d(i), i) \/ IsOwn(d(i), i)
  BY LadderKinds, Kinds
<1>2. \A T \in JointLists(c, p) : T \in Lists
  BY DEF JointLists, WellConfigured, Lists, TargetLists
<1> HIDE DEF d
<1>3. CASE S = {}
  <2>1. n = d(j) /\ R = {j}
    BY <1>3, Kinds DEF MergedFrom
  <2> QED BY <2>1 DEF MergedFrom, d
<1>4. ASSUME NEW i \in S, S = {i}
      PROVE  MergedFrom(c, p, R, n)
  <2>1. m = d(i) /\ i # j /\ n = Merge(d(i), d(j)) /\ R = {i, j}
    BY <1>4 DEF MergedFrom, d
  <2>2. ASSUME NEW T \in JointLists(c, p), d(i) = Joint(c, T, {i}),
               NEW U \in JointLists(c, p), d(j) = Joint(c, U, {j}), T = U
        PROVE  MergedFrom(c, p, R, n)
    <3>1. n = Joint(c, T, R)
      BY <1>2, <2>1, <2>2, MergeAlike
    <3>2. AllJoint(c, p, T, R)
      BY <2>1, <2>2 DEF AllJoint, d
    <3> QED BY <2>1, <3>1, <3>2 DEF MergedFrom
  <2>3. ASSUME n = Error, \A T \in JointLists(c, p) : ~AllJoint(c, p, T, R)
        PROVE  MergedFrom(c, p, R, n)
    BY <2>1, <2>3 DEF MergedFrom
  <2>4. ASSUME NEW T \in JointLists(c, p), d(i) = Joint(c, T, {i}),
               NEW U \in JointLists(c, p), d(j) = Joint(c, U, {j}), T # U
        PROVE  MergedFrom(c, p, R, n)
    <3>1. n = Error
      BY <2>1, <2>4, MergeUnlike
    <3>2. ASSUME NEW V \in JointLists(c, p), AllJoint(c, p, V, R)
          PROVE  FALSE
      <4>1. Joint(c, V, {i}) = Joint(c, T, {i}) /\ Joint(c, V, {j}) = Joint(c, U, {j})
        BY <2>1, <2>4, <3>2 DEF AllJoint, d
      <4>2. Merge(Joint(c, V, {i}), Joint(c, V, {j})) = Error
        BY <4>1, <2>4, MergeUnlike
      <4>3. Merge(Joint(c, V, {i}), Joint(c, V, {j})) = Joint(c, V, {i} \union {j})
        BY <1>2, MergeAlike
      <4> QED BY <4>2, <4>3, Kinds
    <3> QED BY <2>3, <3>1, <3>2
  <2>5. CASE IsOwn(d(i), i) \/ IsOwn(d(j), j)
    <3>1. \A T \in JointLists(c, p) : ~AllJoint(c, p, T, R)
      BY <2>1, <2>5, MergeOwn DEF AllJoint, d
    <3>2. n = Error
      <4>1. CASE IsOwn(d(i), i) /\ IsOwn(d(j), j)
        BY <2>1, <4>1, MergeOwns
      <4>2. ASSUME IsOwn(d(i), i), NEW T \in JointLists(c, p), d(j) = Joint(c, T, {j})
            PROVE  n = Error
        BY <2>1, <4>2, MergeOwn
      <4>3. ASSUME IsOwn(d(j), j), NEW T \in JointLists(c, p), d(i) = Joint(c, T, {i})
            PROVE  n = Error
        BY <2>1, <4>3, MergeOwn
      <4>4. i \in R /\ j \in R
        BY <2>1
      <4> QED BY <1>1, <2>5, <4>1, <4>2, <4>3, <4>4 DEF IsJoint
    <3> QED BY <2>3, <3>1, <3>2
  <2>6. i \in R /\ j \in R
    BY <2>1
  <2> QED BY <1>1, <2>2, <2>4, <2>5, <2>6 DEF IsJoint
<1>5. ASSUME NEW i \in S, NEW k \in S, i # k
      PROVE  MergedFrom(c, p, R, n)
  <2>1. i \in R /\ j \in R /\ i # j
    OBVIOUS
  <2>2. ASSUME n = Error, \A T \in JointLists(c, p) : ~AllJoint(c, p, T, R)
        PROVE  MergedFrom(c, p, R, n)
    BY <2>1, <2>2 DEF MergedFrom
  <2>3. CASE m = Error /\ \A T \in JointLists(c, p) : ~AllJoint(c, p, T, S)
    <3>1. n = Error
      BY <2>3, Kinds DEF Merge
    <3> QED BY <2>2, <2>3, <3>1 DEF AllJoint
  <2>4. ASSUME NEW T \in JointLists(c, p), AllJoint(c, p, T, S), m = Joint(c, T, S)
        PROVE  MergedFrom(c, p, R, n)
    <3>1. n = Merge(Joint(c, T, S), d(j))
      BY <2>4, Kinds
    <3>2. CASE IsOwn(d(j), j)
      <4>1. n = Error
        BY <3>1, <3>2, MergeOwn
      <4>2. \A U \in JointLists(c, p) : ~AllJoint(c, p, U, R)
        BY <2>1, <3>2, MergeOwn DEF AllJoint, d
      <4> QED BY <2>2, <4>1, <4>2
    <3>3. ASSUME NEW U \in JointLists(c, p), d(j) = Joint(c, U, {j}), T = U
          PROVE  MergedFrom(c, p, R, n)
      <4>1. n = Joint(c, T, R)
        BY <1>2, <3>1, <3>3, MergeAlike
      <4>2. AllJoint(c, p, T, R)
        BY <2>4, <3>3 DEF AllJoint, d
      <4> QED BY <2>1, <4>1, <4>2 DEF MergedFrom
    <3>4. ASSUME NEW U \in JointLists(c, p), d(j) = Joint(c, U, {j}), T # U
          PROVE  MergedFrom(c, p, R, n)
      <4>1. n = Error
        BY <3>1, <3>4, MergeUnlike
      <4>2. ASSUME NEW V \in JointLists(c, p), AllJoint(c, p, V, R)
            PROVE  FALSE
        <5>1. Joint(c, V, {i}) = Joint(c, T, {i}) /\ Joint(c, V, {j}) = Joint(c, U, {j})
          BY <2>1, <2>4, <3>4, <4>2 DEF AllJoint, d
        <5>2. Merge(Joint(c, V, {i}), Joint(c, V, {j})) = Error
          BY <5>1, <3>4, MergeUnlike
        <5>3. Merge(Joint(c, V, {i}), Joint(c, V, {j})) = Joint(c, V, {i} \union {j})
          BY <1>2, MergeAlike
        <5> QED BY <5>2, <5>3, Kinds
      <4> QED BY <2>2, <4>1, <4>2
    <3> QED BY <1>1, <2>1, <3>2, <3>3, <3>4 DEF IsJoint
  <2> QED BY <1>5, <2>3, <2>4 DEF MergedFrom
<1> QED BY <1>3, <1>4, <1>5 DEF d

-----------------------------------------------------------------------------
(* Merging a sequence. *)

\* merged of DecisionRules, for the first k decisions.
IsMerging(f, ds, k) ==
  f = [q \in 0 .. k |-> IF q = 0 THEN Closed
                        ELSE IF ds[q].kind = "closed" THEN f[q - 1]
                        ELSE IF f[q - 1].kind = "closed" THEN ds[q]
                        ELSE Merge(f[q - 1], ds[q])]

\* A set of numbers has a least one (for the inductions below).
LEMMA LeastNatural ==
  ASSUME NEW T \in SUBSET Nat, T # {}
  PROVE  \E n \in T : \A k \in T : n <= k
<1> DEFINE Less == {p \in Nat \X Nat : p[1] < p[2]}
<1>1. OpToRel(<, Nat) = Less
  BY DEF OpToRel
<1>2. IsWellFoundedOn(Less, Nat)
  BY <1>1, NatLessThanWellFounded
<1> HIDE DEF Less
<1>3. PICK n \in T : \A y \in T : ~ (<<y, n>> \in Less)
  BY <1>2, WFMin
<1>4. \A y \in T : ~ (y < n)
  BY <1>3 DEF Less
<1> QED BY <1>4

\* There is such a function, for any k: if not, consider the least k.
LEMMA MergingExists ==
  ASSUME NEW ds, NEW k \in Nat
  PROVE  \E f : IsMerging(f, ds, k)
<1> DEFINE bad == {i \in Nat : ~ \E f : IsMerging(f, ds, i)}
<1> SUFFICES ASSUME bad # {}
             PROVE  FALSE
  OBVIOUS
<1>1. PICK n \in bad : \A i \in bad : n <= i
  <2> HIDE DEF bad
  <2>1. bad \in SUBSET Nat
    BY DEF bad
  <2> QED BY <2>1, LeastNatural
<1>2. CASE n = 0
  <2> DEFINE f == [i \in 0 .. 0 |-> Closed]
  <2>1. IsMerging(f, ds, 0)
    BY DEF IsMerging
  <2> QED BY <1>2, <2>1
<1>3. CASE n # 0
  <2>1. n - 1 \in Nat /\ n - 1 \notin bad
    BY <1>1, <1>3
  <2>2. PICK f : IsMerging(f, ds, n - 1)
    BY <2>1
  <2> DEFINE next(m, d) == IF d.kind = "closed" THEN m ELSE IF m.kind = "closed" THEN d ELSE Merge(m, d)
             g == [i \in 0 .. n |-> IF i = n THEN next(f[n - 1], ds[n]) ELSE f[i]]
  <2>3. \A i \in 0 .. (n - 1) : f[i] = IF i = 0 THEN Closed ELSE next(f[i - 1], ds[i])
    BY <2>1, <2>2 DEF IsMerging
  <2>4. \A i \in 0 .. n : g[i] = IF i = 0 THEN Closed ELSE next(g[i - 1], ds[i])
    <3> HIDE DEF next
    <3> QED BY <1>3, <2>1, <2>3
  <2>5. g = [i \in 0 .. n |-> IF i = 0 THEN Closed ELSE next(g[i - 1], ds[i])]
    <3> HIDE DEF next
    <3> QED BY <2>4
  <2>6. IsMerging(g, ds, n)
    <3> HIDE DEF g
    <3> QED BY <2>5 DEF IsMerging
  <2> QED BY <2>6
<1> QED BY <1>2, <1>3

\* Merged of DecisionRules is its last value.
LEMMA MergedIs ==
  ASSUME NEW ds, Len(ds) \in Nat
  PROVE  \E f : IsMerging(f, ds, Len(ds)) /\ Merged(ds) = f[Len(ds)]
<1> DEFINE f == CHOOSE g : IsMerging(g, ds, Len(ds))
<1>1. IsMerging(f, ds, Len(ds))
  BY MergingExists
<1>2. Merged(ds) = f[Len(ds)]
  BY DEF Merged, IsMerging
<1> QED BY <1>1, <1>2

Decisions(c, p, parts) == [k \in DOMAIN parts |-> Ladder(c, p, parts[k])]
IsOpen(c, p, i) == Ladder(c, p, i).kind # "closed"

\* The open indexes among the first k.
OpenAmong(c, p, parts, k) == {parts[q] : q \in {r \in 1 .. k : IsOpen(c, p, parts[r])}}

\* Merging from the left comes to MergedFrom, however far it has come: consider
\* the least k for which it does not.
LEMMA MergedInSequence ==
  ASSUME NEW c, NEW p, WellConfigured(c, p), NEW n \in Nat, NEW S, NEW parts \in [1 .. n -> S],
         \A k, q \in 1 .. n : k # q => parts[k] # parts[q],
         \A i \in S : Ladder(c, p, i).kind # "error",
         NEW f, IsMerging(f, Decisions(c, p, parts), n)
  PROVE  MergedFrom(c, p, OpenAmong(c, p, parts, n), f[n])
<1> DEFINE ds == Decisions(c, p, parts)
           O(k) == OpenAmong(c, p, parts, k)
           bad == {k \in Nat : k <= n /\ ~MergedFrom(c, p, O(k), f[k])}
<1> SUFFICES ASSUME bad # {}
             PROVE  FALSE
  OBVIOUS
<1>1. PICK m \in bad : \A k \in bad : m <= k
  <2> HIDE DEF bad
  <2>1. bad \in SUBSET Nat
    BY DEF bad
  <2> QED BY <2>1, LeastNatural
<1>2. \A k \in 1 .. n : ds[k] = Ladder(c, p, parts[k])
  BY DEF Decisions
<1>3. f[m] = IF m = 0 THEN Closed
             ELSE IF ds[m].kind = "closed" THEN f[m - 1]
             ELSE IF f[m - 1].kind = "closed" THEN ds[m]
             ELSE Merge(f[m - 1], ds[m])
  BY DEF IsMerging
<1>4. CASE m = 0
  <2>1. O(0) = {} /\ f[0] = Closed
    BY <1>3, <1>4 DEF OpenAmong
  <2> QED BY <1>4, <2>1 DEF MergedFrom
<1>5. CASE m # 0
  <2> DEFINE i == parts[m]
  <2>1. m - 1 \in Nat /\ m - 1 \notin bad /\ m \in 1 .. n /\ m - 1 <= n /\ 1 .. m = (1 .. m - 1) \union {m}
    BY <1>1, <1>5
  <2>2. MergedFrom(c, p, O(m - 1), f[m - 1])
    BY <2>1
  <2>3. ds[m] = Ladder(c, p, i)
    BY <1>2, <2>1
  <2>4. O(m) = O(m - 1) \union (IF IsOpen(c, p, i) THEN {i} ELSE {})
    BY <2>1 DEF OpenAmong
  <2>5. CASE ~IsOpen(c, p, i)
    <3>1. O(m) = O(m - 1) /\ f[m] = f[m - 1]
      BY <1>3, <1>5, <2>3, <2>4, <2>5 DEF IsOpen
    <3> QED BY <1>1, <2>2, <3>1
  <2>6. CASE IsOpen(c, p, i)
    <3>1. i \notin O(m - 1)
      BY <2>1 DEF OpenAmong
    <3>2. \A j \in O(m - 1) \union {i} : Ladder(c, p, j).kind \notin {"closed", "error"}
      <4>1. i \in S /\ \A j \in O(m - 1) : j \in S /\ IsOpen(c, p, j)
        BY <2>1 DEF OpenAmong
      <4> QED BY <2>6, <4>1 DEF IsOpen
    <3>3. f[m] = IF f[m - 1].kind = "closed" THEN Ladder(c, p, i) ELSE Merge(f[m - 1], Ladder(c, p, i))
      BY <1>3, <1>5, <2>3, <2>6 DEF IsOpen
    <3>4. O(m) = O(m - 1) \union {i}
      BY <2>4, <2>6
    <3> HIDE DEF O, i
    <3>5. MergedFrom(c, p, O(m), f[m])
      BY <2>2, <3>1, <3>2, <3>3, <3>4, MergeStep
    <3> QED BY <1>1, <3>5
  <2> QED BY <2>5, <2>6
<1> QED BY <1>1, <1>4, <1>5

-----------------------------------------------------------------------------
(* The decision for the parts of a pattern.                                *)

\* Some index is refused, or they differ in whether they are compared.
Refused(c, p, S) ==
  \/ \E i \in S : Ladder(c, p, i).kind = "error"
  \/ \E i, j \in S : Ladder(c, p, i).ab # Ladder(c, p, j).ab

Open(c, p, S) == {i \in S : IsOpen(c, p, i)}

Joined(c, p, S, d) ==
  /\ S = {} => d = Empty
  /\ \A i \in S : S = {i} => d = Ladder(c, p, i)
  /\ (\E i, j \in S : i # j) =>
       \/ Refused(c, p, S) /\ d = Error
       \/ ~Refused(c, p, S) /\ MergedFrom(c, p, Open(c, p, S), d)

\* The parts of a pattern one after the other, each once.
Enumerated(c, p, S, parts, n, ds) ==
  /\ n \in Nat /\ Len(ds) = n /\ (n = 0 => ds = <<>>)
  /\ parts \in [1 .. n -> S]
  /\ \A k, q \in 1 .. n : k # q => parts[k] # parts[q]
  /\ \A i \in S : \E k \in 1 .. n : parts[k] = i
  /\ \A k \in 1 .. n : ds[k] = Ladder(c, p, parts[k])
  /\ Range(ds) = {Ladder(c, p, i) : i \in S}

\* What SetToSeqs gives is such an enumeration, of all parts.
LEMMA PartsInSequence ==
  ASSUME NEW c, NEW p, NEW S, IsFiniteSet(S), NEW parts \in SetToSeqs(S)
  PROVE  Enumerated(c, p, S, parts, Cardinality(S), Decisions(c, p, parts))
<1> DEFINE n  == Cardinality(S)
           D  == 1 .. n
           ds == Decisions(c, p, parts)
           X  == {Ladder(c, p, i) : i \in S}
<1>1. n \in Nat
  BY FS_CardinalityType
<1>2. parts \in [D -> S] /\ \A k, q \in D : k # q => parts[k] # parts[q]
  BY DEF SetToSeqs
<1>3. IsFiniteSet(D) /\ Cardinality(D) = n
  BY <1>1, FS_Interval
<1>4. parts \in Injection(D, S)
  BY <1>2 DEF Injection, IsInjective
<1>5. parts \in Surjection(D, S)
  BY <1>3, <1>4, FS_Injection
<1>6. \A i \in S : \E k \in D : parts[k] = i
  BY <1>5 DEF Surjection
<1>7. ds \in [D -> X] /\ \A k \in D : ds[k] = Ladder(c, p, parts[k])
  BY <1>2 DEF Decisions
<1>8. Range(ds) = X
  BY <1>2, <1>6, <1>7 DEF Range
<1> HIDE DEF n, X, ds
<1>9. Len(ds) = n /\ (n = 0 => ds = <<>>)
  BY <1>1, <1>7
<1>10. Enumerated(c, p, S, parts, n, ds)
  BY <1>1, <1>2, <1>6, <1>7, <1>8, <1>9 DEF Enumerated, X
<1> QED BY <1>10 DEF n, ds

\* basicDecisionMerger on an enumeration of S comes to Joined ...
LEMMA JoinedInSequence ==
  ASSUME NEW c, NEW p, WellConfigured(c, p), NEW S, IsFiniteSet(S), NEW parts \in SetToSeqs(S)
  PROVE  Joined(c, p, S, MergeDecisions(Decisions(c, p, parts)))
<1> SUFFICES ASSUME NEW n, NEW ds, ds = Decisions(c, p, parts), Enumerated(c, p, S, parts, n, ds),
                    NEW d, d = MergeDecisions(ds)
             PROVE  Joined(c, p, S, d)
  BY PartsInSequence
<1> USE DEF Enumerated
<1>1. CASE n = 0
  BY <1>1 DEF Joined, MergeDecisions
<1>2. CASE n = 1
  <2>1. S = {parts[1]} /\ parts[1] \in S /\ Len(ds) = 1 /\ ds # <<>>
    BY <1>2
  <2>2. d = Ladder(c, p, parts[1])
    BY <1>2, <2>1 DEF MergeDecisions
  <2> QED BY <2>1, <2>2 DEF Joined
<1>3. CASE n > 1
  <2>1. parts[1] \in S /\ parts[2] \in S /\ parts[1] # parts[2] /\ Len(ds) # 1 /\ ds # <<>>
    BY <1>3
  <2>2. S # {} /\ \A i \in S : S # {i}
    BY <2>1
  <2>3. Refused(c, p, S) <=> \E e \in Range(ds) : e.kind = "error" \/ e.ab # ds[1].ab
    <3>1. ds[1] = Ladder(c, p, parts[1])
      BY <1>3
    <3> QED BY <2>1, <3>1 DEF Refused
  <2>4. CASE Refused(c, p, S)
    <3>1. d = Error
      BY <2>1, <2>3, <2>4 DEF MergeDecisions
    <3> QED BY <2>2, <2>4, <3>1 DEF Joined
  <2>5. CASE ~Refused(c, p, S)
    <3>1. d = Merged(ds)
      BY <2>1, <2>3, <2>5 DEF MergeDecisions
    <3>2. PICK f : IsMerging(f, ds, n) /\ Merged(ds) = f[n]
      BY MergedIs
    <3>3. \A i \in S : Ladder(c, p, i).kind # "error"
      BY <2>5 DEF Refused
    <3>4. MergedFrom(c, p, OpenAmong(c, p, parts, n), f[n])
      <4>1. IsMerging(f, Decisions(c, p, parts), n)
        BY <3>2
      <4>2. /\ n \in Nat /\ parts \in [1 .. n -> S]
            /\ \A k, q \in 1 .. n : k # q => parts[k] # parts[q]
        OBVIOUS
      <4> HIDE DEF Enumerated
      <4> QED BY <3>3, <4>1, <4>2, MergedInSequence
    <3>5. OpenAmong(c, p, parts, n) = Open(c, p, S)
      <4>1. \A i \in S : \E k \in 1 .. n : parts[k] = i
        OBVIOUS
      <4>2. \A k \in 1 .. n : parts[k] \in S
        OBVIOUS
      <4> QED BY <4>1, <4>2 DEF OpenAmong, Open
    <3> QED BY <2>2, <2>5, <3>1, <3>2, <3>4, <3>5 DEF Joined
  <2> QED BY <2>4, <2>5
<1> QED BY <1>1, <1>2, <1>3

\* MergedFrom leaves one decision only: two lists of targets would not merge.
LEMMA MergedOnce ==
  ASSUME NEW c, NEW p, WellConfigured(c, p), NEW S, NEW d, MergedFrom(c, p, S, d),
         NEW e, MergedFrom(c, p, S, e)
  PROVE  d = e
<1>1. CASE S = {}
  BY <1>1 DEF MergedFrom
<1>2. ASSUME NEW i \in S, S = {i}
      PROVE  d = e
  BY <1>2 DEF MergedFrom
<1>3. ASSUME NEW i \in S, NEW j \in S, i # j
      PROVE  d = e
  <2>1. ASSUME NEW T \in JointLists(c, p), AllJoint(c, p, T, S),
               NEW U \in JointLists(c, p), AllJoint(c, p, U, S), T # U
        PROVE  FALSE
    <3>1. T \in Lists
      BY DEF JointLists, WellConfigured, Lists, TargetLists
    <3>2. Joint(c, T, {i}) = Joint(c, U, {i})
      BY <2>1 DEF AllJoint
    <3>3. Merge(Joint(c, T, {i}), Joint(c, U, {i})) = Error
      BY <2>1, MergeUnlike
    <3>4. Merge(Joint(c, T, {i}), Joint(c, T, {i})) = Joint(c, T, {i} \union {i})
      BY <3>1, MergeAlike
    <3> QED BY <3>2, <3>3, <3>4, Kinds
  <2>2. \/ \E T \in JointLists(c, p) : AllJoint(c, p, T, S) /\ d = Joint(c, T, S)
        \/ d = Error /\ \A T \in JointLists(c, p) : ~AllJoint(c, p, T, S)
    BY <1>3 DEF MergedFrom
  <2>3. \/ \E T \in JointLists(c, p) : AllJoint(c, p, T, S) /\ e = Joint(c, T, S)
        \/ e = Error /\ \A T \in JointLists(c, p) : ~AllJoint(c, p, T, S)
    BY <1>3 DEF MergedFrom
  <2> QED BY <2>1, <2>2, <2>3
<1> QED BY <1>1, <1>2, <1>3

\* ... which leaves one decision only: the order has no say.
LEMMA JoinedOnce ==
  ASSUME NEW c, NEW p, WellConfigured(c, p), NEW S, NEW d, Joined(c, p, S, d),
         NEW e, Joined(c, p, S, e)
  PROVE  d = e
<1>1. CASE S = {} \/ \E i \in S : S = {i}
  BY <1>1 DEF Joined
<1>2. CASE \E i, j \in S : i # j
  BY <1>2, MergedOnce DEF Joined
<1> QED BY <1>1, <1>2

\* What a decision for a pattern says about one of its indexes.
Covers(d, own) ==
  \A x \in Range(own.connectors) : \E y \in Range(d.connectors) :
    y.kind = x.kind /\ x.indexes \subseteq y.indexes

LEMMA CoversItself == ASSUME NEW d PROVE Covers(d, d)
BY DEF Covers

\* A decision for more indexes covers one for less.
LEMMA JointCovers ==
  ASSUME NEW c, NEW T \in Lists, NEW I, NEW J, I \subseteq J
  PROVE  Covers(Joint(c, T, J), Joint(c, T, I))
<1> DEFINE x == Shared(c.commonTable, I)
           y == Shared(c.commonTable, J)
           l == Connectors(T, x)
           r == Connectors(T, y)
<1>1. /\ x.kind = y.kind /\ x.indexes \subseteq y.indexes
  BY DEF Shared
<1>2. Joint(c, T, I).connectors = l /\ Joint(c, T, J).connectors = r
  BY DEF Joint, Use, Decision
<1>3. \/ l = <<x>> /\ r = <<y>>
      \/ l = <<Elastic>> /\ r = <<Elastic>>
      \/ l = <<x, Elastic>> /\ r = <<y, Elastic>>
      \/ l = <<Elastic, x>> /\ r = <<Elastic, y>>
  BY ConnectorsOf DEF Lists, TargetLists
<1> HIDE DEF l, r, x, y
<1>4. DOMAIN l = DOMAIN r /\ \A k \in DOMAIN l : 
          (l[k] = x /\ r[k] = y) \/ (l[k] = Elastic /\ r[k] = Elastic)
  <2>1. CASE l = <<x>> /\ r = <<y>>
    BY <2>1
  <2>2. CASE l = <<Elastic>> /\ r = <<Elastic>>
    BY <2>2
  <2>3. CASE l = <<x, Elastic>> /\ r = <<y, Elastic>>
    BY <2>3
  <2>4. CASE l = <<Elastic, x>> /\ r = <<Elastic, y>>
    BY <2>4
  <2> QED BY <1>3, <2>1, <2>2, <2>3, <2>4
<1>5. \A k \in DOMAIN l : r[k].kind = l[k].kind /\ l[k].indexes \subseteq r[k].indexes
  BY <1>1, <1>4
<1> QED BY <1>2, <1>4, <1>5 DEF Covers, Range

\* A decision to use backends covers those of each open index.
LEMMA JoinedCovers ==
  ASSUME NEW c, NEW p, WellConfigured(c, p), NEW S, NEW d, Joined(c, p, S, d),
         d.kind = "use", NEW i \in S, IsOpen(c, p, i)
  PROVE  Covers(d, Ladder(c, p, i))
<1>1. CASE S = {i}
  BY <1>1, CoversItself DEF Joined
<1>2. CASE S # {i}
  <2>1. MergedFrom(c, p, Open(c, p, S), d)
    BY <1>2, Kinds DEF Joined
  <2>2. i \in Open(c, p, S)
    BY DEF Open
  <2>3. CASE Open(c, p, S) = {i}
    BY <2>1, <2>2, <2>3, CoversItself DEF MergedFrom
  <2>4. CASE Open(c, p, S) # {i}
    <3>1. PICK T \in JointLists(c, p) : AllJoint(c, p, T, Open(c, p, S)) /\ d = Joint(c, T, Open(c, p, S))
      BY <2>1, <2>2, <2>4, Kinds DEF MergedFrom
    <3>2. Ladder(c, p, i) = Joint(c, T, {i}) /\ T \in Lists
      BY <2>2, <3>1 DEF AllJoint, JointLists, WellConfigured, Lists, TargetLists
    <3> QED BY <2>2, <3>1, <3>2, JointCovers
  <2> QED BY <2>3, <2>4
<1> QED BY <1>1, <1>2

\* DecisionsFor: a single decision, which covers what it stands for.
LEMMA DecisionsForAgree ==
  ASSUME NEW c, NEW p, WellConfigured(c, p), NEW pattern, NEW known,
         IsFiniteSet(Parts(pattern, known)), NEW d \in DecisionsFor(c, p, pattern, known)
  PROVE  /\ DecisionsFor(c, p, pattern, known) = {d}
         /\ d.kind = "use" => \A i \in Parts(pattern, known) :
                                IsOpen(c, p, i) => Covers(d, Ladder(c, p, i))
<1>1. CASE p = "ingest" /\ ~SingleName(pattern)
  <2>1. d = Error /\ DecisionsFor(c, p, pattern, known) = {d}
    BY <1>1 DEF DecisionsFor
  <2> QED BY <2>1, Kinds
<1>2. CASE ~(p = "ingest" /\ ~SingleName(pattern))
  <2> DEFINE S == Parts(pattern, known)
  <2>1. DecisionsFor(c, p, pattern, known) = {MergeDecisions(Decisions(c, p, parts)) : parts \in SetToSeqs(S)}
    BY <1>2 DEF DecisionsFor, Decisions
  <2> HIDE DEF S
  <2>2. \A e \in DecisionsFor(c, p, pattern, known) : Joined(c, p, S, e)
    BY <2>1, JoinedInSequence DEF S
  <2>3. DecisionsFor(c, p, pattern, known) = {d}
    BY <2>2, JoinedOnce
  <2>4. Joined(c, p, S, d)
    BY <2>2
  <2> QED BY <2>3, <2>4, JoinedCovers DEF S
<1> QED BY <1>1, <1>2

\* Its kind.
LEMMA DecisionKinds ==
  ASSUME NEW c, NEW p, WellConfigured(c, p), NEW pattern, NEW known,
         IsFiniteSet(Parts(pattern, known)), NEW d \in DecisionsFor(c, p, pattern, known)
  PROVE  d.kind \in {"use", "closed", "empty", "error"}
<1> DEFINE S == Parts(pattern, known)
<1>1. d = Error \/ Joined(c, p, S, d)
  BY JoinedInSequence DEF DecisionsFor, Decisions
<1>2. \A i : Ladder(c, p, i).kind \in {"use", "closed", "error"}
  <2> TAKE i
  <2>1. \/ Ladder(c, p, i) = Error \/ Ladder(c, p, i) = Closed
        \/ IsJoint(c, p, Ladder(c, p, i), i) \/ IsOwn(Ladder(c, p, i), i)
    BY LadderKinds
  <2> QED BY <2>1, Kinds DEF IsJoint, IsOwn
<1>3. Empty.kind = "empty"
  BY DEF Empty, Decision
<1> HIDE DEF S
<1>4. ASSUME Joined(c, p, S, d)
      PROVE  d.kind \in {"use", "closed", "empty", "error"}
  <2>1. CASE S = {} \/ \E i \in S : S = {i}
    BY <1>2, <1>3, <1>4, <2>1 DEF Joined
  <2>2. CASE \E i, j \in S : i # j
    <3>1. d = Error \/ MergedFrom(c, p, Open(c, p, S), d)
      BY <1>4, <2>2 DEF Joined
    <3>2. ASSUME NEW R, MergedFrom(c, p, R, d)
          PROVE  d.kind \in {"use", "closed", "error"}
      <4>1. CASE R = {} \/ \E i \in R : R = {i}
        BY <1>2, <3>2, <4>1, Kinds DEF MergedFrom
      <4>2. CASE \E i, j \in R : i # j
        BY <3>2, <4>2, Kinds DEF MergedFrom
      <4> QED BY <4>1, <4>2
    <3> QED BY <3>1, <3>2, Kinds
  <2> QED BY <2>1, <2>2
<1> QED BY <1>1, <1>4, Kinds

-----------------------------------------------------------------------------
(* The types of what the discovery and the resolver keep.                  *)

\* What the tables are, wherever they are kept, and what is ingested.
Maps ==
  /\ IsMap(db, SUBSET Columns) /\ IsMap(store, SUBSET Columns)
  /\ IsMap(tables, Definition)
  /\ \A l \in Loops : IsMap(loop[l].found, Definition)
  /\ adder.name \in Names \union {Nobody} /\ adder.cols \subseteq Columns
  /\ adder.pc # "idle" => adder.name \in DOMAIN Ingested

\* IsMap, without Range.
LEMMA MapIs ==
  ASSUME NEW m, NEW D
  PROVE  IsMap(m, D) <=> /\ DOMAIN m \subseteq Names
                         /\ \A n \in DOMAIN m : m[n] \in D
BY DEF IsMap, Range

LEMMA EmptyMap == ASSUME NEW D PROVE IsMap(NoTables, D)
BY MapIs DEF NoTables

\* A definition is stored under a name.
LEMMA PutMap ==
  ASSUME NEW m, NEW D, IsMap(m, D), NEW n \in Names, NEW v \in D
  PROVE  IsMap(Put(m, n, v), D)
BY MapIs DEF Put

\* What is ingested, by a name of a table.
LEMMA IngestedIs ==
  ASSUME NEW n \in DOMAIN Ingested
  PROVE  n \in Names /\ Ingested[n] \in Definition /\ Ingested[n].cols \in SUBSET Columns
<1>1. n \in Names
  BY DEF Names
<1>2. Ingested[n] \in [cols : SUBSET Ingested[n].cols, virtual : BOOLEAN]
  BY TableDiscoveryAssumption
<1>3. Ingested[n].cols \in SUBSET Columns
  BY DEF Columns
<1>4. Ingested[n] \in Definition
  BY <1>2, <1>3 DEF Definition
<1> QED BY <1>1, <1>3, <1>4

LEMMA DatabaseIs == ASSUME NEW D \in Databases PROVE IsMap(D, SUBSET Columns)
<1>1. DOMAIN D \subseteq Names
  BY DEF Names
<1> DEFINE U == UNION {UNION {E[t] : t \in DOMAIN E} : E \in Databases}
           V == UNION {Ingested[n].cols : n \in DOMAIN Ingested}
<1>2. \A t \in DOMAIN D : D[t] \in SUBSET Columns
  <2>1. U \subseteq Columns
    <3>1. Columns = V \union U
      BY DEF Columns
    <3> HIDE DEF U, V
    <3> QED BY <3>1
  <2>2. UNION {D[t] : t \in DOMAIN D} \subseteq U
    OBVIOUS
  <2>3. \A t \in DOMAIN D : D[t] \subseteq UNION {D[u] : u \in DOMAIN D}
    OBVIOUS
  <2> HIDE DEF U
  <2> QED BY <2>1, <2>2, <2>3
<1> QED BY <1>1, <1>2, MapIs

\* configureTables and autoConfigureTables give definitions ...
LEMMA ConfigureMap ==
  ASSUME NEW d, IsMap(d, SUBSET Columns)
  PROVE  IsMap(Configure(d), Definition)
<1>1. DOMAIN Configure(d) \subseteq DOMAIN d
  BY DEF Configure
<1>2. \A t \in DOMAIN Configure(d) : Configure(d)[t] = [cols |-> d[t], virtual |-> FALSE]
  BY DEF Configure
<1>3. \A t \in DOMAIN Configure(d) : Configure(d)[t] \in Definition
  <2> TAKE t \in DOMAIN Configure(d)
  <2> DEFINE cs == d[t]
  <2>1. cs \in SUBSET Columns /\ Configure(d)[t] = [cols |-> cs, virtual |-> FALSE]
    BY <1>1, <1>2, MapIs
  <2> HIDE DEF cs
  <2> QED BY <2>1 DEF Definition
<1>4. DOMAIN Configure(d) \subseteq Names
  BY <1>1, MapIs
<1> QED BY <1>3, <1>4, MapIs

\* ... readVirtualTables adds some ...
LEMMA WithVirtualMap ==
  ASSUME NEW found, IsMap(found, Definition), IsMap(store, SUBSET Columns),
         NEW read \in SUBSET DOMAIN store
  PROVE  IsMap(WithVirtual(found, read), Definition)
<1> DEFINE w == WithVirtual(found, read)
<1>1. CASE CommonTable \notin DOMAIN found
  BY <1>1 DEF WithVirtual
<1>2. CASE CommonTable \in DOMAIN found
  <2>1. DOMAIN w = read \union DOMAIN found
    BY <1>2 DEF WithVirtual
  <2>2. \A t \in DOMAIN w : w[t] = IF t \in read
          THEN [cols |-> store[t] \intersect found[CommonTable].cols, virtual |-> TRUE] ELSE found[t]
    BY <1>2 DEF WithVirtual
  <2> HIDE DEF w
  <2>3. DOMAIN w \subseteq Names
    BY <2>1, MapIs
  <2>4. ASSUME NEW t \in read
        PROVE  w[t] \in Definition
    <3> DEFINE cs == store[t] \intersect found[CommonTable].cols
    <3>1. cs \in SUBSET Columns
      BY MapIs
    <3>2. w[t] = [cols |-> cs, virtual |-> TRUE]
      BY <2>1, <2>2
    <3> HIDE DEF cs
    <3> QED BY <3>1, <3>2 DEF Definition
  <2>5. \A t \in DOMAIN w \ read : w[t] \in Definition
    BY <2>1, <2>2, MapIs
  <2>6. IsMap(w, Definition)
    BY <2>3, <2>4, <2>5, MapIs
  <2> QED BY <2>6 DEF w
<1> QED BY <1>1, <1>2

\* ... and populateTableDefinitions drops columns and tables.
LEMMA PopulateMap ==
  ASSUME NEW found, IsMap(found, Definition)
  PROVE  IsMap(Populate(found), Definition)
<1> DEFINE f == Populate(found)
           kept(t) == {c \in found[t].cols : \/ found[t].virtual \/ autodiscovery
                                             \/ <<t, c>> \notin Ignored}
<1>1. DOMAIN f \subseteq DOMAIN found
  BY DEF Populate
<1>2. \A t \in DOMAIN f : f[t] = [found[t] EXCEPT !.cols = kept(t)]
  BY DEF Populate
<1>3. \A t : kept(t) \subseteq found[t].cols
  OBVIOUS
<1> HIDE DEF f, kept
<1>4. ASSUME NEW t \in DOMAIN f
      PROVE  f[t] \in Definition
  <2>1. found[t] \in Definition
    BY <1>1, MapIs
  <2>2. found[t].cols \in SUBSET Columns /\ kept(t) \in SUBSET Columns
    BY <1>3, <2>1 DEF Definition
  <2> QED BY <1>2, <2>1, <2>2 DEF Definition
<1>5. IsMap(f, Definition)
  BY <1>1, <1>4, MapIs
<1> QED BY <1>5 DEF f

LEMMA InitMaps == Init => Maps
<1> SUFFICES ASSUME Init
             PROVE  Maps
  OBVIOUS
<1>1. db \in Databases /\ store = NoTables /\ tables = NoTables
  BY DEF Init
<1>2. \A l \in Loops : loop[l].found = NoTables
  BY DEF Init, RestingLoop
<1>3. adder.name = Nobody /\ adder.cols = {} /\ adder.pc = "idle"
  BY DEF Init, RestingAdder
<1> QED BY <1>1, <1>2, <1>3, DatabaseIs, EmptyMap DEF Maps

\* A loop that goes back to its select.
LEMMA AnswerMaps ==
  ASSUME Shape, Maps, NEW l \in Loops, Answer(l)
  PROVE  \A k \in Loops : IsMap(loop'[k].found, Definition)
<1>1. \A k \in Loops : loop'[k] = IF k = l THEN RestingLoop ELSE loop[k]
  BY DEF Answer, Shape
<1> QED BY <1>1, EmptyMap DEF RestingLoop, Maps

\* One step per action of a reload loop.
LEMMA LoopKeepsMaps ==
  ASSUME Shape, Maps, NEW l \in Loops, LoopStep(l)
  PROVE  Maps'
<1>1. CASE Tick(l)
  BY <1>1 DEF Tick, StartReload, Shape, Maps, externalVars, mapVars, settings
<1>2. CASE ReadTables(l)
  <2>1. loop'[l].found = Configure(db) /\ \A k \in Loops : k # l => loop'[k] = loop[k]
    BY <1>2 DEF ReadTables, Shape
  <2>2. UNCHANGED <<db, store, tables, adder>>
    BY <1>2 DEF ReadTables, externalVars, mapVars
  <2> QED BY <2>1, <2>2, ConfigureMap DEF Maps
<1>3. CASE ReadFails(l)
  <2>1. UNCHANGED <<db, store, adder>> /\ tables' = NoTables
    BY <1>3 DEF ReadFails
  <2>2. \A k \in Loops : IsMap(loop'[k].found, Definition)
    BY <1>3, AnswerMaps DEF ReadFails
  <2> QED BY <2>1, <2>2, EmptyMap DEF Maps
<1>4. CASE ReadVirtualTables(l)
  <2>1. PICK read \in SUBSET DOMAIN store :
          loop' = [loop EXCEPT ![l].pc = "publish", ![l].found = WithVirtual(@, read)]
    BY <1>4 DEF ReadVirtualTables
  <2>2. loop'[l].found = WithVirtual(loop[l].found, read) /\ \A k \in Loops : k # l => loop'[k] = loop[k]
    BY <2>1 DEF Shape
  <2>3. UNCHANGED <<db, store, tables, adder>>
    BY <1>4 DEF ReadVirtualTables, mapVars
  <2> QED BY <2>2, <2>3, WithVirtualMap DEF Maps
<1>5. CASE Publish(l)
  <2>1. loop'[l].found = NoTables /\ \A k \in Loops : k # l => loop'[k] = loop[k]
    BY <1>5 DEF Publish, Shape
  <2>2. UNCHANGED <<db, store, adder>> /\ tables' = Populate(loop[l].found)
    BY <1>5 DEF Publish, externalVars
  <2> QED BY <2>1, <2>2, PopulateMap, EmptyMap DEF Maps
<1>6. CASE Notify(l)
  <2>1. UNCHANGED <<db, store, tables, adder>>
    BY <1>6 DEF Notify, externalVars, mapVars
  <2>2. \A k \in Loops : IsMap(loop'[k].found, Definition)
    BY <1>6, AnswerMaps DEF Notify
  <2> QED BY <2>1, <2>2 DEF Maps
<1> QED BY <1>1, <1>2, <1>3, <1>4, <1>5, <1>6 DEF LoopStep

\* A forced reload that is taken touches no map.
LEMMA ForcedKeepsMaps ==
  ASSUME Shape, Maps, NEW l \in Loops, NEW r \in Readers, TakeForced(l, r)
  PROVE  Maps'
BY DEF TakeForced, StartReload, Shape, Maps, externalVars, mapVars, settings

\* A virtual table that is found is extended by columns of what is ingested.
LEMMA FindTableKeepsMaps ==
  ASSUME Shape, Maps, NEW n \in DOMAIN Ingested, FindTable(n)
  PROVE  Maps'
<1> DEFINE found == n \in DOMAIN tables
           cols  == Ingested[n].cols \union (IF found THEN tables[n].cols ELSE {})
<1>1. UNCHANGED <<db, store, loop>> /\ adder'.name = n /\ adder'.cols = cols
  BY DEF FindTable
<1>2. n \in Names /\ Ingested[n].cols \in SUBSET Columns
  BY IngestedIs
<1>3. CASE ~found
  <2>1. tables' = tables /\ cols \subseteq Columns
    BY <1>2, <1>3 DEF FindTable
  <2> QED BY <1>1, <1>2, <2>1 DEF Maps
<1>4. CASE found
  <2>1. tables[n] \in Definition
    BY <1>4, MapIs DEF Maps
  <2>2. cols \in SUBSET Columns
    BY <1>2, <1>4, <2>1 DEF Definition
  <2>3. tables' = [tables EXCEPT ![n].cols = cols]
    BY <1>4 DEF FindTable
  <2> HIDE DEF cols
  <2>4. [tables[n] EXCEPT !.cols = cols] \in Definition
    BY <2>1, <2>2 DEF Definition
  <2>5. IsMap(tables', Definition)
    BY <2>3, <2>4, MapIs DEF Maps
  <2> QED BY <1>1, <1>2, <2>2, <2>5 DEF Maps
<1> QED BY <1>3, <1>4

\* One step per action of the ingesting goroutine.
LEMMA AdderKeepsMaps ==
  ASSUME Shape, Maps, AdderStep
  PROVE  Maps'
<1>1. CASE StoreVirtualTable
  <2>1. UNCHANGED <<db, tables, loop>> /\ UNCHANGED <<adder.name, adder.cols>>
    BY <1>1 DEF StoreVirtualTable, AdderGoes, mapVars, Shape
  <2>2. adder.name \in DOMAIN Ingested /\ adder.name \in Names
    BY <1>1, IngestedIs DEF StoreVirtualTable, Maps
  <2>3. store' = store \/ store' = Put(store, adder.name, adder.cols)
    BY <1>1 DEF StoreVirtualTable
  <2>4. IsMap(store', SUBSET Columns)
    BY <2>2, <2>3, PutMap DEF Maps
  <2> QED BY <2>1, <2>2, <2>4 DEF Maps
<1>2. CASE AddTable
  <2>1. UNCHANGED <<db, store, loop>> /\ UNCHANGED <<adder.name, adder.cols>>
    BY <1>2 DEF AddTable, AdderGoes, externalVars, Shape
  <2>2. adder.name \in DOMAIN Ingested /\ adder.name \in Names /\ Ingested[adder.name] \in Definition
    BY <1>2, IngestedIs DEF AddTable, Maps
  <2>3. IsMap(tables', Definition)
    BY <1>2, <2>2, PutMap DEF AddTable, Maps
  <2> QED BY <2>1, <2>2, <2>3 DEF Maps
<1>3. CASE AddTableNotifies
  <2>1. UNCHANGED <<db, store, tables, loop>> /\ UNCHANGED <<adder.name, adder.cols>>
    BY <1>3 DEF AddTableNotifies, AdderGoes, externalVars, mapVars, Shape
  <2>2. adder.name \in DOMAIN Ingested
    BY <1>3 DEF AddTableNotifies, Maps
  <2> QED BY <2>1, <2>2 DEF Maps
<1>4. CASE Execute
  <2> DEFINE n == adder.name
             t == IF Ingested[n].virtual THEN CommonTable ELSE n
  <2>1. UNCHANGED <<store, tables, loop>> /\ adder' = RestingAdder
    BY <1>4 DEF Execute, mapVars
  <2>2. n \in DOMAIN Ingested /\ n \in Names /\ Ingested[n].cols \in SUBSET Columns
    BY <1>4, IngestedIs DEF Execute, Maps
  <2>3. \/ db' = db
        \/ t \in DOMAIN db /\ db' = [db EXCEPT ![t] = @ \union Ingested[n].cols]
        \/ t = n /\ db' = Put(db, n, Ingested[n].cols)
    BY <1>4 DEF Execute
  <2>4. IsMap(db', SUBSET Columns)
    <3>1. CASE t \in DOMAIN db /\ db' = [db EXCEPT ![t] = @ \union Ingested[n].cols]
      <4> HIDE DEF t
      <4>1. db[t] \union Ingested[n].cols \in SUBSET Columns
        BY <2>2, <3>1, MapIs DEF Maps
      <4>2. DOMAIN db' = DOMAIN db /\ \A u \in DOMAIN db : db'[u] \in SUBSET Columns
        BY <3>1, <4>1, MapIs DEF Maps
      <4>3. DOMAIN db' \subseteq Names
        BY <4>2, MapIs DEF Maps
      <4> QED BY <4>2, <4>3, MapIs
    <3> QED BY <2>2, <2>3, <3>1, PutMap DEF Maps
  <2> QED BY <2>1, <2>4 DEF Maps, RestingAdder
<1> QED BY <1>1, <1>2, <1>3, <1>4 DEF AdderStep

\* Every step of the discovery.
LEMMA DiscoveryKeepsMaps ==
  ASSUME Shape, Maps, DiscoveryNext
  PROVE  Maps'
<1>1. CASE AgeReload
  BY <1>1 DEF AgeReload, Maps, externalVars, mapVars
<1>2. CASE AgeAccess
  BY <1>2 DEF AgeAccess, Maps, externalVars, mapVars
<1>3. CASE ChangeDatabase
  <2>1. UNCHANGED <<store, tables, loop, adder>> /\ db' \in Databases
    BY <1>3 DEF ChangeDatabase, mapVars
  <2> QED BY <2>1, DatabaseIs DEF Maps
<1> QED
  BY <1>1, <1>2, <1>3, LoopKeepsMaps, ForcedKeepsMaps, AdderKeepsMaps, FindTableKeepsMaps
  DEF DiscoveryNext, DiscoveryStep

\* TableDefinitions touches no map.
LEMMA AccessKeepsMaps ==
  ASSUME Maps, NEW r \in Readers, Access(r) \/ Load(r)
  PROVE  Maps'
BY DEF Access, Load, Maps, externalVars, mapVars

\* Everything else the discovery keeps.
Controls ==
  /\ fetchError \in BOOLEAN /\ unannounced \in BOOLEAN /\ accessed \in BOOLEAN
  /\ reloadAge \in {"fresh", "recent", "stale"}
  /\ \A l \in Loops : loop[l].for \in Readers \union {Nobody}
  /\ reader \in [Readers -> {"idle", "forcing", "waiting", "served"}]
  /\ messages \in [observers -> 0 .. MaxMessages]
  /\ events \in 0 .. MaxEvents

LEMMA InitControls == Init => Controls
<1> SUFFICES ASSUME Init
             PROVE  Controls
  OBVIOUS
<1>1. \A l \in Loops : loop[l].for = Nobody
  BY DEF Init, RestingLoop
<1>2. reader \in [Readers -> {"idle", "forcing", "waiting", "served"}]
  BY DEF Init
<1>3. messages \in [observers -> 0 .. MaxMessages]
  BY TableDiscoveryAssumption DEF Init
<1> QED BY <1>1, <1>2, <1>3 DEF Init, Controls

\* A loop that goes back to its select answers a reader, or nobody.
LEMMA AnswerControls ==
  ASSUME Shape, Controls, NEW l \in Loops, Answer(l)
  PROVE  /\ \A k \in Loops : loop'[k].for \in Readers \union {Nobody}
         /\ reader' \in [Readers -> {"idle", "forcing", "waiting", "served"}]
<1>1. \A k \in Loops : loop'[k] = IF k = l THEN RestingLoop ELSE loop[k]
  BY DEF Answer, Shape
<1>2. \A k \in Loops : loop'[k].for \in Readers \union {Nobody}
  BY <1>1 DEF RestingLoop, Controls
<1> QED BY <1>2 DEF Answer, Controls

\* No listener has more messages than are told apart.
LEMMA NotifyControls ==
  ASSUME Controls, NotifyObservers, UNCHANGED observers
  PROVE  messages' \in [observers' -> 0 .. MaxMessages]
BY TableDiscoveryAssumption DEF Controls, NotifyObservers

\* Changes and failures stay within their bound.
LEMMA EventControls == ASSUME Controls, Event PROVE events' \in 0 .. MaxEvents
BY TableDiscoveryAssumption DEF Controls, Event

\* One step per action of a reload loop.
LEMMA LoopKeepsControls ==
  ASSUME Shape, Controls, NEW l \in Loops, LoopStep(l)
  PROVE  Controls'
<1> USE DEF externalVars, mapVars, timeVars, settings
<1>1. CASE Tick(l)
  BY <1>1 DEF Tick, StartReload, Shape, Controls
<1>2. CASE ReadTables(l)
  BY <1>2 DEF ReadTables, Shape, Controls
<1>3. CASE ReadFails(l)
  <2>1. /\ \A k \in Loops : loop'[k].for \in Readers \union {Nobody}
        /\ reader' \in [Readers -> {"idle", "forcing", "waiting", "served"}]
    BY <1>3, AnswerControls DEF ReadFails
  <2>2. events' \in 0 .. MaxEvents
    BY <1>3, EventControls DEF ReadFails
  <2> QED BY <1>3, <2>1, <2>2 DEF ReadFails, Controls
<1>4. CASE ReadVirtualTables(l)
  <2>1. events' \in 0 .. MaxEvents
    BY <1>4, EventControls DEF ReadVirtualTables, Controls
  <2>2. \A k \in Loops : loop'[k].for = loop[k].for
    BY <1>4 DEF ReadVirtualTables, Shape
  <2> QED BY <1>4, <2>1, <2>2 DEF ReadVirtualTables, Controls
<1>5. CASE Publish(l)
  BY <1>5 DEF Publish, Shape, Controls
<1>6. CASE Notify(l)
  <2>1. /\ \A k \in Loops : loop'[k].for \in Readers \union {Nobody}
        /\ reader' \in [Readers -> {"idle", "forcing", "waiting", "served"}]
    BY <1>6, AnswerControls DEF Notify
  <2>2. messages' \in [observers' -> 0 .. MaxMessages]
    BY <1>6, NotifyControls DEF Notify
  <2> QED BY <1>6, <2>1, <2>2 DEF Notify, Controls
<1> QED BY <1>1, <1>2, <1>3, <1>4, <1>5, <1>6 DEF LoopStep

LEMMA ForcedKeepsControls ==
  ASSUME Shape, Controls, NEW l \in Loops, NEW r \in Readers, TakeForced(l, r)
  PROVE  Controls'
BY DEF TakeForced, StartReload, Shape, Controls, externalVars, mapVars, settings

\* One step per action of the ingesting goroutine.
LEMMA AdderKeepsControls ==
  ASSUME Shape, Controls, AdderStep \/ \E n \in DOMAIN Ingested : FindTable(n)
  PROVE  Controls'
<1> USE DEF externalVars, mapVars, timeVars, settings
<1>1. CASE StoreVirtualTable
  BY <1>1, EventControls DEF StoreVirtualTable, Controls
<1>2. CASE AddTable
  BY <1>2 DEF AddTable, Controls
<1>3. CASE AddTableNotifies
  BY <1>3, NotifyControls DEF AddTableNotifies, Controls
<1>4. CASE Execute
  <2>1. events' \in 0 .. MaxEvents
    BY <1>4, EventControls DEF Execute, Controls
  <2> QED BY <1>4, <2>1 DEF Execute, Controls
<1>5. ASSUME NEW n \in DOMAIN Ingested, FindTable(n)
      PROVE  Controls'
  <2>1. events' \in 0 .. MaxEvents
    BY <1>5, EventControls DEF FindTable
  <2>2. accessed' = TRUE /\ unannounced' \in BOOLEAN
    BY <1>5 DEF FindTable, Controls
  <2> QED BY <1>5, <2>1, <2>2 DEF FindTable, Controls
<1> QED BY <1>1, <1>2, <1>3, <1>4, <1>5 DEF AdderStep

\* Every step of the discovery.
LEMMA DiscoveryKeepsControls ==
  ASSUME Shape, Controls, DiscoveryNext
  PROVE  Controls'
<1> USE DEF externalVars, mapVars, timeVars, settings
<1>1. CASE AgeReload
  BY <1>1 DEF AgeReload, Controls
<1>2. CASE AgeAccess
  BY <1>2 DEF AgeAccess, Controls
<1>3. CASE ChangeDatabase
  BY <1>3, EventControls DEF ChangeDatabase, Controls
<1> QED
  BY <1>1, <1>2, <1>3, LoopKeepsControls, ForcedKeepsControls, AdderKeepsControls
  DEF DiscoveryNext, DiscoveryStep

LEMMA AccessKeepsControls ==
  ASSUME Controls, NEW r \in Readers, Access(r) \/ Load(r)
  PROVE  Controls'
BY DEF Access, Load, Controls, externalVars, mapVars, timeVars, settings

\* What the resolver keeps.
ResolverTypes ==
  /\ elastic \in ElasticIndexes /\ sources \in ElasticIndexes /\ esIndexes \in ElasticIndexes
  /\ DOMAIN chIndexes \subseteq Names /\ DOMAIN resolver.ch \subseteq Names
  /\ resolver.pc \in {"select", "tables", "indexes", "update"}
  /\ \A p \in Pipelines : DOMAIN decisions[p] \subseteq DOMAIN Patterns

ResolverInv == DecisionsInv /\ Maps /\ Controls /\ ResolverTypes

\* One step per action of the resolver.
LEMMA ResolverKeepsTypes ==
  ASSUME ResolverInv, ResolverStep
  PROVE  Maps' /\ Controls' /\ ResolverTypes'
<1> USE DEF externalVars, mapVars, timeVars, settings, discoveryVars, resolverVars
<1> Maps /\ Controls /\ ResolverTypes /\ ResolverShape /\ Resolver \in Readers
  BY TableResolverAssumption DEF ResolverInv, DecisionsInv
<1>1. ASSUME NEW p \in Pipelines, NEW pattern \in DOMAIN Patterns, Resolve(p, pattern)
      PROVE  Maps' /\ Controls' /\ ResolverTypes'
  <2>1. PICK d : decisions' = [decisions EXCEPT ![p] =
                    [q \in DOMAIN @ \union {pattern} |-> IF q = pattern THEN d ELSE @[q]]]
    BY <1>1 DEF Resolve
  <2>2. \A q \in Pipelines : DOMAIN decisions'[q] = IF q = p THEN DOMAIN decisions[p] \union {pattern}
                                                    ELSE DOMAIN decisions[q]
    BY <2>1 DEF ResolverShape
  <2>3. \A q \in Pipelines : DOMAIN decisions'[q] \subseteq DOMAIN Patterns
    BY <2>2 DEF ResolverTypes
  <2> QED BY <1>1, <2>3 DEF Resolve, Maps, Controls, ResolverTypes
<1>2. CASE ResolverWakes
  <2>1. messages' \in [observers' -> 0 .. MaxMessages]
    BY <1>2, TableDiscoveryAssumption DEF ResolverWakes, Controls
  <2>2. resolver'.pc = "tables" /\ resolver'.ch = resolver.ch
    BY <1>2 DEF ResolverWakes, ResolverShape
  <2> QED BY <1>2, <2>1, <2>2 DEF ResolverWakes, Maps, Controls, ResolverTypes
<1>3. CASE ResolverAccesses
  <2>1. Maps' /\ Controls'
    BY <1>3, AccessKeepsMaps, AccessKeepsControls DEF ResolverAccesses
  <2> QED BY <1>3, <2>1 DEF ResolverAccesses, ResolverTypes
<1>4. CASE ResolverLoads
  <2>1. Maps' /\ Controls'
    BY <1>4, AccessKeepsMaps, AccessKeepsControls DEF ResolverLoads
  <2>2. DOMAIN Listed(tables) \subseteq Names
    BY DEF Listed, Maps, IsMap
  <2>3. resolver'.pc = "indexes" /\ resolver'.ch = Listed(tables)
    BY <1>4 DEF ResolverLoads
  <2> QED BY <1>4, <2>1, <2>2, <2>3 DEF ResolverLoads, ResolverTypes
<1>5. CASE ResolverReloadsIndices \/ IndexManagerReloads \/ ChangeElastic
  <2>1. events' \in 0 .. MaxEvents
    BY <1>5, EventControls
       DEF ResolverReloadsIndices, IndexManagerReloads, ChangeElastic, ReloadIndices, Controls
  <2>2. UNCHANGED <<db, store, tables, loop, adder, fetchError, unannounced, accessed, reloadAge,
                    reader, messages, observers, chIndexes, esIndexes, decisions>>
    BY <1>5 DEF ResolverReloadsIndices, IndexManagerReloads, ChangeElastic
  <2>3. elastic' \in ElasticIndexes /\ sources' \in ElasticIndexes
    BY <1>5 DEF ResolverReloadsIndices, IndexManagerReloads, ChangeElastic, ReloadIndices, ResolverTypes
  <2>4. resolver'.ch = resolver.ch /\ resolver'.pc \in {"select", "tables", "indexes", "update"}
    BY <1>5 DEF ResolverReloadsIndices, IndexManagerReloads, ChangeElastic, ResolverTypes, ResolverShape
  <2> QED BY <2>1, <2>2, <2>3, <2>4 DEF Maps, Controls, ResolverTypes
<1>6. CASE UpdateIndexes
  <2>1. /\ resolver'.pc = "select" /\ DOMAIN resolver'.ch = {}
        /\ \A p \in Pipelines : DOMAIN decisions'[p] = {}
    BY <1>6 DEF UpdateIndexes, NoIndexes, NoDecisions
  <2> QED BY <1>6, <2>1 DEF UpdateIndexes, Maps, Controls, ResolverTypes
<1> QED BY <1>1, <1>2, <1>3, <1>4, <1>5, <1>6 DEF ResolverStep, ResolverGoroutine

\* The invariant of the whole is inductive.
LEMMA ResolverTypesInductive ==
  /\ Init /\ ResolverInit => ResolverInv
  /\ ResolverInv /\ [ResolverNext]_<<discoveryVars, resolverVars>> => ResolverInv'
<1>1. ASSUME Init, ResolverInit
      PROVE  ResolverInv
  <2>1. ResolverTypes
    BY <1>1 DEF ResolverInit, ResolverTypes, NoIndexes, NoDecisions
  <2> QED BY <1>1, <2>1, InitMaps, InitControls, DecisionsInductive DEF ResolverInv
<1>2. ASSUME ResolverInv, [ResolverNext]_<<discoveryVars, resolverVars>>
      PROVE  ResolverInv'
  <2> Shape /\ Maps /\ Controls /\ ResolverTypes
    BY <1>2 DEF ResolverInv, DecisionsInv
  <2>1. DecisionsInv'
    BY <1>2, DecisionsInductive DEF ResolverInv
  <2>2. CASE DiscoveryNext /\ UNCHANGED resolverVars
    <3>1. Maps' /\ Controls'
      BY <2>2, DiscoveryKeepsMaps, DiscoveryKeepsControls
    <3>2. ResolverTypes'
      BY <2>2 DEF ResolverTypes, resolverVars
    <3> QED BY <2>1, <3>1, <3>2 DEF ResolverInv
  <2>3. ASSUME NEW r \in Readers \ {Resolver}, Access(r) \/ Load(r), UNCHANGED resolverVars
        PROVE  ResolverInv'
    <3>1. Maps' /\ Controls'
      BY <2>3, AccessKeepsMaps, AccessKeepsControls
    <3>2. ResolverTypes'
      BY <2>3 DEF ResolverTypes, resolverVars
    <3> QED BY <2>1, <3>1, <3>2 DEF ResolverInv
  <2>4. CASE ResolverStep
    BY <1>2, <2>1, <2>4, ResolverKeepsTypes DEF ResolverInv
  <2>5. CASE UNCHANGED <<discoveryVars, resolverVars>>
    <3>1. Maps' /\ Controls' /\ ResolverTypes'
      BY <2>5 DEF Maps, Controls, ResolverTypes, discoveryVars, resolverVars, externalVars,
                  mapVars, timeVars, settings
    <3> QED BY <2>1, <3>1 DEF ResolverInv
  <2> QED BY <1>2, <2>2, <2>3, <2>4, <2>5 DEF ResolverNext
<1> QED BY <1>1, <1>2


-----------------------------------------------------------------------------
(* A decision is a matter of the indexes, not of their order.              *)

\* The configuration names each backend once (TableResolverAssumption).
LEMMA RulesConfigured == ASSUME NEW p \in Pipelines PROVE WellConfigured(Rules, p)
<1>1. Rules.indexes = IndexConfig /\ Rules.defaults = DefaultTargets
  BY DEF Rules
<1> QED BY <1>1, TableResolverAssumption DEF WellConfigured

\* A pattern stands for finitely many indexes.
LEMMA PartsAreFinite ==
  ASSUME ResolverInv, NEW pattern \in DOMAIN Patterns
  PROVE  IsFiniteSet(Parts(Patterns[pattern], Known))
<1> USE DEF ResolverInv, ResolverTypes
<1>1. IsFiniteSet(DOMAIN chIndexes)
  BY TableResolverAssumption, FS_Subset
<1>2. IsFiniteSet(DOMAIN IndexConfig \union esIndexes)
  BY TableResolverAssumption, FS_Union
<1>3. IsFiniteSet(IF autodiscovery THEN DOMAIN chIndexes ELSE {})
  BY <1>1, FS_EmptySet
<1>4. IsFiniteSet(Known)
  BY <1>2, <1>3, FS_Union DEF Known
<1>5. Patterns[pattern].globs \intersect Known \subseteq Known
  OBVIOUS
<1>6. IsFiniteSet(Patterns[pattern].globs \intersect Known)
  BY <1>4, <1>5, FS_Subset
<1> QED BY <1>6, TableResolverAssumption, FS_Union DEF Parts

\* NewTableResolver, Resolve and updateIndexes keep every list and decision
\* what the others take it for: tables by name, decisions of a known kind.
THEOREM TablesKeepTheirTypes == ResolverSpec => [](TypeOK /\ TableResolverTypeOK)
<1>1. ResolverInv => TypeOK
  BY DEF ResolverInv, Maps, Controls, TypeOK
<1>2. ResolverInv => TableResolverTypeOK
  <2> SUFFICES ASSUME ResolverInv
               PROVE  TableResolverTypeOK
    OBVIOUS
  <2>1. ASSUME NEW p \in Pipelines, NEW pattern \in DOMAIN decisions[p]
        PROVE  decisions[p][pattern].kind \in {"use", "closed", "empty", "error"}
    <3>1. decisions[p][pattern] \in Resolutions(p, pattern) /\ pattern \in DOMAIN Patterns
      BY DEF ResolverInv, ResolverTypes, DecisionsInv, DecisionsAreCurrent
    <3> QED BY <3>1, PartsAreFinite, RulesConfigured, DecisionKinds DEF Resolutions
  <2> QED BY <2>1 DEF TableResolverTypeOK, ResolverInv, ResolverTypes
<1> QED BY <1>1, <1>2, ResolverTypesInductive, PTL DEF ResolverSpec

\* basicDecisionMerger: whichever order Go's maps enumerate the indexes of a
\* pattern in, the decision is the same one, and a decision to use backends
\* reads every open index of the pattern.
THEOREM DecisionsIgnoreOrder == ResolverSpec => []DecisionIgnoresOrder
<1>1. ResolverInv => DecisionIgnoresOrder
  <2> SUFFICES ASSUME ResolverInv, NEW p \in Pipelines, NEW pattern \in DOMAIN Patterns,
                      NEW d \in Resolutions(p, pattern)
               PROVE  /\ Resolutions(p, pattern) = {d}
                      /\ d.kind = "use" =>
                           \A i \in Parts(Patterns[pattern], Known) :
                             LET own == Ladder(Rules, p, i)
                             IN  own.kind # "closed" =>
                                   \A c \in Range(own.connectors) : \E e \in Range(d.connectors) :
                                     e.kind = c.kind /\ c.indexes \subseteq e.indexes
    BY DEF DecisionIgnoresOrder
  <2>1. /\ Resolutions(p, pattern) = {d}
        /\ d.kind = "use" => \A i \in Parts(Patterns[pattern], Known) :
                               IsOpen(Rules, p, i) => Covers(d, Ladder(Rules, p, i))
    BY PartsAreFinite, RulesConfigured, DecisionsForAgree DEF Resolutions
  <2> QED BY <2>1 DEF IsOpen, Covers
<1> QED BY <1>1, ResolverTypesInductive, PTL DEF ResolverSpec

=============================================================================
