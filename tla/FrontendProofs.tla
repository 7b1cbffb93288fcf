--------------------------- MODULE FrontendProofs ---------------------------
(***************************************************************************)
(* Proofs about the frontend.  FrontendGate, for every set of requests and *)
(* headers and every limit: who is handled, and what the limiter's counter *)
(* counts.  Routing, for every set of configurations, requests and names:  *)
(* the requests for an index are served as the configuration says.         *)
(***************************************************************************)
EXTENDS FrontendGate, Routing, FiniteSetTheorems, SequenceTheorems,
        WellFoundedInduction, NaturalsInduction, TLAPS

-----------------------------------------------------------------------------
(* The inductive invariant.                                                *)

Places == {"arriving", "loaded", "counted", "limiterReturns", "authorizing",
           "asking", "accepted", "authReturns", "handling", "done"}

\* Only what Elasticsearch accepted is ever in the cache.
CachedWereAccepted == cache \subseteq accepted

\* A middleware writes a status code only as the last thing before it returns.
Unanswered(r) ==
  pc[r] \notin {"limiterReturns", "authReturns", "done"} => status[r] = 0

\* From the acceptance on the header is known to have been accepted; where the
\* authentication returns, unless it wrote a status code.
Authenticated(r) ==
  /\ pc[r] = "accepted" => HeaderOf[r] \in accepted
  /\ pc[r] = "authReturns" /\ status[r] = 0 => HeaderOf[r] \in accepted
  /\ pc[r] = "handling" /\ ~DisableAuth => HeaderOf[r] \in accepted

GInv ==
  /\ pc \in [Requests -> Places]
  /\ status \in [Requests -> {0, 401, 429}]
  /\ CachedWereAccepted
  /\ \A r \in Requests : Unanswered(r) /\ Authenticated(r)

LEMMA GInvInit == GateInit => GInv
BY DEF GateInit, GInv, Places, CachedWereAccepted, Unanswered, Authenticated

\* A step of the limiter or of the middleware chain.
LEMMA ChainStep ==
  ASSUME GInv, NEW r \in Requests,
         \/ LoadCounter(r) \/ TooManyRequests(r) \/ CountClient(r)
         \/ UncountClient(r) \/ AfterLimiter(r) \/ AfterAuth(r) \/ Handle(r)
  PROVE  GInv'
<1> USE DEF GoOn, Reject, authVars, limiterVars, Places
<1>1. /\ pc' \in [Requests -> Places]
      /\ status' \in [Requests -> {0, 401, 429}]
  BY DEF GInv, LoadCounter, TooManyRequests, CountClient, UncountClient,
         AfterLimiter, AfterAuth, Handle, NextAfter
<1>2. CachedWereAccepted'
  BY DEF GInv, CachedWereAccepted, LoadCounter, TooManyRequests, CountClient,
         UncountClient, AfterLimiter, AfterAuth, Handle
<1>3. ASSUME NEW q \in Requests
      PROVE  Unanswered(q)'
  BY DEF GInv, Unanswered, LoadCounter, TooManyRequests, CountClient,
         UncountClient, AfterLimiter, AfterAuth, Handle, NextAfter
<1>4. ASSUME NEW q \in Requests
      PROVE  Authenticated(q)'
  <2>1. CASE AfterAuth(r)
    BY <2>1 DEF GInv, Authenticated, AfterAuth, NextAfter
  <2>2. CASE AfterLimiter(r)
    BY <2>2 DEF GInv, Authenticated, AfterLimiter, NextAfter
  <2>3. CASE LoadCounter(r) \/ TooManyRequests(r) \/ CountClient(r)
             \/ UncountClient(r) \/ Handle(r)
    BY <2>3 DEF GInv, Authenticated, LoadCounter, TooManyRequests, CountClient,
                UncountClient, Handle
  <2> QED BY <2>1, <2>2, <2>3
<1> QED BY <1>1, <1>2, <1>3, <1>4 DEF GInv

\* A step of the authentication middleware.
LEMMA AuthStep ==
  ASSUME GInv, NEW r \in Requests,
         \/ MissingHeader(r) \/ CacheHit(r) \/ CacheMiss(r)
         \/ Accepted(r) \/ NotAccepted(r) \/ StoreHeader(r)
  PROVE  GInv'
<1> USE DEF GoOn, Reject, authVars, limiterVars, Places
<1>1. /\ pc' \in [Requests -> Places]
      /\ status' \in [Requests -> {0, 401, 429}]
  BY DEF GInv, MissingHeader, CacheHit, CacheMiss, Accepted, NotAccepted, StoreHeader
<1>2. CachedWereAccepted'
  BY DEF GInv, CachedWereAccepted, Authenticated, MissingHeader, CacheHit,
         CacheMiss, Accepted, NotAccepted, StoreHeader
<1>3. ASSUME NEW q \in Requests
      PROVE  Unanswered(q)'
  BY DEF GInv, Unanswered, MissingHeader, CacheHit, CacheMiss, Accepted,
         NotAccepted, StoreHeader
<1>4. ASSUME NEW q \in Requests
      PROVE  Authenticated(q)'
  BY DEF GInv, CachedWereAccepted, Authenticated, MissingHeader, CacheHit,
         CacheMiss, Accepted, NotAccepted, StoreHeader
<1> QED BY <1>1, <1>2, <1>3, <1>4 DEF GInv

\* The wipe only takes headers out of the cache; a revocation does not undo an
\* acceptance.
LEMMA OtherStep ==
  ASSUME GInv, Wipe \/ (\E h \in Headers : Revoke(h)) \/ UNCHANGED gateVars
  PROVE  GInv'
BY DEF GInv, CachedWereAccepted, Unanswered, Authenticated, Wipe, StartWipe,
       WipeHeader, EndWipe, Revoke, gateVars, authVars, limiterVars

LEMMA GInvNext == GInv /\ [GateNext]_gateVars => GInv'
BY ChainStep, AuthStep, OtherStep DEF GateNext, Serve

LEMMA GInvAlways == GateSpec => []GInv
BY GInvInit, GInvNext, PTL DEF GateSpec

-----------------------------------------------------------------------------
(* The limiter's counter.                                                  *)

Counted == {r \in Requests : pc[r] = "counted"}

\* The counter counts the requests inside the limiter middleware, and nothing
\* else: that is why it cannot bound the requests being handled.
CounterCountsLimiter == counter = Cardinality(Counted)

LInv == CounterCountsLimiter /\ pc \in [Requests -> Places]

\* A step that moves request r from one place to another.
LEMMA MoveStep ==
  ASSUME LInv, IsFiniteSet(Requests), NEW r \in Requests, NEW p \in Places, GoOn(r, p),
         counter' = counter + (IF p = "counted" THEN 1 ELSE 0)
                            - (IF pc[r] = "counted" THEN 1 ELSE 0),
         pc[r] = "counted" => p # "counted"
  PROVE  LInv'
<1>1. pc' \in [Requests -> Places]
  BY DEF GoOn, LInv
<1>2. IsFiniteSet(Counted) /\ Cardinality(Counted) \in Nat
  BY FS_Subset, FS_CardinalityType DEF Counted
<1>3. CASE p = "counted"
  <2>1. Counted' = Counted \union {r} /\ r \notin Counted
    BY <1>3 DEF Counted, GoOn, LInv
  <2>2. Cardinality(Counted \union {r}) = Cardinality(Counted) + 1
    BY <1>2, <2>1, FS_AddElement
  <2>3. pc[r] # "counted"
    BY <1>3
  <2>4. counter' = counter + 1
    BY <1>2, <1>3, <2>3 DEF LInv, CounterCountsLimiter
  <2> QED BY <1>1, <2>1, <2>2, <2>4 DEF LInv, CounterCountsLimiter
<1>4. CASE p # "counted" /\ pc[r] = "counted"
  <2>1. Counted' = Counted \ {r} /\ r \in Counted
    BY <1>4 DEF Counted, GoOn, LInv
  <2>2. Cardinality(Counted \ {r}) = Cardinality(Counted) - 1
    BY <1>2, <2>1, FS_RemoveElement
  <2>3. counter' = counter - 1
    BY <1>2, <1>4 DEF LInv, CounterCountsLimiter
  <2> QED BY <1>1, <2>1, <2>2, <2>3 DEF LInv, CounterCountsLimiter
<1>5. CASE p # "counted" /\ pc[r] # "counted"
  <2>1. Counted' = Counted
    BY <1>5 DEF Counted, GoOn, LInv
  <2>2. counter' = counter
    BY <1>2, <1>5 DEF LInv, CounterCountsLimiter
  <2> QED BY <1>1, <2>1, <2>2 DEF LInv, CounterCountsLimiter
<1> QED BY <1>3, <1>4, <1>5

LEMMA ServeStep ==
  ASSUME LInv, IsFiniteSet(Requests), NEW r \in Requests, Serve(r)
  PROVE  LInv'
<1>0. counter \in Nat
  BY FS_Subset, FS_CardinalityType DEF LInv, CounterCountsLimiter, Counted
<1>1. CASE CountClient(r)
  BY <1>0, <1>1, MoveStep DEF CountClient, Places
<1>2. CASE UncountClient(r)
  BY <1>0, <1>2, MoveStep DEF UncountClient, Places
<1>3. CASE LoadCounter(r) \/ TooManyRequests(r)
  BY <1>0, <1>3, MoveStep DEF LoadCounter, TooManyRequests, Places
<1>4. CASE AfterLimiter(r) \/ AfterAuth(r) \/ Handle(r)
  BY <1>0, <1>4, MoveStep DEF AfterLimiter, AfterAuth, Handle, NextAfter, limiterVars, Places
<1>5. CASE MissingHeader(r) \/ CacheHit(r) \/ CacheMiss(r)
  BY <1>0, <1>5, MoveStep DEF MissingHeader, CacheHit, CacheMiss, limiterVars, Places
<1>6. CASE Accepted(r) \/ NotAccepted(r) \/ StoreHeader(r)
  BY <1>0, <1>6, MoveStep DEF Accepted, NotAccepted, StoreHeader, limiterVars, Places
<1> QED BY <1>1, <1>2, <1>3, <1>4, <1>5, <1>6 DEF Serve

LEMMA LInvNext ==
  ASSUME LInv, IsFiniteSet(Requests), [GateNext]_gateVars
  PROVE  LInv'
<1>1. CASE \E r \in Requests : Serve(r)
  BY <1>1, ServeStep
<1>2. CASE Wipe \/ (\E h \in Headers : Revoke(h)) \/ UNCHANGED gateVars
  BY <1>2 DEF LInv, CounterCountsLimiter, Counted, Wipe, StartWipe, WipeHeader,
              EndWipe, Revoke, gateVars, limiterVars
<1> QED BY <1>1, <1>2 DEF GateNext

LEMMA LInvInit == GateInit => LInv
<1> SUFFICES ASSUME GateInit
             PROVE  LInv
  OBVIOUS
<1>1. Counted = {}
  BY DEF GateInit, Counted
<1>2. counter = Cardinality(Counted)
  BY <1>1, FS_EmptySet DEF GateInit
<1> QED BY <1>2 DEF GateInit, LInv, CounterCountsLimiter, Places

-----------------------------------------------------------------------------
(* The theorems.                                                           *)

\* With authentication on, a request reaches the handlers only with a header
\* that Elasticsearch accepted (auth_middleware.go), and a request that was told
\* 401 or 429 is not handled as well (BasicHTTPFrontendConnector.ServeHTTP),
\* however the requests, the wipes of the cache and the revocations interleave.
THEOREM AdmissionIsAlwaysRespected == GateSpec => []AdmissionIsRespected
<1>1. GInv => HandledOnlyIfAccepted
  BY DEF GInv, Authenticated, HandledOnlyIfAccepted
<1>2. GInv => RejectedIsNotHandled
  BY DEF GInv, Unanswered, RejectedIsNotHandled
<1> QED BY <1>1, <1>2, GInvAlways, PTL DEF AdmissionIsRespected

\* The limiter's counter is the number of requests inside the limiter itself,
\* so it never drops below zero, and no request being handled is in it.
THEOREM CounterOnlyCountsLimiter == GateSpec => []CounterCountsLimiter
<1>1. IsFiniteSet(Requests)
  BY FrontendGateAssumption
<1>2. LInv /\ [GateNext]_gateVars => LInv'
  BY <1>1, LInvNext
<1>3. LInv => CounterCountsLimiter
  BY DEF LInv
<1> QED BY <1>2, <1>3, LInvInit, PTL DEF GateSpec

\* Types: the counter and what requests remember of it are natural numbers,
\* and the cache, the wipe and the history hold nothing but headers.
THEOREM GateTypesAreKept == GateSpec => []GateTypeOK
<1> DEFINE KInv == GateTypeOK /\ GInv /\ LInv
<1>1. GateInit => KInv
  BY GInvInit, LInvInit DEF GateInit, GateTypeOK
<1>2. ASSUME KInv, [GateNext]_gateVars
      PROVE  KInv'
  <2>1. GInv' /\ LInv'
    BY <1>2, GInvNext, LInvNext, FrontendGateAssumption
  <2>2. IsFiniteSet(Counted') /\ Cardinality(Counted') \in Nat
    BY FrontendGateAssumption, FS_Subset, FS_CardinalityType DEF Counted
  <2>3. /\ counter' \in Nat /\ status' \in [Requests -> {0, 401, 429}]
        /\ pc' \in [Requests -> Places]
    BY <2>1, <2>2 DEF GInv, LInv, CounterCountsLimiter
  <2>4. CASE \E r \in Requests : Serve(r)
    <3>1. PICK r \in Requests : Serve(r)
      BY <2>4
    <3>2. seen' \in [Requests -> Nat]
      BY <1>2, <3>1 DEF GateTypeOK, Serve, LoadCounter, TooManyRequests, CountClient,
                  UncountClient, AfterLimiter, AfterAuth, Handle, MissingHeader, CacheHit,
                  CacheMiss, Accepted, NotAccepted, StoreHeader, limiterVars
    <3>3. /\ valid' \subseteq Headers /\ cache' \subseteq Headers /\ accepted' \subseteq Headers
          /\ UNCHANGED <<wiper, wiped, present>>
      BY <1>2, <3>1
         DEF GateTypeOK, GInv, Authenticated, Serve, LoadCounter, TooManyRequests, CountClient,
             UncountClient, AfterLimiter, AfterAuth, Handle, MissingHeader, CacheHit,
             CacheMiss, Accepted, NotAccepted, StoreHeader, authVars
    <3> QED BY <1>2, <2>1, <2>3, <3>2, <3>3 DEF GateTypeOK, Places
  <2>5. CASE Wipe \/ (\E h \in Headers : Revoke(h)) \/ UNCHANGED gateVars
    <3>1. /\ seen' = seen /\ valid' \subseteq Headers /\ cache' \subseteq Headers
          /\ accepted' \subseteq Headers /\ wiped' \subseteq Headers
          /\ present' \subseteq Headers /\ wiper' \in {"idle", "wiping"}
      BY <1>2, <2>5 DEF GateTypeOK, Wipe, StartWipe, WipeHeader, EndWipe, Revoke, gateVars,
                        authVars, limiterVars
    <3> QED BY <1>2, <2>1, <2>3, <3>1 DEF GateTypeOK, Places
  <2> QED BY <1>2, <2>4, <2>5 DEF GateNext
<1>3. KInv => GateTypeOK
  OBVIOUS
<1> HIDE DEF KInv
<1> QED BY <1>1, <1>2, <1>3, PTL DEF GateSpec

-----------------------------------------------------------------------------
(* Routing: what the names of a configuration refer to.                    *)

\* What a name of a list refers to is an element of it with this name.
LEMMA LeastPlace ==
  ASSUME NEW T \in SUBSET Nat, T # {}
  PROVE  \E n \in T : \A k \in T : n <= k
<1> DEFINE Less == {p \in Nat \X Nat : p[1] < p[2]}
<1>1. OpToRel(<, Nat) = Less
  BY DEF OpToRel
<1>2. IsWellFoundedOn(Less, Nat)
  BY <1>1, NatLessThanWellFounded
<1> HIDE DEF Less
<1>3. PICK n \in T : \A y \in T : ~ (<<y, n>> \in Less)
  BY <1>2, WFMin
<1>4. \A y \in T : ~ (y < n)
  BY <1>3 DEF Less
<1> QED BY <1>4

LEMMA ListDomain ==
  ASSUME NEW list, IsList(list)
  PROVE  Len(list) \in Nat /\ DOMAIN list = 1 .. Len(list)
BY LenProperties DEF IsList

LEMMA NamedIsListed ==
  ASSUME NEW list, IsList(list), NEW name \in Names(list)
  PROVE  \E k \in DOMAIN list : Named(list, name) = list[k] /\ list[k].name = name
<1> DEFINE T == {k \in DOMAIN list : list[k].name = name}
           IsFirst(k) == list[k].name = name /\ \A j \in 1 .. k - 1 : list[j].name # name
<1>1. DOMAIN list = 1 .. Len(list) /\ Len(list) \in Nat
  BY ListDomain
<1>2. T \in SUBSET Nat /\ T # {}
  BY <1>1 DEF Names
<1>3. PICK k \in T : \A j \in T : k <= j
  BY <1>2, LeastPlace
<1>4. IsFirst(k)
  BY <1>1, <1>3
<1>5. \E m \in DOMAIN list : IsFirst(m)
  BY <1>3, <1>4
<1> DEFINE c == CHOOSE m \in DOMAIN list : IsFirst(m)
<1>6. c \in DOMAIN list /\ IsFirst(c)
  BY <1>5
<1>7. Named(list, name) = list[c]
  BY DEF Named
<1> QED BY <1>6, <1>7

-----------------------------------------------------------------------------
\* The targets of an index: there are two at most, of different types.
EntryIsValid(e) ==
  /\ IsList(e.target) /\ Len(e.target) <= 2
  /\ \A j, k \in DOMAIN e.target :
       TargetType(file, e.target[j].name) = TargetType(file, e.target[k].name) => j = k

LEMMA TypesDiffer ==
  ASSUME IsFile(file), BackendsAreValid(file),
         NEW a \in Names(file.backends), NEW b \in Names(file.backends),
         TargetType(file, a) = TargetType(file, b)
  PROVE  a = b
<1>1. PICK j \in DOMAIN file.backends :
        Named(file.backends, a) = file.backends[j] /\ file.backends[j].name = a
  BY NamedIsListed DEF IsFile
<1>2. PICK k \in DOMAIN file.backends :
        Named(file.backends, b) = file.backends[k] /\ file.backends[k].name = b
  BY NamedIsListed DEF IsFile
<1>3. /\ file.backends[j].type \in {Elasticsearch} \union DatabaseTypes
      /\ file.backends[k].type \in {Elasticsearch} \union DatabaseTypes
  BY DEF BackendsAreValid, Range
<1>4. (file.backends[j].type = Elasticsearch) = (file.backends[k].type = Elasticsearch)
  BY <1>1, <1>2 DEF TargetType
<1>5. j = k
  BY <1>3, <1>4 DEF BackendsAreValid
<1> QED BY <1>1, <1>2, <1>5

LEMMA UpToTwo ==
  ASSUME NEW n \in Nat, n <= 2
  PROVE  n = 0 \/ n = 1 \/ n = 2
OBVIOUS

LEMMA TargetsInOrder ==
  ASSUME NEW e, EntryIsValid(e)
  PROVE  /\ DOMAIN Targets(file, e) = DOMAIN e.target /\ Len(Targets(file, e)) = Len(e.target)
         /\ \A k \in DOMAIN e.target :
              Targets(file, e)[k] = TargetType(file, e.target[k].name)
         /\ Targets(file, e) = <<>> <=> e.target = <<>>
<1> DEFINE type(k) == TargetType(file, e.target[k].name)
           others  == {type(k) : k \in DOMAIN e.target} \ {type(1)}
           n == Len(e.target)
<1>1. n \in {0, 1, 2} /\ DOMAIN e.target = 1 .. n
  <2>1. IsList(e.target) /\ n <= 2
    BY DEF EntryIsValid
  <2>2. n \in Nat /\ DOMAIN e.target = 1 .. n
    BY <2>1, ListDomain
  <2>3. n = 0 \/ n = 1 \/ n = 2
    BY <2>1, <2>2, UpToTwo
  <2> QED BY <2>2, <2>3
<1>2. Targets(file, e) = IF e.target = <<>> THEN <<>> ELSE IF others = {} THEN <<type(1)>>
                         ELSE <<type(1), CHOOSE other \in others : TRUE>>
  BY DEF Targets
<1>3. e.target = <<>> <=> n = 0
  BY <1>1, EmptySeq DEF EntryIsValid, IsList
<1> HIDE DEF type
<1>4. CASE n = 0
  BY <1>1, <1>2, <1>3, <1>4
<1>5. CASE n = 1
  <2>1. others = {}
    BY <1>1, <1>5
  <2> QED BY <1>1, <1>2, <1>3, <1>5, <2>1 DEF type
<1>6. CASE n = 2
  <2>1. type(1) # type(2)
    BY <1>1, <1>6 DEF EntryIsValid, type
  <2>2. others = {type(2)}
    BY <1>1, <1>6, <2>1
  <2>3. (CHOOSE other \in others : TRUE) = type(2)
    BY <2>2
  <2>4. others # {} /\ e.target # <<>>
    BY <1>3, <1>6, <2>2
  <2>5. Targets(file, e) = <<type(1), CHOOSE other \in others : TRUE>>
    BY <1>2, <2>4
  <2>6. Targets(file, e) = <<type(1), type(2)>>
    BY <2>3, <2>5
  <2> QED BY <1>1, <1>3, <1>6, <2>6 DEF type
<1> QED BY <1>1, <1>4, <1>5, <1>6

-----------------------------------------------------------------------------
\* The tables that the targets of an entry name.
TablesOf(e) == {t.table : t \in Range(e.target)} \ {""}

\* Only a target on the database has a table.
TablesAreOfDatabase(e) ==
  \A t \in Range(e.target) : t.table # "" => TargetType(file, t.name) = "clickhouse"

LEMMA TableIsOne ==
  ASSUME NEW e, IsList(e.target), NEW before
  PROVE  IF TablesOf(e) = {} THEN Table(e, before) = before ELSE Table(e, before) \in TablesOf(e)
<1> DEFINE set == {k \in DOMAIN e.target : e.target[k].table # ""}
           c == CHOOSE k \in set : \A j \in set : j <= k
<1>1. set = {} <=> TablesOf(e) = {}
  BY DEF TablesOf, Range
<1>2. ASSUME set # {}
      PROVE  c \in set
  <2> DEFINE back == {Len(e.target) - k : k \in set}
  <2>1. Len(e.target) \in Nat /\ DOMAIN e.target = 1 .. Len(e.target)
    BY ListDomain
  <2>2. set \subseteq 1 .. Len(e.target)
    BY <2>1
  <2> HIDE DEF set
  <2>3. back \in SUBSET Nat /\ back # {}
    <3>1. \A k \in set : Len(e.target) - k \in Nat
      BY <2>1, <2>2
    <3> QED BY <1>2, <3>1
  <2>4. PICK n \in back : \A m \in back : n <= m
    BY <2>3, LeastPlace
  <2>5. PICK k \in set : n = Len(e.target) - k
    BY <2>4
  <2>6. ASSUME NEW j \in set
        PROVE  j <= k
    <3>1. j \in Nat /\ k \in Nat
      BY <2>2, <2>5
    <3>2. n <= Len(e.target) - j
      BY <2>4
    <3> QED BY <2>1, <2>5, <3>1, <3>2
  <2> QED BY <2>5, <2>6
<1>3. Table(e, before) = IF set = {} THEN before ELSE e.target[c].table
  BY DEF Table
<1> QED BY <1>1, <1>2, <1>3 DEF TablesOf, Range

LEMMA TablesOfDatabase ==
  ASSUME NEW e, EntryIsValid(e), TablesAreOfDatabase(e),
         NEW t \in Range(e.target), TargetType(file, t.name) = "clickhouse"
  PROVE  TablesOf(e) = IF t.table = "" THEN {} ELSE {t.table}
<1>1. PICK k \in DOMAIN e.target : t = e.target[k]
  BY DEF Range
<1>2. \A j \in DOMAIN e.target : e.target[j].table # "" => j = k
  BY <1>1 DEF EntryIsValid, TablesAreOfDatabase, Range
<1>3. \A x : x \in TablesOf(e) <=> t.table # "" /\ x = t.table
  <2> SUFFICES ASSUME NEW x
               PROVE  x \in TablesOf(e) <=> t.table # "" /\ x = t.table
    OBVIOUS
  <2>1. ASSUME x \in TablesOf(e)
        PROVE  t.table # "" /\ x = t.table
    <3>1. PICK j \in DOMAIN e.target : x = e.target[j].table /\ x # ""
      BY <2>1 DEF TablesOf, Range
    <3> QED BY <1>1, <1>2, <3>1
  <2>2. ASSUME t.table # "", x = t.table
        PROVE  x \in TablesOf(e)
    BY <2>2 DEF TablesOf
  <2> QED BY <2>1, <2>2
<1>4. CASE t.table = ""
  BY <1>3, <1>4
<1>5. CASE t.table # ""
  <2>1. \A x : x \in TablesOf(e) <=> x \in {t.table}
    BY <1>3, <1>5
  <2>2. TablesOf(e) \subseteq {t.table} /\ {t.table} \subseteq TablesOf(e)
    BY <2>1
  <2> QED BY <1>5, <2>2
<1> QED BY <1>4, <1>5

-----------------------------------------------------------------------------
\* Whether an entry puts its index into the common table.
SaysCommonTable(r, e) == \E t \in Range(e.target) : SaysCommon(r, t)

LEMMA CommonIsSaid ==
  ASSUME NEW e, EntryIsValid(e), e.target # <<>>, NEW r, r.common \in BOOLEAN,
         \A t \in Range(e.target) : t.common \in {"unset", "false", Value},
         SaysCommonTable(r, e) => Len(e.target) = 1,
         NEW yes \in {Value, Text}, NEW before,
         yes = Text => \A t \in Range(e.target) : t.common = "unset"
  PROVE  Common(e, r, yes, before) <=> SaysCommonTable(r, e)
<1> DEFINE n == Len(e.target)
           own == e.target[n].common
<1>1. n \in Nat \ {0} /\ DOMAIN e.target = 1 .. n
  BY ListDomain, EmptySeq DEF EntryIsValid, IsList
<1>2. Last(e.target) = e.target[n] /\ e.target[n] \in Range(e.target)
  BY <1>1 DEF Last, Range
<1>3. Common(e, r, yes, before) = IF own = "unset" THEN r.common ELSE own = yes
  BY <1>2 DEF Common
<1>4. SaysCommon(r, e.target[n]) <=> (own = "unset" /\ r.common) \/ own = Value
  BY <1>2 DEF SaysCommon, Value
<1>5. SaysCommon(r, e.target[n]) <=> SaysCommonTable(r, e)
  <2>1. CASE SaysCommonTable(r, e)
    BY <1>1, <1>2, <2>1 DEF SaysCommonTable, Range
  <2> QED BY <1>2, <2>1 DEF SaysCommonTable
<1>6. Common(e, r, yes, before) <=> SaysCommon(r, e.target[n])
  <2>1. yes = Text => own = "unset"
    BY <1>2
  <2> QED BY <1>3, <1>4, <2>1 DEF Value, Text
<1> QED BY <1>5, <1>6

-----------------------------------------------------------------------------
\* The processors of an accepted file that does more than pass requests on.
InUse == IsFile(file) /\ IsAccepted(file) /\ ~Passes(file)

IsProcessor(r) == r \in Range(file.processors) /\ Wildcard \in DOMAIN r.indexes /\ r.type # NoOp

LEMMA ProcessorIsListed ==
  ASSUME IsFile(file), Valid(file), NEW p \in Range(file.pipelines)
  PROVE  ProcessorOf(file, p) \in Range(file.processors)
<1>1. IsList(p.processors) /\ IsList(file.processors)
  BY DEF IsFile
<1>2. Len(p.processors) = 1 /\ Range(p.processors) \subseteq Names(file.processors)
  BY DEF Valid, PipelineIsValid
<1>3. p.processors[1] \in Names(file.processors)
  <2>1. 1 \in DOMAIN p.processors
    BY <1>1, <1>2, ListDomain
  <2> QED BY <1>2, <2>1 DEF Range
<1> QED BY <1>1, <1>3, NamedIsListed DEF ProcessorOf, Range

LEMMA ProcessorIsNotNone ==
  ASSUME IsFile(file), NEW r \in Range(file.processors)
  PROVE  r # None
<1>1. DOMAIN r = {"name", "type", "common", "indexes"}
  BY DEF IsFile
<1>2. DOMAIN None = {"kind"} /\ "kind" \notin {"name", "type", "common", "indexes"}
  BY DEF None
<1> QED BY <1>1, <1>2

LEMMA SinglePipeline ==
  ASSUME InUse, Len(file.pipelines) = 1
  PROVE  LET r == ProcessorOf(file, file.pipelines[1])
         IN  /\ IsProcessor(r) /\ UsedProcessors(file) = {r}
             /\ ProcessorFor("query") = r /\ ProcessorFor("ingest") = None
<1> DEFINE r == ProcessorOf(file, file.pipelines[1])
<1>1. Valid(file) /\ IsFile(file)
  BY DEF InUse, IsAccepted
<1>2. DOMAIN file.pipelines = {1} /\ Range(file.pipelines) = {file.pipelines[1]}
  <2>1. DOMAIN file.pipelines = 1 .. 1
    BY <1>1, ListDomain DEF IsFile
  <2>2. 1 .. 1 = {1}
    OBVIOUS
  <2> QED BY <2>1, <2>2 DEF Range
<1>3. UsedProcessors(file) = {r}
  BY <1>2 DEF UsedProcessors
<1>4. r.type # NoOp /\ r \in Range(file.processors)
  <2>1. r.type # NoOp
    BY <1>3 DEF InUse, Passes
  <2> QED BY <1>1, <1>2, <2>1, ProcessorIsListed
<1>5. r.type = QueryType /\ Wildcard \in DOMAIN r.indexes
  <2>1. SinglePipelineIsValid(file)
    BY <1>1 DEF Valid
  <2> QED BY <1>4, <2>1 DEF SinglePipelineIsValid, NoOp, QueryType
<1>6. {q \in {r} : q.type = QueryType} = {r} /\ {q \in {r} : q.type = IngestType} = {}
  BY <1>5 DEF QueryType, IngestType
<1>7. ProcessorFor("query") = r /\ ProcessorFor("ingest") = None
  BY <1>3, <1>6 DEF ProcessorFor
<1> QED BY <1>3, <1>4, <1>5, <1>7 DEF IsProcessor

LEMMA TwoPipelines ==
  ASSUME InUse, Len(file.pipelines) # 1
  PROVE  LET Q == ProcessorOf(file, PipelineFor(file, QueryFrontend))
             N == ProcessorOf(file, PipelineFor(file, IngestFrontend))
         IN  /\ IsProcessor(Q) /\ IsProcessor(N) /\ Q.common = N.common
             /\ ProcessorFor("query") = Q /\ ProcessorFor("ingest") = N
<1> DEFINE pq == PipelineFor(file, QueryFrontend)
           pn == PipelineFor(file, IngestFrontend)
           Q == ProcessorOf(file, pq)
           N == ProcessorOf(file, pn)
           all == Range(file.pipelines)
           type(p) == FrontendOf(file, p).type
<1>1. Valid(file) /\ IsFile(file)
  BY DEF InUse, IsAccepted
<1>2. TwoPipelinesAreValid(file) /\ Len(file.pipelines) = 2
  BY <1>1 DEF Valid
<1>3. {type(p) : p \in all} = {QueryFrontend, IngestFrontend}
  BY <1>2 DEF TwoPipelinesAreValid
<1>4. PICK p1 \in all, p2 \in all : all = {p1, p2}
  <2>1. DOMAIN file.pipelines = 1 .. 2
    BY <1>1, <1>2, ListDomain DEF IsFile
  <2>2. 1 .. 2 = {1, 2}
    OBVIOUS
  <2> QED BY <2>1, <2>2 DEF Range
<1>5. QueryFrontend # IngestFrontend /\ QueryType # IngestType /\ NoOp # QueryType /\ NoOp # IngestType
  BY DEF QueryFrontend, IngestFrontend, QueryType, IngestType, NoOp
<1>6. pq \in all /\ type(pq) = QueryFrontend /\ pn \in all /\ type(pn) = IngestFrontend
  <2>1. (\E p \in all : type(p) = QueryFrontend) /\ (\E p \in all : type(p) = IngestFrontend)
    BY <1>3
  <2>2. /\ pq = CHOOSE p \in all : type(p) = QueryFrontend
        /\ pn = CHOOSE p \in all : type(p) = IngestFrontend
    BY DEF PipelineFor
  <2> QED BY <2>1, <2>2
<1>7. all = {pq, pn}
  BY <1>4, <1>5, <1>6
<1>8. UsedProcessors(file) = {Q, N}
  BY <1>7 DEF UsedProcessors
<1>9. Q.type # NoOp /\ N.type # NoOp
  BY <1>8 DEF InUse, Passes
<1>10. /\ Q.type = QueryType /\ N.type = IngestType /\ Q.common = N.common
       /\ Wildcard \in DOMAIN Q.indexes \intersect DOMAIN N.indexes
  BY <1>2, <1>9 DEF TwoPipelinesAreValid
<1>11. {q \in {Q, N} : q.type = QueryType} = {Q} /\ {q \in {Q, N} : q.type = IngestType} = {N}
  BY <1>5, <1>10
<1>12. ProcessorFor("query") = Q /\ ProcessorFor("ingest") = N
  BY <1>8, <1>11 DEF ProcessorFor
<1>13. Q \in Range(file.processors) /\ N \in Range(file.processors)
  BY <1>1, <1>6, ProcessorIsListed
<1> QED BY <1>9, <1>10, <1>12, <1>13 DEF IsProcessor

-----------------------------------------------------------------------------
\* What the agreement of an index's settings says of its entry in a processor.
EntryIsPlain(r, e, i) ==
  /\ EntryIsValid(e) /\ TablesAreOfDatabase(e) /\ r.common \in BOOLEAN /\ ~e.common /\ e.table = ""
  /\ \A t \in Range(e.target) : t.common \in {"unset", "false", Value}
  /\ ~HasEntry(r, i) => TablesOf(e) = {} /\ \A t \in Range(e.target) : t.common = "unset"
  /\ SaysCommonTable(r, e) =>
       Len(e.target) = 1 /\ TargetType(file, e.target[1].name) = "clickhouse"

LEMMA EntryOfProcessor ==
  ASSUME InUse, NEW r, IsProcessor(r), NEW i,
         LET e == Entry(r, i)
         IN  \A j, k \in DOMAIN e.target : e.target[j].name = e.target[k].name => j = k
  PROVE  EntryIsValid(Entry(r, i)) /\ r.common \in BOOLEAN
<1> DEFINE e == Entry(r, i)
<1>1. IsFile(file) /\ Valid(file) /\ r \in Range(file.processors) /\ r.type # NoOp
  BY DEF InUse, IsAccepted, IsProcessor
<1>2. PICK n \in DOMAIN r.indexes : e = r.indexes[n]
  BY DEF Entry, IsProcessor
<1>3. ProcessorIsValid(file, r) /\ BackendsAreValid(file)
  BY <1>1 DEF Valid
<1>4. Len(e.target) <= 2 /\ Names(e.target) \subseteq Names(file.backends)
  BY <1>1, <1>2, <1>3 DEF ProcessorIsValid
<1>5. r.common \in BOOLEAN /\ IsList(e.target)
  BY <1>1, <1>2 DEF IsFile
<1>6. ASSUME NEW j \in DOMAIN e.target, NEW k \in DOMAIN e.target,
             TargetType(file, e.target[j].name) = TargetType(file, e.target[k].name)
      PROVE  j = k
  <2>1. e.target[j].name \in Names(file.backends) /\ e.target[k].name \in Names(file.backends)
    BY <1>4 DEF Names
  <2>2. e.target[j].name = e.target[k].name
    BY <1>1, <1>3, <1>6, <2>1, TypesDiffer
  <2> QED BY <2>2
<1> QED BY <1>4, <1>5, <1>6 DEF EntryIsValid

LEMMA AttributesSay ==
  ASSUME NEW p, NEW i, ProcessorFor(p) # None
  PROVE  LET r == ProcessorFor(p)
             e == Entry(r, i)
         IN  /\ SaysCommonTable(r, e) <=> \E a \in Attributes(p, i) : a.common
             /\ TablesOf(e) = {a.table : a \in Attributes(p, i)} \ {""}
             /\ Range(e.target) = {} <=> Attributes(p, i) = {}
<1> DEFINE r == ProcessorFor(p)
           e == Entry(r, i)
           of(t) == [common |-> SaysCommon(r, t), table |-> t.table]
<1>1. Attributes(p, i) = {of(t) : t \in Range(e.target)}
  BY DEF Attributes
<1>2. \A t : of(t).table = t.table /\ (of(t).common <=> SaysCommon(r, t))
  BY DEF SaysCommon
<1> HIDE DEF of
<1>3. SaysCommonTable(r, e) <=> \E a \in Attributes(p, i) : a.common
  <2>1. ASSUME SaysCommonTable(r, e)
        PROVE  \E a \in Attributes(p, i) : a.common
    <3>1. PICK t \in Range(e.target) : SaysCommon(r, t)
      BY <2>1 DEF SaysCommonTable
    <3>2. of(t) \in Attributes(p, i) /\ of(t).common
      BY <1>1, <1>2, <3>1
    <3> QED BY <3>2
  <2>2. ASSUME NEW a \in Attributes(p, i), a.common
        PROVE  SaysCommonTable(r, e)
    <3>1. PICK t \in Range(e.target) : a = of(t)
      BY <1>1
    <3>2. SaysCommon(r, t)
      BY <1>2, <2>2, <3>1
    <3> QED BY <3>2 DEF SaysCommonTable
  <2> QED BY <2>1, <2>2
<1>4. {a.table : a \in Attributes(p, i)} = {t.table : t \in Range(e.target)}
  <2>1. \A t \in Range(e.target) : t.table \in {a.table : a \in Attributes(p, i)}
    <3> TAKE t \in Range(e.target)
    <3>1. of(t) \in Attributes(p, i) /\ of(t).table = t.table
      BY <1>1, <1>2
    <3> QED BY <3>1
  <2>2. \A a \in Attributes(p, i) : a.table \in {t.table : t \in Range(e.target)}
    BY <1>1, <1>2
  <2> QED BY <2>1, <2>2
<1>5. TablesOf(e) = {a.table : a \in Attributes(p, i)} \ {""}
  BY <1>4 DEF TablesOf
<1>6. Range(e.target) = {} <=> Attributes(p, i) = {}
  BY <1>1
<1> QED BY <1>3, <1>5, <1>6

LEMMA AgreementOnEntry ==
  ASSUME InUse, NEW i, Agree(i), NEW p \in {"query", "ingest"}, IsProcessor(ProcessorFor(p))
  PROVE  LET r == ProcessorFor(p)
             e == Entry(r, i)
         IN  /\ EntryIsPlain(r, e, i)
             /\ (\E q \in {"query", "ingest"} : ProcessorFor(q) = None) =>
                  \A t \in Range(e.target) : t.common = "unset"
<1> DEFINE r == ProcessorFor(p)
           e == Entry(r, i)
           used == {q \in {"query", "ingest"} : ProcessorFor(q) # None}
<1>1. r # None /\ p \in used
  BY ProcessorIsNotNone DEF InUse, IsProcessor
<1>2. /\ ~e.common /\ e.table = ""
      /\ \A j, k \in DOMAIN e.target : e.target[j].name = e.target[k].name => j = k
      /\ (\E a \in Attributes(p, i) : a.common) =>
           Len(Promise(p, i)) = 1 /\ Promise(p, i)[1] # Elastic
      /\ \A t \in Range(e.target) :
           /\ t.common \in {"unset", "false", Value}
           /\ t.common # "unset" => HasEntry(r, i) /\ used = {"query", "ingest"}
           /\ t.table # "" => HasEntry(r, i) /\ TargetType(file, t.name) = "clickhouse"
  BY <1>1 DEF Agree
<1>3. EntryIsValid(e) /\ r.common \in BOOLEAN
  BY <1>2, EntryOfProcessor
<1>4. ASSUME SaysCommonTable(r, e)
      PROVE  Len(e.target) = 1 /\ TargetType(file, e.target[1].name) = "clickhouse"
  <2>1. Len(Promise(p, i)) = 1 /\ Promise(p, i)[1] # Elastic
    BY <1>1, <1>2, <1>4, AttributesSay
  <2>2. Promise(p, i) = [k \in DOMAIN e.target |-> Promised(r, i, e.target[k])]
    BY <1>1 DEF Promise
  <2>3. Len(e.target) \in Nat /\ DOMAIN e.target = 1 .. Len(e.target)
    BY <1>3, ListDomain DEF EntryIsValid
  <2>4. Len(Promise(p, i)) = Len(e.target)
    BY <2>2, <2>3
  <2>5. Promised(r, i, e.target[1]) # Elastic
    BY <2>1, <2>2, <2>3, <2>4
  <2> QED BY <2>1, <2>4, <2>5 DEF Promised, TargetType
<1>5. ~HasEntry(r, i) => TablesOf(e) = {} /\ \A t \in Range(e.target) : t.common = "unset"
  BY <1>2 DEF TablesOf
<1>6. TablesAreOfDatabase(e)
  BY <1>2 DEF TablesAreOfDatabase
<1>7. EntryIsPlain(r, e, i)
  BY <1>2, <1>3, <1>4, <1>5, <1>6 DEF EntryIsPlain
<1>8. (\E q \in {"query", "ingest"} : ProcessorFor(q) = None) =>
        \A t \in Range(e.target) : t.common = "unset"
  BY <1>2
<1> QED BY <1>7, <1>8

LEMMA AgreementOfBoth ==
  ASSUME NEW i, Agree(i), ProcessorFor("query") # None, ProcessorFor("ingest") # None
  PROVE  LET Q  == ProcessorFor("query")
             N  == ProcessorFor("ingest")
             eQ == Entry(Q, i)
             eN == Entry(N, i)
         IN  /\ SaysCommonTable(Q, eQ) <=> SaysCommonTable(N, eN)
             /\ TablesOf(eQ) = TablesOf(eN)
             /\ Range(eQ.target) = {} <=> Range(eN.target) = {}
<1> DEFINE used == {p \in {"query", "ingest"} : ProcessorFor(p) # None}
<1>1. \A p, q \in used : Attributes(p, i) = Attributes(q, i)
  BY DEF Agree
<1>2. "query" \in used /\ "ingest" \in used
  OBVIOUS
<1>3. Attributes("query", i) = Attributes("ingest", i)
  BY <1>1, <1>2
<1> QED BY <1>3, AttributesSay
-----------------------------------------------------------------------------
\* What the settings say of an index, in the words of its entry in the
\* processor of a pipeline; without a processor it has no targets.
TargetsAreSet(c, p, i, targets) ==
  IF i \in DOMAIN c.indexes THEN c.indexes[i][p] = targets ELSE c.defaults[p] = targets

CommonIsSet(c, r, e, i) ==
  e.target # <<>> =>
    ((IF i \in DOMAIN c.indexes THEN c.indexes[i].common ELSE c.commonForWildcard)
       <=> SaysCommonTable(r, e))

TableIsSet(c, e, i) ==
  IF i \notin DOMAIN c.indexes THEN TablesOf(e) = {}
  ELSE IF TablesOf(e) = {} THEN c.indexes[i].table = i
  ELSE c.indexes[i].table \in TablesOf(e)

Configured(c, p, i) ==
  LET r == ProcessorFor(p)
      e == Entry(r, i)
  IN  IF r = None THEN TargetsAreSet(c, p, i, <<>>)
      ELSE TargetsAreSet(c, p, i, Targets(file, e)) /\ CommonIsSet(c, r, e, i) /\ TableIsSet(c, e, i)

LEMMA IndexOfSettings ==
  \A indexes : \A i \in DOMAIN indexes : \A p \in {"query", "ingest"} :
    DOMAIN indexes[i] = {"query", "ingest", "common", "table"} =>
      /\ WithTableNames(indexes)[i][p] = indexes[i][p]
      /\ WithTableNames(indexes)[i].common = indexes[i].common
      /\ WithTableNames(indexes)[i].table = IF indexes[i].table = "" THEN i ELSE indexes[i].table
<1> SUFFICES ASSUME NEW indexes, NEW i \in DOMAIN indexes, NEW p \in {"query", "ingest"},
                    DOMAIN indexes[i] = {"query", "ingest", "common", "table"}
             PROVE  /\ WithTableNames(indexes)[i][p] = indexes[i][p]
                    /\ WithTableNames(indexes)[i].common = indexes[i].common
                    /\ WithTableNames(indexes)[i].table = IF indexes[i].table = "" THEN i ELSE indexes[i].table
  OBVIOUS
<1> DEFINE own == indexes[i]
<1>1. WithTableNames(indexes)[i] = [own EXCEPT !.table = IF @ = "" THEN i ELSE @]
  BY DEF WithTableNames
<1>2. p \in DOMAIN own /\ "common" \in DOMAIN own /\ "table" \in DOMAIN own /\ p # "table"
  OBVIOUS
<1> HIDE DEF own
<1>3. /\ [own EXCEPT !.table = IF @ = "" THEN i ELSE @][p] = own[p]
      /\ [own EXCEPT !.table = IF @ = "" THEN i ELSE @].common = own.common
      /\ [own EXCEPT !.table = IF @ = "" THEN i ELSE @].table = IF own.table = "" THEN i ELSE own.table
  BY <1>2
<1> QED BY <1>1, <1>3 DEF own

LEMMA SingleIsConfigured ==
  ASSUME InUse, Len(file.pipelines) = 1, NEW i, Agree(i), NEW p \in {"query", "ingest"}
  PROVE  Configured(SingleSettings(file), p, i)
<1> DEFINE r == ProcessorOf(file, file.pipelines[1])
           e == Entry(r, i)
           all == r.indexes[Wildcard]
           own == DOMAIN r.indexes \ {Wildcard}
           indexes == [n \in own |-> FromQuery(file, r, Text, <<>>, n)]
           defaults == [q \in {"query", "ingest"} |-> IF q = "query" THEN Targets(file, all) ELSE <<>>]
           wild == all.common \/ Common(all, r, Text, FALSE)
           c == Settings(indexes, defaults, wild, FALSE, file)
           common == Common(e, r, Text, e.common)
           table == Table(e, e.table)
<1>1. IsProcessor(r) /\ ProcessorFor("query") = r /\ ProcessorFor("ingest") = None
  BY SinglePipeline
<1>2. EntryIsPlain(r, e, i) /\ \A t \in Range(e.target) : t.common = "unset"
  BY <1>1, AgreementOnEntry
<1>3. e = IF i \in own THEN r.indexes[i] ELSE all
  BY <1>1 DEF Entry, IsProcessor
<1>4. ASSUME i \in own
      PROVE  indexes[i] = [query |-> Targets(file, e), ingest |-> <<>>,
                           common |-> common, table |-> table]
  BY <1>3, <1>4 DEF FromQuery, Base
<1>5. DOMAIN indexes = own
  OBVIOUS
<1>6. SingleSettings(file) = c
  BY DEF SingleSettings
<1> HIDE DEF indexes, common, table, c, wild, defaults
<1>7. /\ DOMAIN c.indexes = own /\ c.defaults = defaults /\ c.commonForWildcard = wild
      /\ i \in own =>
           /\ c.indexes[i][p] = IF p = "query" THEN Targets(file, e) ELSE <<>>
           /\ c.indexes[i].common = common
           /\ c.indexes[i].table = IF table = "" THEN i ELSE table
  <2>1. /\ DOMAIN c.indexes = own /\ c.defaults = defaults /\ c.commonForWildcard = wild
        /\ c.indexes = WithTableNames(indexes)
    BY <1>5 DEF c, Settings, WithTableNames
  <2>2. ASSUME i \in own
        PROVE  /\ DOMAIN indexes[i] = {"query", "ingest", "common", "table"}
               /\ indexes[i][p] = IF p = "query" THEN Targets(file, e) ELSE <<>>
               /\ indexes[i].common = common /\ indexes[i].table = table
    BY <1>4, <2>2
  <2>3. ASSUME i \in own
        PROVE  /\ c.indexes[i][p] = indexes[i][p] /\ c.indexes[i].common = indexes[i].common
               /\ c.indexes[i].table = IF indexes[i].table = "" THEN i ELSE indexes[i].table
    <3>1. i \in DOMAIN indexes /\ DOMAIN indexes[i] = {"query", "ingest", "common", "table"}
      BY <1>5, <2>2, <2>3
    <3>2. LET w == WithTableNames(indexes)[i]
          IN  /\ w[p] = indexes[i][p] /\ w.common = indexes[i].common
              /\ w.table = IF indexes[i].table = "" THEN i ELSE indexes[i].table
      BY <3>1, IndexOfSettings, Zenon
    <3> QED BY <2>1, <3>2
  <2> QED BY <2>1, <2>2, <2>3
<1>8. TargetsAreSet(c, p, i, IF p = "query" THEN Targets(file, e) ELSE <<>>)
  BY <1>3, <1>7 DEF TargetsAreSet, defaults
<1>9. ASSUME e.target # <<>>
      PROVE  \A before : Common(e, r, Text, before) <=> SaysCommonTable(r, e)
  <2>1. EntryIsValid(e) /\ r.common \in BOOLEAN /\ (SaysCommonTable(r, e) => Len(e.target) = 1)
    BY <1>2 DEF EntryIsPlain
  <2> HIDE DEF e, r
  <2>2. \A t \in Range(e.target) : t.common \in {"unset", "false", Value}
    BY <1>2
  <2> QED BY <1>2, <1>9, <2>1, <2>2, CommonIsSaid
<1>10. CommonIsSet(c, r, e, i)
  BY <1>2, <1>3, <1>7, <1>9 DEF CommonIsSet, EntryIsPlain, common, wild
<1>11. IF TablesOf(e) = {} THEN table = "" ELSE table \in TablesOf(e)
  BY <1>2, TableIsOne DEF EntryIsPlain, EntryIsValid, table
<1>12. TableIsSet(c, e, i)
  <2>1. i \notin own => TablesOf(e) = {}
    BY <1>2 DEF EntryIsPlain, HasEntry
  <2>2. "" \notin TablesOf(e)
    BY DEF TablesOf
  <2> QED BY <1>7, <1>11, <2>1, <2>2 DEF TableIsSet
<1>13. r # None
  BY <1>1, ProcessorIsNotNone DEF InUse, IsProcessor
<1> QED BY <1>1, <1>6, <1>8, <1>10, <1>12, <1>13 DEF Configured

\* The fields of an index's settings, after a processor for ingestion had it.
LEMMA FieldsOfIngest ==
  ASSUME NEW r, NEW i, NEW before, DOMAIN before = {"query", "ingest", "common", "table"}
  PROVE  LET x == FromIngest(file, r, before, i)
             e == r.indexes[i]
         IN  /\ DOMAIN x = {"query", "ingest", "common", "table"}
             /\ x.query = before.query /\ x.ingest = Targets(file, e)
             /\ x.common = Common(e, r, Value, before.common) /\ x.table = Table(e, before.table)
BY DEF FromIngest

LEMMA FieldsOfQuery ==
  ASSUME NEW r, NEW i, NEW yes, NEW ingest
  PROVE  LET x == FromQuery(file, r, yes, ingest, i)
             e == r.indexes[i]
         IN  /\ DOMAIN x = {"query", "ingest", "common", "table"}
             /\ x.query = Targets(file, e) /\ x.ingest = ingest
             /\ x.common = Common(e, r, yes, e.common) /\ x.table = Table(e, e.table)
BY DEF FromQuery, Base

LEMMA DualIsConfigured ==
  ASSUME InUse, Len(file.pipelines) # 1, NEW i, Agree(i), NEW p \in {"query", "ingest"}
  PROVE  Configured(DualSettings(file), p, i)
<1> DEFINE Q == ProcessorOf(file, PipelineFor(file, QueryFrontend))
           N == ProcessorOf(file, PipelineFor(file, IngestFrontend))
           eQ == Entry(Q, i)
           eN == Entry(N, i)
           all(r) == r.indexes[Wildcard]
           own(r) == DOMAIN r.indexes \ {Wildcard}
           defaults == [q \in {"query", "ingest"} |-> Targets(file, all(IF q = "query" THEN Q ELSE N))]
           common == Common(all(N), N, Text, all(Q).common \/ Common(all(Q), Q, Text, FALSE))
           asked == [n \in own(Q) |-> FromQuery(file, Q, Value, defaults["ingest"], n)]
           before(n) == IF n \in own(Q) THEN asked[n]
                        ELSE Base(N.indexes[n], defaults["query"], <<>>)
           indexes == [n \in own(Q) \union own(N) |->
                         IF n \in own(N) THEN FromIngest(file, N, before(n), n) ELSE asked[n]]
           wild == all(N).common \/ common
           c == Settings(indexes, defaults, wild, TRUE, file)
<1>1. /\ IsProcessor(Q) /\ IsProcessor(N) /\ Q # None /\ N # None
      /\ ProcessorFor("query") = Q /\ ProcessorFor("ingest") = N
  BY TwoPipelines, ProcessorIsNotNone DEF IsProcessor, InUse
<1>2. EntryIsPlain(Q, eQ, i) /\ EntryIsPlain(N, eN, i)
  BY <1>1, AgreementOnEntry
<1>3. /\ SaysCommonTable(Q, eQ) <=> SaysCommonTable(N, eN)
      /\ TablesOf(eQ) = TablesOf(eN)
      /\ Range(eQ.target) = {} <=> Range(eN.target) = {}
  BY <1>1, AgreementOfBoth
<1>4. /\ eQ = IF i \in own(Q) THEN Q.indexes[i] ELSE all(Q)
      /\ eN = IF i \in own(N) THEN N.indexes[i] ELSE all(N)
  BY <1>1 DEF Entry, IsProcessor
<1>5. eQ.target = <<>> <=> eN.target = <<>>
  <2>1. ASSUME NEW e, IsList(e.target)
        PROVE  e.target = <<>> <=> Range(e.target) = {}
    <3>1. Range(e.target) = {} <=> DOMAIN e.target = {}
      BY DEF Range
    <3>2. DOMAIN e.target = 1 .. Len(e.target) /\ Len(e.target) \in Nat
      BY <2>1, ListDomain
    <3>3. DOMAIN e.target = {} <=> Len(e.target) = 0
      <4>1. \A n \in Nat : 1 .. n = {} <=> n = 0
        OBVIOUS
      <4> QED BY <3>2, <4>1
    <3>4. e.target = <<>> <=> Len(e.target) = 0
      BY <2>1, EmptySeq DEF IsList
    <3> QED BY <3>1, <3>3, <3>4
  <2> QED BY <1>2, <1>3, <2>1 DEF EntryIsPlain, EntryIsValid
<1>6. DualSettings(file) = c
  BY DEF DualSettings
<1>7. defaults["query"] = Targets(file, all(Q)) /\ defaults["ingest"] = Targets(file, all(N))
  OBVIOUS
<1>8. ASSUME i \in own(Q)
      PROVE  /\ DOMAIN asked[i] = {"query", "ingest", "common", "table"}
             /\ asked[i].query = Targets(file, eQ) /\ asked[i].ingest = defaults["ingest"]
             /\ asked[i].common = Common(eQ, Q, Value, eQ.common)
             /\ asked[i].table = Table(eQ, eQ.table)
  <2>1. asked[i] = FromQuery(file, Q, Value, defaults["ingest"], i) /\ eQ = Q.indexes[i]
    BY <1>4, <1>8
  <2> HIDE DEF asked, defaults, Q, eQ
  <2> QED BY <2>1, FieldsOfQuery
<1>9. ASSUME i \in own(N)
      PROVE  /\ DOMAIN before(i) = {"query", "ingest", "common", "table"}
             /\ before(i).query = Targets(file, eQ)
             /\ before(i).table = IF i \in own(Q) THEN Table(eQ, eQ.table) ELSE eN.table
  <2>1. CASE i \in own(Q)
    BY <1>8, <2>1
  <2>2. CASE i \notin own(Q)
    BY <1>4, <1>7, <1>9, <2>2 DEF Base
  <2> QED BY <2>1, <2>2
<1> HIDE DEF asked, before, defaults, wild, common
<1>10. ASSUME i \in DOMAIN indexes
       PROVE  /\ DOMAIN indexes[i] = {"query", "ingest", "common", "table"}
              /\ indexes[i].query = Targets(file, eQ) /\ indexes[i].ingest = Targets(file, eN)
              /\ indexes[i].common =
                   IF i \in own(N) THEN Common(eN, N, Value, before(i).common)
                   ELSE Common(eQ, Q, Value, eQ.common)
              /\ indexes[i].table =
                   IF i \notin own(N) THEN Table(eQ, eQ.table)
                   ELSE Table(eN, IF i \in own(Q) THEN Table(eQ, eQ.table) ELSE eN.table)
  <2>1. CASE i \in own(N)
    <3>1. indexes[i] = FromIngest(file, N, before(i), i) /\ eN = N.indexes[i]
      BY <1>4, <2>1
    <3> HIDE DEF indexes, N, eN, eQ
    <3> QED BY <1>9, <2>1, <3>1, FieldsOfIngest
  <2>2. CASE i \notin own(N)
    <3>1. i \in own(Q) /\ indexes[i] = asked[i]
      BY <1>10, <2>2
    <3>2. defaults["ingest"] = Targets(file, eN)
      BY <1>4, <1>7, <2>2
    <3> HIDE DEF indexes, N, eN, eQ
    <3> QED BY <1>8, <2>2, <3>1, <3>2
  <2> QED BY <2>1, <2>2
<1>11. DOMAIN indexes = own(Q) \union own(N)
  OBVIOUS
<1> HIDE DEF indexes
<1>12. /\ DOMAIN c.indexes = own(Q) \union own(N) /\ c.defaults = defaults
       /\ c.commonForWildcard = wild /\ c.indexes = WithTableNames(indexes)
  BY <1>11 DEF Settings, WithTableNames
<1>13. ASSUME i \in DOMAIN c.indexes
       PROVE  /\ c.indexes[i][p] = indexes[i][p] /\ c.indexes[i].common = indexes[i].common
              /\ c.indexes[i].table = IF indexes[i].table = "" THEN i ELSE indexes[i].table
  <2>1. i \in DOMAIN indexes /\ DOMAIN indexes[i] = {"query", "ingest", "common", "table"}
    BY <1>10, <1>11, <1>12, <1>13
  <2>2. LET w == WithTableNames(indexes)[i]
        IN  /\ w[p] = indexes[i][p] /\ w.common = indexes[i].common
            /\ w.table = IF indexes[i].table = "" THEN i ELSE indexes[i].table
    BY <2>1, IndexOfSettings, Zenon
  <2> QED BY <1>12, <2>2
<1> HIDE DEF c
<1> DEFINE r == IF p = "query" THEN Q ELSE N
           e == Entry(r, i)
<1>14. e = IF p = "query" THEN eQ ELSE eN
  OBVIOUS
<1>15. TargetsAreSet(c, p, i, Targets(file, e))
  <2>1. CASE i \in DOMAIN c.indexes
    <3>1. i \in DOMAIN indexes
      BY <1>11, <1>12, <2>1
    <3> HIDE DEF eQ, eN, e
    <3>2. CASE p = "query"
      BY <1>10, <1>13, <1>14, <2>1, <3>1, <3>2 DEF TargetsAreSet
    <3>3. CASE p = "ingest"
      BY <1>10, <1>13, <1>14, <2>1, <3>1, <3>3 DEF TargetsAreSet
    <3> QED BY <3>2, <3>3
  <2>2. CASE i \notin DOMAIN c.indexes
    <3>1. eQ = all(Q) /\ eN = all(N)
      BY <1>4, <1>12, <2>2
    <3>2. c.defaults[p] = Targets(file, e)
      BY <1>7, <1>12, <1>14, <3>1
    <3> QED BY <2>2, <3>2 DEF TargetsAreSet
  <2> QED BY <2>1, <2>2
<1>16. ASSUME e.target # <<>>
       PROVE  /\ eQ.target # <<>> /\ eN.target # <<>>
              /\ SaysCommonTable(Q, eQ) <=> SaysCommonTable(r, e)
              /\ SaysCommonTable(N, eN) <=> SaysCommonTable(r, e)
  BY <1>3, <1>5, <1>16
<1>17. ASSUME e.target # <<>>
       PROVE  /\ \A b : Common(eQ, Q, Value, b) <=> SaysCommonTable(r, e)
              /\ \A b : Common(eN, N, Value, b) <=> SaysCommonTable(r, e)
              /\ ~HasEntry(N, i) => \A b : Common(eN, N, Text, b) <=> SaysCommonTable(r, e)
  <2> HIDE DEF eQ, eN, Q, N
  <2>1. /\ EntryIsValid(eQ) /\ Q.common \in BOOLEAN /\ (SaysCommonTable(Q, eQ) => Len(eQ.target) = 1)
        /\ \A t \in Range(eQ.target) : t.common \in {"unset", "false", Value}
    BY <1>2 DEF EntryIsPlain
  <2>2. /\ EntryIsValid(eN) /\ N.common \in BOOLEAN /\ (SaysCommonTable(N, eN) => Len(eN.target) = 1)
        /\ \A t \in Range(eN.target) : t.common \in {"unset", "false", Value}
        /\ ~HasEntry(N, i) => \A t \in Range(eN.target) : t.common = "unset"
    BY <1>2 DEF EntryIsPlain
  <2>3. Value # Text
    BY DEF Value, Text
  <2>4. \A b : Common(eQ, Q, Value, b) <=> SaysCommonTable(Q, eQ)
    BY <1>16, <1>17, <2>1, <2>3, CommonIsSaid
  <2>5. \A b : Common(eN, N, Value, b) <=> SaysCommonTable(N, eN)
    BY <1>16, <1>17, <2>2, <2>3, CommonIsSaid
  <2>6. ~HasEntry(N, i) => \A b : Common(eN, N, Text, b) <=> SaysCommonTable(N, eN)
    BY <1>16, <1>17, <2>2, <2>3, CommonIsSaid
  <2> QED BY <1>16, <1>17, <2>4, <2>5, <2>6
<1>18. CommonIsSet(c, r, e, i)
  <2> SUFFICES ASSUME e.target # <<>>
               PROVE  (IF i \in DOMAIN c.indexes THEN c.indexes[i].common ELSE c.commonForWildcard)
                        <=> SaysCommonTable(r, e)
    BY DEF CommonIsSet
  <2>1. CASE i \in DOMAIN c.indexes
    <3>1. c.indexes[i].common = IF i \in own(N) THEN Common(eN, N, Value, before(i).common)
                                ELSE Common(eQ, Q, Value, eQ.common)
      BY <1>10, <1>11, <1>12, <1>13, <2>1
    <3> HIDE DEF e, r, eQ, eN, Q, N
    <3> QED BY <1>17, <2>1, <3>1
  <2>2. CASE i \notin DOMAIN c.indexes
    <3>1. ~HasEntry(N, i) /\ eN = all(N)
      BY <1>4, <1>12, <2>2 DEF HasEntry
    <3>2. ~eN.common
      BY <1>2 DEF EntryIsPlain
    <3>3. common <=> SaysCommonTable(r, e)
      BY <1>17, <3>1 DEF common
    <3> QED BY <1>12, <2>2, <3>1, <3>2, <3>3 DEF wild
  <2> QED BY <2>1, <2>2
<1>19. TableIsSet(c, e, i)
  <2>1. TablesOf(e) = TablesOf(eQ) /\ TablesOf(e) = TablesOf(eN)
    BY <1>3
  <2>2. eQ.table = "" /\ eN.table = "" /\ IsList(eQ.target) /\ IsList(eN.target)
    BY <1>2 DEF EntryIsPlain, EntryIsValid
  <2>3. i \notin DOMAIN c.indexes => TablesOf(e) = {}
    BY <1>2, <1>12, <2>1 DEF EntryIsPlain, HasEntry
  <2>4. "" \notin TablesOf(e)
    BY DEF TablesOf
  <2> HIDE DEF e, eQ, eN
  <2>5. \A b : /\ IF TablesOf(e) = {} THEN Table(eQ, b) = b ELSE Table(eQ, b) \in TablesOf(e)
               /\ IF TablesOf(e) = {} THEN Table(eN, b) = b ELSE Table(eN, b) \in TablesOf(e)
    BY <2>1, <2>2, TableIsOne
  <2>6. ASSUME i \in DOMAIN c.indexes
        PROVE  IF TablesOf(e) = {} THEN indexes[i].table = "" ELSE indexes[i].table \in TablesOf(e)
    <3>1. i \in DOMAIN indexes
      BY <1>11, <1>12, <2>6
    <3> QED BY <1>10, <2>2, <2>5, <3>1
  <2> QED BY <1>13, <2>3, <2>4, <2>6 DEF TableIsSet
<1>20. ProcessorFor(p) = r /\ r # None
  BY <1>1
<1> HIDE DEF c, r, e
<1>21. Configured(c, p, i)
  <2>1. Entry(r, i) = e
    BY DEF e
  <2> QED BY <1>15, <1>18, <1>19, <1>20, <2>1 DEF Configured
<1> QED BY <1>6, <1>21
LEMMA SettingsAreConfigured ==
  ASSUME InUse, settings = TranslateToLegacyConfig(file),
         NEW i, Agree(i), NEW p \in {"query", "ingest"}
  PROVE  /\ Configured(settings, p, i)
         /\ ProcessorFor(p) # None => EntryIsPlain(ProcessorFor(p), Entry(ProcessorFor(p), i), i)
<1>1. CASE Len(file.pipelines) = 1
  <2>1. settings = SingleSettings(file)
    BY <1>1 DEF TranslateToLegacyConfig, InUse
  <2>2. ProcessorFor(p) # None => IsProcessor(ProcessorFor(p))
    BY <1>1, SinglePipeline
  <2> QED BY <1>1, <2>1, <2>2, SingleIsConfigured, AgreementOnEntry
<1>2. CASE Len(file.pipelines) # 1
  <2>1. settings = DualSettings(file)
    BY <1>2 DEF TranslateToLegacyConfig, InUse
  <2>2. IsProcessor(ProcessorFor(p))
    BY <1>2, TwoPipelines
  <2> QED BY <1>2, <2>1, <2>2, DualIsConfigured, AgreementOnEntry
<1> QED BY <1>1, <1>2

-----------------------------------------------------------------------------
\* What a target promises, in the words of its entry.
LEMMA PromisedIs ==
  ASSUME NEW r, NEW e, NEW i, EntryIsPlain(r, e, i), NEW t \in Range(e.target)
  PROVE  Promised(r, i, t) =
           IF TargetType(file, t.name) # "clickhouse" THEN Elastic
           ELSE IF SaysCommonTable(r, e) THEN Clickhouse(CommonTable, i, TRUE)
           ELSE Clickhouse(IF t.table = "" THEN i ELSE t.table, i, FALSE)
<1>1. SaysCommonTable(r, e) => SaysCommon(r, t)
  <2>1. SaysCommonTable(r, e) => Len(e.target) = 1
    BY DEF EntryIsPlain
  <2>2. DOMAIN e.target = 1 .. Len(e.target)
    BY ListDomain DEF EntryIsPlain, EntryIsValid
  <2> QED BY <2>1, <2>2 DEF SaysCommonTable, Range
<1>2. SaysCommon(r, t) => SaysCommonTable(r, e)
  BY DEF SaysCommonTable
<1>3. TargetType(file, t.name) # "clickhouse" <=> Named(file.backends, t.name).type = Elasticsearch
  BY DEF TargetType
<1> QED BY <1>1, <1>2, <1>3 DEF Promised

\* A decision sends an index where its targets say.
AsPromised(d, p, i) ==
  IF Promise(p, i) = <<>> THEN d = Closed
  ELSE /\ d.kind = "use" /\ d.connectors # <<>> /\ Range(d.connectors) = Range(Promise(p, i))
       /\ p = "query" => d.connectors[1] = Promise(p, i)[1]

\* The connectors for the types of the targets are those promised, in their order.
LEMMA ConnectorsArePromised ==
  ASSUME NEW p, NEW i, ProcessorFor(p) # None, NEW clickhouse,
         EntryIsPlain(ProcessorFor(p), Entry(ProcessorFor(p), i), i),
         \A t \in Range(Entry(ProcessorFor(p), i).target) :
           TargetType(file, t.name) = "clickhouse" => Promised(ProcessorFor(p), i, t) = clickhouse
  PROVE  Connectors(Targets(file, Entry(ProcessorFor(p), i)), clickhouse) = Promise(p, i)
<1> DEFINE r == ProcessorFor(p)
           e == Entry(r, i)
           targets == Targets(file, e)
<1>1. /\ DOMAIN targets = DOMAIN e.target
      /\ \A k \in DOMAIN e.target : targets[k] = TargetType(file, e.target[k].name)
  BY TargetsInOrder DEF EntryIsPlain
<1>2. Promise(p, i) = [k \in DOMAIN e.target |-> Promised(r, i, e.target[k])]
  BY DEF Promise
<1>3. \A k \in DOMAIN e.target :
        Promised(r, i, e.target[k]) = IF targets[k] = "clickhouse" THEN clickhouse ELSE Elastic
  <2> TAKE k \in DOMAIN e.target
  <2>1. e.target[k] \in Range(e.target)
    BY DEF Range
  <2>2. CASE targets[k] = "clickhouse"
    BY <1>1, <2>1, <2>2
  <2>3. CASE targets[k] # "clickhouse"
    <3>1. Named(file.backends, e.target[k].name).type = Elasticsearch
      BY <1>1, <2>3 DEF TargetType
    <3> QED BY <2>3, <3>1 DEF Promised
  <2> QED BY <2>2, <2>3
<1> HIDE DEF targets, e, r
<1>4. Connectors(targets, clickhouse) =
        [k \in DOMAIN e.target |-> IF targets[k] = "clickhouse" THEN clickhouse ELSE Elastic]
  BY <1>1 DEF Connectors
<1> QED BY <1>2, <1>3, <1>4 DEF targets, e, r

LEMMA PromiseIsEmpty ==
  ASSUME NEW p, NEW i, ProcessorFor(p) # None,
         EntryIsPlain(ProcessorFor(p), Entry(ProcessorFor(p), i), i)
  PROVE  LET e == Entry(ProcessorFor(p), i)
         IN  /\ Promise(p, i) = <<>> <=> e.target = <<>>
             /\ Targets(file, e) = <<>> <=> e.target = <<>>
<1> DEFINE e == Entry(ProcessorFor(p), i)
<1>1. Promise(p, i) = [k \in DOMAIN e.target |-> Promised(ProcessorFor(p), i, e.target[k])]
  BY DEF Promise
<1>2. DOMAIN Promise(p, i) = DOMAIN e.target
  BY <1>1
<1>3. e.target = <<>> <=> DOMAIN e.target = {}
  <2>1. IsList(e.target)
    BY DEF EntryIsPlain, EntryIsValid
  <2>2. DOMAIN e.target = 1 .. Len(e.target) /\ Len(e.target) \in Nat
    BY <2>1, ListDomain
  <2>3. DOMAIN e.target = {} <=> Len(e.target) = 0
    <3>1. \A n \in Nat : 1 .. n = {} <=> n = 0
      OBVIOUS
    <3> QED BY <2>2, <3>1
  <2>4. e.target = <<>> <=> Len(e.target) = 0
    BY <2>1, EmptySeq DEF IsList
  <2> QED BY <2>3, <2>4
<1>4. Promise(p, i) = <<>> <=> DOMAIN e.target = {}
  <2>1. ASSUME DOMAIN e.target = {}
        PROVE  Promise(p, i) = <<>>
    BY <1>1, <2>1
  <2>2. ASSUME Promise(p, i) = <<>>
        PROVE  DOMAIN e.target = {}
    BY <1>2, <2>2
  <2> QED BY <2>1, <2>2
<1> QED BY <1>3, <1>4, TargetsInOrder DEF EntryIsPlain
\* The order of targets does not matter to what their connectors are.
LEMMA OrderOfTargets ==
  ASSUME NEW e, EntryIsValid(e), Len(e.target) = 2
  PROVE  Range(Targets(file, e)) = {"clickhouse", "elasticsearch"}
<1> DEFINE targets == Targets(file, e)
           type(k) == TargetType(file, e.target[k].name)
<1>1. DOMAIN e.target = {1, 2}
  <2>1. DOMAIN e.target = 1 .. 2
    BY ListDomain DEF EntryIsValid
  <2>2. 1 .. 2 = {1, 2}
    OBVIOUS
  <2> QED BY <2>1, <2>2
<1>2. DOMAIN targets = {1, 2} /\ targets[1] = type(1) /\ targets[2] = type(2)
  BY <1>1, TargetsInOrder
<1>3. type(1) # type(2)
  <2>1. 1 \in DOMAIN e.target /\ 2 \in DOMAIN e.target /\ 1 # 2
    BY <1>1
  <2> QED BY <2>1 DEF EntryIsValid
<1>4. type(1) \in {"clickhouse", "elasticsearch"} /\ type(2) \in {"clickhouse", "elasticsearch"}
  BY DEF TargetType
<1> HIDE DEF targets, type
<1>5. Range(targets) = {targets[1], targets[2]}
  BY <1>2 DEF Range
<1> QED BY <1>2, <1>3, <1>4, <1>5 DEF targets

LEMMA RangeOfConnectors ==
  ASSUME NEW targets, NEW clickhouse
  PROVE  /\ Range(Connectors(targets, clickhouse)) =
              {IF x = "clickhouse" THEN clickhouse ELSE Elastic : x \in Range(targets)}
         /\ DOMAIN Connectors(targets, clickhouse) = DOMAIN targets
<1>1. /\ DOMAIN Connectors(targets, clickhouse) = DOMAIN targets
      /\ \A k \in DOMAIN targets : Connectors(targets, clickhouse)[k] =
           IF targets[k] = "clickhouse" THEN clickhouse ELSE Elastic
  BY DEF Connectors
<1> QED BY <1>1 DEF Range

LEMMA PromiseHasFirst ==
  ASSUME InUse, settings = TranslateToLegacyConfig(file),
         NEW i, Agree(i), NEW p \in {"query", "ingest"}, Promise(p, i) # <<>>
  PROVE  Promise(p, i)[1] \in Range(Promise(p, i))
<1> DEFINE e == Entry(ProcessorFor(p), i)
<1>1. ProcessorFor(p) # None
  BY DEF Promise
<1>2. EntryIsPlain(ProcessorFor(p), e, i)
  BY <1>1, SettingsAreConfigured
<1>3. e.target # <<>>
  BY <1>1, <1>2, PromiseIsEmpty
<1>4. IsList(e.target)
  BY <1>2 DEF EntryIsPlain, EntryIsValid
<1>5. DOMAIN e.target = 1 .. Len(e.target) /\ Len(e.target) \in Nat /\ Len(e.target) # 0
  BY <1>3, <1>4, ListDomain, EmptySeq DEF IsList
<1>6. 1 \in DOMAIN e.target
  <2>1. \A n \in Nat : n # 0 => 1 \in 1 .. n
    OBVIOUS
  <2> QED BY <1>5, <2>1
<1>7. Promise(p, i) = [k \in DOMAIN e.target |-> Promised(ProcessorFor(p), i, e.target[k])]
  BY <1>1 DEF Promise
<1>8. 1 \in DOMAIN Promise(p, i)
  BY <1>6, <1>7
<1> QED BY <1>8 DEF Range

\* An index that the rules have not put aside is decided as its targets say.
LEMMA LadderIsPromised ==
  ASSUME InUse, settings = TranslateToLegacyConfig(file),
         NEW i, Agree(i), IsOrdinary(i), NEW p \in {"query", "ingest"}
  PROVE  AsPromised(Ladder(Rules, p, i), p, i)
<1> DEFINE c == Rules
           r == ProcessorFor(p)
           e == Entry(r, i)
           listed == i \in DOMAIN c.indexes
           d == Ladder(c, p, i)
<1>1. /\ c.indexes = settings.indexes /\ c.defaults = settings.defaults
      /\ c.commonForWildcard = settings.commonForWildcard /\ c.commonTable = CommonTable
      /\ c.virtual = {} /\ c.internal = KibanaNames
  BY DEF Rules
<1> HIDE DEF c
<1>2. i \notin KibanaNames /\ i # CommonTable
  BY DEF IsOrdinary
<1>3. ~IsInternal(c, i) /\ i # c.commonTable
  BY <1>1, <1>2 DEF IsInternal
<1>4. Configured(settings, p, i) /\ (r # None => EntryIsPlain(r, e, i))
  BY SettingsAreConfigured
<1>5. InCommonTable(c, i) <=> listed /\ c.indexes[i].common
  BY <1>1 DEF InCommonTable
<1>6. d = IF listed /\ c.indexes[i][p] = <<>> THEN Closed
          ELSE IF listed /\ ~c.indexes[i].common THEN SingleIndex(c, p, i)
          ELSE IF listed THEN Decision("use", <<Clickhouse(CommonTable, i, TRUE)>>, FALSE)
          ELSE DefaultWildcard(c, p, i)
  BY <1>1, <1>3, <1>5 DEF Ladder, IsDisabledInConfig, TargetsOf
<1> HIDE DEF d
<1> SUFFICES AsPromised(d, p, i)
  BY DEF c, d
<1>7. CASE r = None
  <2>1. Promise(p, i) = <<>>
    BY <1>7 DEF Promise
  <2>2. IF listed THEN c.indexes[i][p] = <<>> ELSE c.defaults[p] = <<>>
    BY <1>1, <1>4, <1>7 DEF Configured, TargetsAreSet
  <2>3. d = Closed
    BY <1>6, <2>2 DEF DefaultWildcard
  <2> QED BY <2>1, <2>3 DEF AsPromised
<1>8. CASE r # None
  <2> DEFINE targets == Targets(file, e)
  <2> HIDE DEF r, e, targets
  <2>1. /\ IF listed THEN c.indexes[i][p] = targets ELSE c.defaults[p] = targets
        /\ e.target # <<>> =>
             ((IF listed THEN c.indexes[i].common ELSE c.commonForWildcard) <=> SaysCommonTable(r, e))
        /\ IF ~listed THEN TablesOf(e) = {}
           ELSE IF TablesOf(e) = {} THEN c.indexes[i].table = i ELSE c.indexes[i].table \in TablesOf(e)
        /\ EntryIsPlain(r, e, i)
    BY <1>1, <1>4, <1>8 DEF Configured, TargetsAreSet, CommonIsSet, TableIsSet, r, e, targets
  <2>2. (Promise(p, i) = <<>> <=> e.target = <<>>) /\ (targets = <<>> <=> e.target = <<>>)
    BY <1>8, <2>1, PromiseIsEmpty DEF r, e, targets
  <2>3. CASE e.target = <<>>
    <3>1. IF listed THEN c.indexes[i][p] = <<>> ELSE c.defaults[p] = <<>>
      BY <2>1, <2>2, <2>3
    <3>2. d = Closed
      BY <1>6, <3>1 DEF DefaultWildcard
    <3> QED BY <2>2, <2>3, <3>2 DEF AsPromised
  <2>4. CASE e.target # <<>>
    <3> DEFINE table == IF listed THEN c.indexes[i].table ELSE i
               clickhouse == IF SaysCommonTable(r, e) THEN Clickhouse(CommonTable, i, TRUE)
                             ELSE Clickhouse(table, i, FALSE)
    <3>1. ASSUME NEW t \in Range(e.target), TargetType(file, t.name) = "clickhouse"
          PROVE  Promised(r, i, t) = clickhouse
      <4>1. EntryIsValid(e) /\ TablesAreOfDatabase(e)
        BY <2>1 DEF EntryIsPlain
      <4>2. TablesOf(e) = IF t.table = "" THEN {} ELSE {t.table}
        BY <3>1, <4>1, TablesOfDatabase
      <4>3. table = IF t.table = "" THEN i ELSE t.table
        BY <2>1, <4>2
      <4>4. Promised(r, i, t) = IF SaysCommonTable(r, e) THEN Clickhouse(CommonTable, i, TRUE)
                                ELSE Clickhouse(IF t.table = "" THEN i ELSE t.table, i, FALSE)
        BY <2>1, <3>1, PromisedIs
      <4> QED BY <4>3, <4>4
    <3>2. Connectors(targets, clickhouse) = Promise(p, i)
      BY <1>8, <2>1, <3>1, ConnectorsArePromised DEF r, e, targets
    <3>3. CASE ~listed
      <4>1. d = Decision("use", Connectors(targets, clickhouse), FALSE)
        BY <1>1, <1>6, <2>1, <2>2, <2>4, <3>3 DEF DefaultWildcard, TableName
      <4> QED BY <2>2, <2>4, <3>2, <4>1 DEF AsPromised, Decision
    <3>4. CASE listed /\ c.indexes[i].common
      <4>1. SaysCommonTable(r, e) /\ clickhouse = Clickhouse(CommonTable, i, TRUE)
        BY <2>1, <2>4, <3>4
      <4>2. Len(e.target) = 1 /\ TargetType(file, e.target[1].name) = "clickhouse" /\ EntryIsValid(e)
        BY <2>1, <4>1 DEF EntryIsPlain
      <4>3. DOMAIN e.target = {1}
        <5>1. DOMAIN e.target = 1 .. 1
          BY <4>2, ListDomain DEF EntryIsValid
        <5>2. 1 .. 1 = {1}
          OBVIOUS
        <5> QED BY <5>1, <5>2
      <4>4. DOMAIN targets = {1} /\ targets[1] = "clickhouse"
        BY <4>2, <4>3, TargetsInOrder DEF targets
      <4> HIDE DEF clickhouse
      <4>5. DOMAIN Promise(p, i) = {1} /\ Promise(p, i)[1] = clickhouse
        BY <3>2, <4>4 DEF Connectors
      <4>6. d = Decision("use", <<clickhouse>>, FALSE)
        BY <1>6, <2>1, <2>2, <2>4, <3>4, <4>1
      <4>7. d.kind = "use" /\ d.connectors = <<clickhouse>>
        BY <4>6 DEF Decision
      <4>8. Range(d.connectors) = {clickhouse} /\ Range(Promise(p, i)) = {clickhouse}
        BY <4>5, <4>7 DEF Range
      <4> QED BY <2>2, <2>4, <4>5, <4>7, <4>8 DEF AsPromised
    <3>5. CASE listed /\ ~c.indexes[i].common
      <4> DEFINE ordered == IF p = "ingest" /\ Len(targets) = 2
                            THEN <<"clickhouse", "elasticsearch">> ELSE targets
      <4>1. clickhouse = Clickhouse(c.indexes[i].table, i, FALSE)
        BY <2>1, <2>4, <3>5
      <4> HIDE DEF clickhouse
      <4>2. d.kind = "use" /\ d.connectors = Connectors(ordered, clickhouse)
        <5>1. d = SingleIndex(c, p, i)
          BY <1>6, <2>1, <2>2, <2>4, <3>5
        <5>2. TargetsOf(c, p, i) = targets /\ TableName(c, i) = c.indexes[i].table
          BY <2>1, <3>5 DEF TargetsOf, TableName
        <5> QED BY <4>1, <5>1, <5>2 DEF SingleIndex, Decision
      <4>3. CASE ordered = targets
        BY <2>2, <2>4, <3>2, <4>2, <4>3 DEF AsPromised
      <4>4. CASE ordered # targets
        <5>1. p = "ingest" /\ Len(targets) = 2 /\ ordered = <<"clickhouse", "elasticsearch">>
          BY <4>4
        <5>2. EntryIsValid(e)
          BY <2>1 DEF EntryIsPlain
        <5>3. Len(e.target) = 2
          BY <5>1, <5>2, TargetsInOrder DEF targets
        <5>4. Range(targets) = {"clickhouse", "elasticsearch"}
          BY <5>2, <5>3, OrderOfTargets DEF targets
        <5>5. Range(ordered) = {"clickhouse", "elasticsearch"} /\ DOMAIN ordered = {1, 2}
          BY <5>1 DEF Range
        <5>6. Range(d.connectors) = Range(Promise(p, i))
          BY <3>2, <4>2, <5>4, <5>5, RangeOfConnectors
        <5>7. d.connectors # <<>>
          BY <4>2, <5>5, RangeOfConnectors
        <5> QED BY <2>2, <2>4, <4>2, <5>1, <5>6, <5>7 DEF AsPromised
      <4> QED BY <4>3, <4>4
    <3> QED BY <3>3, <3>4, <3>5
  <2> QED BY <2>3, <2>4
<1> QED BY <1>7, <1>8
\* A plain name has one decision.
LEMMA OneDecision ==
  ASSUME NEW i, IsOrdinary(i), NEW p \in {"query", "ingest"}
  PROVE  Resolutions(p, i) = {Ladder(Rules, p, i)}
<1> DEFINE known == DOMAIN settings.indexes
           parts == Parts(Patterns[i], known)
           d == Ladder(Rules, p, i)
<1>1. Patterns[i].names = {i} /\ Patterns[i].globs = {}
  BY DEF IsOrdinary
<1>2. parts = {i} /\ Cardinality({i}) = 1
  BY <1>1, FS_Singleton DEF Parts
<1>3. SingleName(Patterns[i])
  BY <1>1, <1>2 DEF SingleName
<1>4. Resolutions(p, i) =
        {MergeDecisions([k \in DOMAIN s |-> Ladder(Rules, p, s[k])]) : s \in SetToSeqs({i})}
  BY <1>2, <1>3 DEF Resolutions, DecisionsFor
<1>5. SetToSeqs({i}) = {[k \in {1} |-> i]}
  <2>1. 1 .. Cardinality({i}) = {1}
    <3>1. 1 .. 1 = {1}
      OBVIOUS
    <3> QED BY <1>2, <3>1
  <2>2. SetToSeqs({i}) = {f \in [{1} -> {i}] : \A j, k \in {1} : j # k => f[j] # f[k]}
    BY <2>1 DEF SetToSeqs
  <2>3. [{1} -> {i}] = {[k \in {1} |-> i]}
    OBVIOUS
  <2> QED BY <2>2, <2>3
<1>6. Resolutions(p, i) = {MergeDecisions([k \in {1} |-> d])}
  <2> DEFINE one == [k \in {1} |-> i]
             of(s) == MergeDecisions([k \in DOMAIN s |-> Ladder(Rules, p, s[k])])
  <2>1. of(one) = MergeDecisions([k \in {1} |-> d])
    <3>1. DOMAIN one = {1} /\ \A k \in {1} : one[k] = i
      OBVIOUS
    <3>2. [k \in DOMAIN one |-> Ladder(Rules, p, one[k])] = [k \in {1} |-> d]
      BY <3>1
    <3> QED BY <3>2
  <2> HIDE DEF of
  <2>2. {of(s) : s \in {one}} = {of(one)}
    OBVIOUS
  <2> QED BY <1>4, <1>5, <2>1, <2>2 DEF of
<1>7. [k \in {1} |-> d] = <<d>>
  <2> HIDE DEF d
  <2>1. \A k \in {1} : <<d>>[k] = d
    OBVIOUS
  <2>2. DOMAIN <<d>> = {1}
    OBVIOUS
  <2> QED BY <2>1, <2>2
<1>8. MergeDecisions(<<d>>) = d
  <2> HIDE DEF d
  <2>1. Len(<<d>>) = 1 /\ <<d>> # <<>> /\ <<d>>[1] = d
    OBVIOUS
  <2> QED BY <2>1 DEF MergeDecisions
<1> QED BY <1>6, <1>7, <1>8

-----------------------------------------------------------------------------
\* The routes that a path of one or two segments matches.
LEMMA MatchesOfShort ==
  /\ \A a, b, c, e : Matches(<<a, b>>, <<c, e>>) <=> (c \in Parameters \/ c = a) /\ (e \in Parameters \/ e = b)
  /\ \A a, b, c : ~Matches(<<a, b>>, <<c>>)
  /\ \A a, b, c, e, f : ~Matches(<<a, b>>, <<c, e, f>>)
  /\ \A a, c : Matches(<<a>>, <<c>>) <=> c \in Parameters \/ c = a
  /\ \A a, c, e : ~Matches(<<a>>, <<c, e>>)
  /\ \A a, c, e, f : ~Matches(<<a>>, <<c, e, f>>)
<1>1. \A a, b : Len(<<a, b>>) = 2 /\ DOMAIN <<a, b>> = {1, 2} /\ <<a, b>>[1] = a /\ <<a, b>>[2] = b
  OBVIOUS
<1>2. \A a : Len(<<a>>) = 1 /\ DOMAIN <<a>> = {1} /\ <<a>>[1] = a
  OBVIOUS
<1>3. \A a, b, c : Len(<<a, b, c>>) = 3
  OBVIOUS
<1>4. 1 # 2 /\ 1 # 3 /\ 2 # 3
  OBVIOUS
<1>5. \A a, b, c, e : Matches(<<a, b>>, <<c, e>>) <=> (c \in Parameters \/ c = a) /\ (e \in Parameters \/ e = b)
  BY <1>1 DEF Matches
<1>6. \A a, c : Matches(<<a>>, <<c>>) <=> c \in Parameters \/ c = a
  BY <1>2 DEF Matches
<1>7. /\ \A a, b, c : ~Matches(<<a, b>>, <<c>>)
      /\ \A a, b, c, e, f : ~Matches(<<a, b>>, <<c, e, f>>)
      /\ \A a, c, e : ~Matches(<<a>>, <<c, e>>)
      /\ \A a, c, e, f : ~Matches(<<a>>, <<c, e, f>>)
  BY <1>1, <1>2, <1>3, <1>4 DEF Matches
<1> QED BY <1>5, <1>6, <1>7

Operations == {"_search", "_async_search", "_msearch", "_doc", "_bulk"}

RouteOf(operation) ==
  CASE operation = "_search"       -> Route(<<Index, "_search">>, GetPost, "query", "search")
    [] operation = "_async_search" -> Route(<<Index, "_async_search">>, Post, "query", "search")
    [] operation = "_msearch"      -> Route(<<Index, "_msearch">>, GetPost, "query", "msearch")
    [] operation = "_doc"          -> Route(<<Index, "_doc">>, Post, "ingest", "doc")
    [] operation = "_bulk"         -> Route(<<Index, "_bulk">>, PostPut, "ingest", "bulk")

LEMMA LiteralsOfRoutes ==
  ASSUME NEW i, IsOrdinary(i)
  PROVE  i # "_cluster" /\ i # "_async_search"
<1>1. \A x : x \in {m.pattern[1] : m \in Routes} \ Parameters => i # x
  BY DEF IsOrdinary
<1>2. /\ Route(<<"_cluster", "health">>, Get, "method", "constant") \in Routes
      /\ Route(<<"_async_search", Id>>, {"GET", "DELETE"}, "asyncId", "stored") \in Routes
  BY DEF Routes, SearchRouter
<1>3. /\ Route(<<"_cluster", "health">>, Get, "method", "constant").pattern[1] = "_cluster"
      /\ Route(<<"_async_search", Id>>, {"GET", "DELETE"}, "asyncId", "stored").pattern[1] = "_async_search"
  BY DEF Route
<1>4. "_cluster" \notin Parameters /\ "_async_search" \notin Parameters
  BY DEF Parameters, Index, Id
<1> QED BY <1>1, <1>2, <1>3, <1>4

LEMMA MappingsOfIndex ==
  ASSUME NEW i, IsOrdinary(i), NEW operation \in Operations
  PROVE  MappingsFor(<<i, operation>>) = {RouteOf(operation)}
<1>1. i # "_cluster" /\ i # "_async_search"
  BY LiteralsOfRoutes
<1>2. RouteOf(operation) \in Routes /\ RouteOf(operation).pattern = <<Index, operation>>
  BY DEF Operations, RouteOf, Route, Routes, SearchRouter, IngestRouter
<1>3. Matches(<<i, operation>>, RouteOf(operation).pattern)
  BY <1>2, MatchesOfShort DEF Parameters
<1>4. ASSUME NEW m \in Routes, Matches(<<i, operation>>, m.pattern)
      PROVE  m = RouteOf(operation)
  <2>1. CASE m \in IngestRouter
    BY <1>1, <1>4, <2>1, MatchesOfShort DEF IngestRouter, Route, Parameters, Index, Id, Operations, RouteOf
  <2>2. CASE m \in SearchRouter
    BY <1>1, <1>4, <2>2, MatchesOfShort DEF SearchRouter, Route, Parameters, Index, Id, Operations, RouteOf
  <2> QED BY <2>1, <2>2 DEF Routes
<1> QED BY <1>2, <1>3, <1>4 DEF MappingsFor
\* What a parameter stands for, in a path of one or two segments.
LEMMA ParamOfIndex ==
  ASSUME NEW i, NEW operation \in Operations
  PROVE  /\ Param(RouteOf(operation), <<i, operation>>, Index) = i
         /\ RouteOf(operation).matcher \in {"query", "ingest"}
<1>1. RouteOf(operation).pattern = <<Index, operation>> /\ RouteOf(operation).matcher \in {"query", "ingest"}
  BY DEF Operations, RouteOf, Route
<1>2. operation # Index
  BY DEF Operations, Index
<1> DEFINE k == {j \in DOMAIN <<i, operation>> : RouteOf(operation).pattern[j] = Index}
<1>3. k = {1}
  <2>1. DOMAIN <<i, operation>> = {1, 2} /\ <<Index, operation>>[1] = Index /\ <<Index, operation>>[2] = operation
    OBVIOUS
  <2> QED BY <1>1, <1>2, <2>1
<1> HIDE DEF k
<1>4. (CHOOSE j \in k : TRUE) = 1
  BY <1>3
<1>5. Param(RouteOf(operation), <<i, operation>>, Index) = i
  <2>1. Param(RouteOf(operation), <<i, operation>>, Index) =
          IF k = {} THEN "" ELSE <<i, operation>>[CHOOSE j \in k : TRUE]
    BY DEF Param, k
  <2>2. <<i, operation>>[1] = i
    OBVIOUS
  <2> QED BY <1>3, <1>4, <2>1, <2>2
<1> QED BY <1>1, <1>5

RouteOfMany(operation) ==
  IF operation = "_bulk" THEN Route(<<"_bulk">>, PostPut, "method", "bulk")
  ELSE Route(<<"_msearch">>, GetPost, "method", "msearch")

LEMMA ParamOfMany ==
  ASSUME NEW operation \in {"_msearch", "_bulk"}
  PROVE  Param(RouteOfMany(operation), <<operation>>, Index) = ""
<1>1. RouteOfMany(operation).pattern = <<operation>> /\ operation # Index
  BY DEF RouteOfMany, Route, Index
<1>2. DOMAIN <<operation>> = {1} /\ <<operation>>[1] = operation
  OBVIOUS
<1>3. {j \in DOMAIN <<operation>> : RouteOfMany(operation).pattern[j] = Index} = {}
  BY <1>1, <1>2
<1> QED BY <1>3 DEF Param

\* The handler that is found for an index, if the decision is for the database.
FoundFor(r, i, operation) ==
  LET d == Ladder(Rules, RouteOf(operation).matcher, i)
  IN  [handler |-> IF UsesClickhouse(d) THEN RouteOf(operation) ELSE None, decision |-> d]

LEMMA FoundOfIndex ==
  ASSUME NEW i, IsOrdinary(i), NEW operation \in Operations,
         NEW r, r.path = <<i, operation>>, r.method \in RouteOf(operation).methods
  PROVE  Found(r) = {FoundFor(r, i, operation)}
<1> DEFINE m == RouteOf(operation)
           p == m.matcher
           d == Ladder(Rules, p, i)
           matched(n) == {x \in PredicateMatches(n, r) : x.matched}
           first == {n \in MappingsFor(r.path) :
                       matched(n) # {} /\ \A q \in MappingsFor(r.path) : Precedes(q, n) => matched(q) = {}}
           last == {n \in MappingsFor(r.path) : \A q \in MappingsFor(r.path) : ~Precedes(n, q)}
<1>1. MappingsFor(r.path) = {m}
  BY MappingsOfIndex
<1>2. Param(m, r.path, Index) = i /\ p \in {"query", "ingest"}
  BY ParamOfIndex
<1>3. Resolutions(p, i) = {d}
  BY <1>2, OneDecision
<1> HIDE DEF m, d
<1>4. PredicateMatches(m, r) = {Match(UsesClickhouse(d), d)}
  <2>1. PredicateMatches(m, r) = Resolved(p, i)
    BY <1>2 DEF PredicateMatches, m
  <2> QED BY <1>3, <2>1 DEF Resolved
<1>5. ~Precedes(m, m)
  BY DEF Precedes
<1>6. /\ Match(UsesClickhouse(d), d).decision = d
      /\ Match(UsesClickhouse(d), d).matched <=> UsesClickhouse(d)
  BY DEF Match, UsesClickhouse
<1>7. CASE UsesClickhouse(d)
  <2>1. matched(m) = {Match(UsesClickhouse(d), d)}
    BY <1>4, <1>6, <1>7
  <2>2. first = {m}
    BY <1>1, <1>5, <2>1
  <2>3. {[handler |-> m, decision |-> x.decision] : x \in matched(m)} = {[handler |-> m, decision |-> d]}
    BY <1>6, <2>1
  <2>4. UNION {{[handler |-> n, decision |-> x.decision] : x \in matched(n)} : n \in first}
          = {[handler |-> m, decision |-> d]}
    BY <2>2, <2>3
  <2>5. Found(r) = {[handler |-> m, decision |-> d]}
    BY <2>2, <2>4 DEF Found
  <2> QED BY <1>7, <2>5 DEF FoundFor, m, d
<1>8. CASE ~UsesClickhouse(d)
  <2>1. matched(m) = {}
    BY <1>4, <1>6, <1>8
  <2>2. first = {} /\ last = {m}
    BY <1>1, <1>5, <2>1
  <2>3. {[handler |-> None, decision |-> x.decision] : x \in PredicateMatches(m, r)}
          = {[handler |-> None, decision |-> d]}
    BY <1>4, <1>6
  <2>4. UNION {{[handler |-> None, decision |-> x.decision] : x \in PredicateMatches(n, r)} : n \in last}
          = {[handler |-> None, decision |-> d]}
    BY <2>2, <2>3
  <2>5. Found(r) = {[handler |-> None, decision |-> d]}
    BY <2>2, <2>4 DEF Found
  <2> QED BY <1>8, <2>5 DEF FoundFor, m, d
<1> QED BY <1>7, <1>8

\* Where the body names the indexes, the handler is found by the path alone.
LEMMA FoundOfMany ==
  ASSUME NEW operation \in {"_msearch", "_bulk"},
         NEW r, r.path = <<operation>>, r.method \in RouteOfMany(operation).methods
  PROVE  Found(r) = {[handler |-> RouteOfMany(operation), decision |-> NoDecision]}
<1> DEFINE m == RouteOfMany(operation)
           w == Route(<<Index>>, GetPut, "query", "mapping")
           matched(n) == {x \in PredicateMatches(n, r) : x.matched}
           first == {n \in MappingsFor(r.path) :
                       matched(n) # {} /\ \A q \in MappingsFor(r.path) : Precedes(q, n) => matched(q) = {}}
<1>1. m \in Routes /\ w \in Routes /\ m.pattern = <<operation>> /\ w.pattern = <<Index>> /\ m.matcher = "method"
  BY DEF RouteOfMany, Route, Routes, SearchRouter, IngestRouter
<1>2. \A n \in Routes : Matches(<<operation>>, n.pattern) => n = m \/ n = w
  <2> SUFFICES ASSUME NEW n \in Routes, Matches(<<operation>>, n.pattern)
               PROVE  n = m \/ n = w
    OBVIOUS
  <2>1. CASE n \in IngestRouter
    BY <2>1, MatchesOfShort DEF IngestRouter, Route, Parameters, Index, Id, RouteOfMany
  <2>2. CASE n \in SearchRouter
    BY <2>2, MatchesOfShort DEF SearchRouter, Route, Parameters, Index, Id, RouteOfMany
  <2> QED BY <2>1, <2>2 DEF Routes
<1> HIDE DEF m, w
<1>3. MappingsFor(r.path) = {m, w}
  BY <1>1, <1>2, MatchesOfShort DEF MappingsFor, Parameters
<1>4. PredicateMatches(m, r) = {Undecided(TRUE)}
  BY <1>1 DEF PredicateMatches, m
<1>5. matched(m) = {Undecided(TRUE)} /\ Undecided(TRUE).decision = NoDecision
  BY <1>4 DEF Undecided, Match
<1>6. ~Precedes(m, m) /\ ~Precedes(w, m) /\ Precedes(m, w)
  <2>1. operation \notin Parameters /\ Index \in Parameters
    BY DEF Parameters, Index, Id
  <2>2. /\ DOMAIN m.pattern = {1} /\ m.pattern[1] = operation
        /\ DOMAIN w.pattern = {1} /\ w.pattern[1] = Index
    BY <1>1
  <2>3. 1 .. 1 - 1 = {}
    OBVIOUS
  <2> QED BY <2>1, <2>2, <2>3 DEF Precedes
<1>7. first = {m}
  BY <1>3, <1>5, <1>6
<1>8. {[handler |-> m, decision |-> x.decision] : x \in matched(m)} = {[handler |-> m, decision |-> NoDecision]}
  BY <1>5
<1>9. UNION {{[handler |-> n, decision |-> x.decision] : x \in matched(n)} : n \in first}
        = {[handler |-> m, decision |-> NoDecision]}
  BY <1>7, <1>8
<1>10. Found(r) = {[handler |-> m, decision |-> NoDecision]}
  BY <1>7, <1>9 DEF Found
<1> QED BY <1>10 DEF m
-----------------------------------------------------------------------------
\* A response x serves a request r as it was promised.
Serves(r, x) ==
  LET i == NamedIn(r)
      p == Pipeline(r)
      asked == Range(x.asked)
  IN  IsOrdinary(i) /\ Agree(i) =>
        /\ asked \subseteq Range(Promise(p, i))
        /\ x.outcome = "ok" => asked = Range(Promise(p, i)) /\ x.closed = (Promise(p, i) = <<>>)
        /\ p = "query" /\ asked # {} => x.asked[1] = Promise(p, i)[1]

\* A request that belongs to a pipeline names one index in its path, or has a
\* body that names it.
NamesOne(r, operation) ==
  /\ operation \in Operations /\ r.path = <<NamedIn(r), operation>> /\ r.body = ""
  /\ r.method \in RouteOf(operation).methods /\ Pipeline(r) = RouteOf(operation).matcher

NamesMany(r, operation) ==
  /\ operation \in {"_msearch", "_bulk"} /\ r.path = <<operation>> /\ NamedIn(r) = r.body
  /\ r.method \in RouteOfMany(operation).methods
  /\ Pipeline(r) = IF operation = "_msearch" THEN "query" ELSE "ingest"

LEMMA RequestsOfPipelines ==
  ASSUME NEW r, Pipeline(r) # "none"
  PROVE  \E operation : NamesOne(r, operation) \/ NamesMany(r, operation)
<1>1. \A operation \in Operations : \A methods :
        IsFor(r, operation, methods) /\ r.body = "" =>
          r.method \in methods /\ r.path = <<NamedIn(r), operation>>
  BY DEF IsFor, NamedIn
<1>2. \A operation \in Operations : \A methods :
        IsFor(r, operation, methods) /\ r.body # "" =>
          r.method \in methods /\ r.path = <<operation>> /\ NamedIn(r) = r.body
  BY DEF IsFor, NamedIn
<1>3. /\ RouteOf("_search").methods = GetPost /\ RouteOf("_search").matcher = "query"
      /\ RouteOf("_async_search").methods = Post /\ RouteOf("_async_search").matcher = "query"
      /\ RouteOf("_msearch").methods = GetPost /\ RouteOf("_msearch").matcher = "query"
      /\ RouteOf("_doc").methods = Post /\ RouteOf("_doc").matcher = "ingest"
      /\ RouteOf("_bulk").methods = PostPut /\ RouteOf("_bulk").matcher = "ingest"
      /\ RouteOfMany("_msearch").methods = GetPost /\ RouteOfMany("_bulk").methods = PostPut
  BY DEF RouteOf, RouteOfMany, Route
<1>4. \A a, b, methods, others : IsFor(r, a, methods) /\ IsFor(r, b, others) => a = b
  <2>1. \A x, y, a, b : (<<x, a>> = <<y, b>> => a = b) /\ (<<a>> = <<b>> => a = b)
    OBVIOUS
  <2> SUFFICES ASSUME NEW a, NEW b, NEW methods, NEW others, IsFor(r, a, methods), IsFor(r, b, others)
               PROVE  a = b
    OBVIOUS
  <2> DEFINE first == r.path[1]
  <2>2. CASE r.body = ""
    <3>1. r.path = <<first, a>> /\ r.path = <<first, b>>
      BY <2>2 DEF IsFor
    <3> HIDE DEF first
    <3>2. <<first, a>> = <<first, b>>
      BY <3>1
    <3> QED BY <2>1, <3>2
  <2>3. CASE r.body # ""
    <3>1. <<a>> = <<b>>
      BY <2>3 DEF IsFor
    <3> QED BY <2>1, <3>1
  <2> QED BY <2>2, <2>3
<1>5. CASE IsFor(r, "_msearch", GetPost)
  <2>1. Pipeline(r) = "query"
    <3>1. /\ ~IsFor(r, "_search", GetPost) /\ ~IsFor(r, "_async_search", Post)
          /\ ~IsFor(r, "_bulk", PostPut) /\ ~IsFor(r, "_doc", Post)
      BY <1>4, <1>5
    <3> QED BY <1>5, <3>1 DEF Pipeline
  <2>2. CASE r.body = ""
    <3>1. NamesOne(r, "_msearch")
      BY <1>1, <1>3, <1>5, <2>1, <2>2 DEF NamesOne, Operations
    <3> QED BY <3>1
  <2>3. CASE r.body # ""
    <3>1. NamesMany(r, "_msearch")
      BY <1>2, <1>3, <1>5, <2>1, <2>3 DEF NamesMany, Operations
    <3> QED BY <3>1
  <2> QED BY <2>2, <2>3
<1>6. CASE IsFor(r, "_search", GetPost) /\ r.body = ""
  <2>1. Pipeline(r) = "query"
    <3>1. /\ ~IsFor(r, "_msearch", GetPost) /\ ~IsFor(r, "_async_search", Post)
          /\ ~IsFor(r, "_bulk", PostPut) /\ ~IsFor(r, "_doc", Post)
      BY <1>4, <1>6
    <3> QED BY <1>6, <3>1 DEF Pipeline
  <2>2. NamesOne(r, "_search")
    BY <1>1, <1>3, <1>6, <2>1 DEF NamesOne, Operations
  <2> QED BY <2>2
<1>7. CASE IsFor(r, "_async_search", Post) /\ r.body = ""
  <2>1. Pipeline(r) = "query"
    <3>1. /\ ~IsFor(r, "_msearch", GetPost) /\ ~IsFor(r, "_search", GetPost)
          /\ ~IsFor(r, "_bulk", PostPut) /\ ~IsFor(r, "_doc", Post)
      BY <1>4, <1>7
    <3> QED BY <1>7, <3>1 DEF Pipeline
  <2>2. NamesOne(r, "_async_search")
    BY <1>1, <1>3, <1>7, <2>1 DEF NamesOne, Operations
  <2> QED BY <2>2
<1>8. CASE IsFor(r, "_bulk", PostPut)
  <2>1. Pipeline(r) = "ingest"
    <3>1. /\ ~IsFor(r, "_search", GetPost) /\ ~IsFor(r, "_msearch", GetPost)
          /\ ~IsFor(r, "_async_search", Post) /\ ~IsFor(r, "_doc", Post)
      BY <1>4, <1>8
    <3> QED BY <1>8, <3>1 DEF Pipeline
  <2>2. CASE r.body = ""
    <3>1. NamesOne(r, "_bulk")
      BY <1>1, <1>3, <1>8, <2>1, <2>2 DEF NamesOne, Operations
    <3> QED BY <3>1
  <2>3. CASE r.body # ""
    <3>1. NamesMany(r, "_bulk")
      BY <1>2, <1>3, <1>8, <2>1, <2>3 DEF NamesMany, Operations
    <3> QED BY <3>1
  <2> QED BY <2>2, <2>3
<1>9. CASE IsFor(r, "_doc", Post) /\ r.body = ""
  <2>1. Pipeline(r) = "ingest"
    <3>1. /\ ~IsFor(r, "_search", GetPost) /\ ~IsFor(r, "_msearch", GetPost)
          /\ ~IsFor(r, "_async_search", Post) /\ ~IsFor(r, "_bulk", PostPut)
      BY <1>4, <1>9
    <3> QED BY <1>9, <3>1 DEF Pipeline
  <2>2. NamesOne(r, "_doc")
    BY <1>1, <1>3, <1>9, <2>1 DEF NamesOne, Operations
  <2> QED BY <2>2
<1> QED BY <1>5, <1>6, <1>7, <1>8, <1>9 DEF Pipeline

\* Nothing was asked, or all was that the decision names.
LEMMA NothingServes ==
  ASSUME NEW r, NEW x, x.asked = <<>>, x.outcome # "ok"
  PROVE  Serves(r, x)
<1>1. Range(<<>>) = {}
  BY DEF Range
<1> QED BY <1>1 DEF Serves

LEMMA AllServes ==
  ASSUME NEW r, NEW x, NEW d, AsPromised(d, Pipeline(r), NamedIn(r)), d.kind = "use",
         x.asked = d.connectors, x.closed = FALSE
  PROVE  Serves(r, x)
<1>1. d # Closed
  BY DEF Closed, Decision
<1>2. /\ Promise(Pipeline(r), NamedIn(r)) # <<>>
      /\ Range(x.asked) = Range(Promise(Pipeline(r), NamedIn(r)))
      /\ Pipeline(r) = "query" => x.asked[1] = Promise(Pipeline(r), NamedIn(r))[1]
  BY <1>1 DEF AsPromised
<1> QED BY <1>2 DEF Serves

LEMMA ClosedServes ==
  ASSUME NEW r, AsPromised(Closed, Pipeline(r), NamedIn(r))
  PROVE  Serves(r, ClosedResponse)
<1>1. Closed.kind # "use"
  BY DEF Closed, Decision
<1>2. Promise(Pipeline(r), NamedIn(r)) = <<>>
  BY <1>1 DEF AsPromised
<1>3. ClosedResponse.asked = <<>> /\ ClosedResponse.closed = TRUE
  BY DEF ClosedResponse, Response
<1>4. Range(<<>>) = {}
  BY DEF Range
<1> QED BY <1>2, <1>3, <1>4 DEF Serves

\* A decision as promised is closed or for connectors, which are Elasticsearch
\* or in the database.
LEMMA KindsOfPromise ==
  ASSUME NEW d, NEW p, NEW i, AsPromised(d, p, i)
  PROVE  /\ d = Closed \/ d.kind = "use"
         /\ \A x \in Range(d.connectors) : x = Elastic \/ x.kind = "clickhouse"
<1>1. \A r, t : Promised(r, i, t) = Elastic \/ Promised(r, i, t).kind = "clickhouse"
  BY DEF Promised, Clickhouse
<1>2. \A x \in Range(Promise(p, i)) : x = Elastic \/ x.kind = "clickhouse"
  <2>1. CASE ProcessorFor(p) = None
    <3>1. Range(<<>>) = {}
      BY DEF Range
    <3> QED BY <2>1, <3>1 DEF Promise
  <2>2. CASE ProcessorFor(p) # None
    <3> DEFINE targets == Entry(ProcessorFor(p), i).target
    <3>1. Promise(p, i) = [k \in DOMAIN targets |-> Promised(ProcessorFor(p), i, targets[k])]
      BY <2>2 DEF Promise
    <3> QED BY <1>1, <3>1 DEF Range
  <2> QED BY <2>1, <2>2
<1>3. CASE Promise(p, i) = <<>>
  <2>1. d = Closed /\ Closed.connectors = <<>>
    BY <1>3 DEF AsPromised, Closed, Decision
  <2>2. Range(<<>>) = {}
    BY DEF Range
  <2> QED BY <2>1, <2>2
<1>4. CASE Promise(p, i) # <<>>
  BY <1>2, <1>4 DEF AsPromised
<1> QED BY <1>3, <1>4

\* The configuration of a request's index, when it can be served by it.
Served(r) == Pipeline(r) # "none" /\ IsOrdinary(NamedIn(r)) /\ Agree(NamedIn(r))

\* The settings are those of an accepted file.
Translated == ~settings.transparent => InUse /\ settings = TranslateToLegacyConfig(file)

\* What was found is what is looked for.
RoutedAsFound ==
  at = "routed" /\ ~settings.transparent =>
    \E f \in Found(request) : handler = f.handler /\ decision = f.decision

LEMMA RoutedAsDecided ==
  ASSUME Translated, RoutedAsFound, at = "routed", ~settings.transparent, Served(request)
  PROVE  LET i == NamedIn(request)
             p == Pipeline(request)
             d == Ladder(Rules, p, i)
         IN  /\ AsPromised(d, p, i) /\ Resolutions(p, i) = {d}
             /\ Promise(p, i) # <<>> => Promise(p, i)[1] \in Range(Promise(p, i))
             /\ \/ /\ handler # None /\ handler.kind = "search" /\ p = "query"
                   /\ decision = d /\ UsesClickhouse(d)
                \/ /\ handler # None /\ handler.kind = "msearch" /\ p = "query" /\ Subject(request) = i
                \/ /\ handler # None /\ handler.kind \in Writes /\ p = "ingest" /\ Subject(request) = i
                \/ handler = None /\ decision = d /\ ~UsesClickhouse(d)
<1> DEFINE i == NamedIn(request)
           p == Pipeline(request)
           d == Ladder(Rules, p, i)
           Shape ==
             \/ /\ handler # None /\ handler.kind = "search" /\ p = "query"
                /\ decision = d /\ UsesClickhouse(d)
             \/ /\ handler # None /\ handler.kind = "msearch" /\ p = "query" /\ Subject(request) = i
             \/ /\ handler # None /\ handler.kind \in Writes /\ p = "ingest" /\ Subject(request) = i
             \/ handler = None /\ decision = d /\ ~UsesClickhouse(d)
<1>1. InUse /\ settings = TranslateToLegacyConfig(file) /\ IsOrdinary(i) /\ Agree(i) /\ p # "none"
  BY DEF Translated, Served
<1>2. PICK f \in Found(request) : handler = f.handler /\ decision = f.decision
  BY DEF RoutedAsFound
<1>3. PICK operation : NamesOne(request, operation) \/ NamesMany(request, operation)
  BY <1>1, RequestsOfPipelines
<1> HIDE DEF i, p, d
<1>4. p \in {"query", "ingest"} /\ Shape
  <2>1. CASE NamesOne(request, operation)
    <3> DEFINE m == RouteOf(operation)
    <3>1. /\ operation \in Operations /\ request.path = <<i, operation>> /\ request.body = ""
          /\ request.method \in m.methods /\ p = m.matcher
      BY <2>1 DEF NamesOne, i, p
    <3>2. Param(m, request.path, Index) = i /\ p \in {"query", "ingest"}
      BY <3>1, ParamOfIndex
    <3>3. f = FoundFor(request, i, operation)
      <4>1. IsOrdinary(i) /\ request.path = <<i, operation>> /\ request.method \in RouteOf(operation).methods
        BY <1>1, <3>1
      <4>2. Found(request) = {FoundFor(request, i, operation)}
        BY <3>1, <4>1, FoundOfIndex
      <4> QED BY <1>2, <4>2
    <3>4. handler = (IF UsesClickhouse(d) THEN m ELSE None) /\ decision = d
      BY <1>2, <3>1, <3>3 DEF FoundFor, d
    <3>5. /\ m # None
          /\ \/ m.kind = "search" /\ m.matcher = "query"
             \/ m.kind = "msearch" /\ m.matcher = "query"
             \/ m.kind \in Writes /\ m.matcher = "ingest"
      <4>1. DOMAIN m = {"pattern", "methods", "matcher", "kind"}
        BY <3>1 DEF RouteOf, Route, Operations
      <4>2. DOMAIN None = {"kind"} /\ "methods" \notin {"kind"}
        BY DEF None
      <4>3. m # None
        BY <4>1, <4>2
      <4> QED BY <3>1, <4>3 DEF RouteOf, Route, Operations, Writes
    <3> HIDE DEF m
    <3>6. handler = m => Subject(request) = i
      BY <3>1, <3>2 DEF Subject
    <3>7. CASE UsesClickhouse(d)
      BY <3>1, <3>4, <3>5, <3>6, <3>7
    <3>8. CASE ~UsesClickhouse(d)
      BY <3>2, <3>4, <3>8
    <3> QED BY <3>2, <3>7, <3>8
  <2>2. CASE NamesMany(request, operation)
    <3> DEFINE m == RouteOfMany(operation)
    <3>1. /\ operation \in {"_msearch", "_bulk"} /\ request.path = <<operation>> /\ request.body = i
          /\ request.method \in m.methods /\ p = IF operation = "_msearch" THEN "query" ELSE "ingest"
      BY <2>2 DEF NamesMany, i, p
    <3>2. Param(m, request.path, Index) = ""
      BY <3>1, ParamOfMany
    <3>3. f = [handler |-> m, decision |-> NoDecision]
      BY <1>2, <3>1, FoundOfMany
    <3>4. handler = m
      BY <1>2, <3>3
    <3>5. /\ m # None
          /\ \/ m.kind = "msearch" /\ operation = "_msearch"
             \/ m.kind = "bulk" /\ operation = "_bulk"
      <4>1. DOMAIN m = {"pattern", "methods", "matcher", "kind"}
        BY DEF RouteOfMany, Route
      <4>2. DOMAIN None = {"kind"} /\ "methods" \notin {"kind"}
        BY DEF None
      <4>3. m # None
        BY <4>1, <4>2
      <4> QED BY <3>1, <4>3 DEF RouteOfMany, Route
    <3> HIDE DEF m
    <3>6. Subject(request) = i
      BY <3>1, <3>2, <3>4 DEF Subject
    <3> QED BY <3>1, <3>4, <3>5, <3>6 DEF Writes
  <2> QED BY <1>3, <2>1, <2>2
<1> HIDE DEF Shape
<1>5. AsPromised(d, p, i) /\ Resolutions(p, i) = {d}
  BY <1>1, <1>4, LadderIsPromised, OneDecision DEF d
<1>6. Promise(p, i) # <<>> => Promise(p, i)[1] \in Range(Promise(p, i))
  BY <1>1, <1>4, PromiseHasFirst
<1> QED BY <1>4, <1>5, <1>6 DEF Shape, i, p, d

-----------------------------------------------------------------------------
\* What every handler does serves the request.
LEMMA SearchServes ==
  ASSUME Translated, RoutedAsFound, ~settings.transparent, Served(request), HandleSearch
  PROVE  Serves(request, response')
<1> DEFINE d == Ladder(Rules, Pipeline(request), NamedIn(request))
<1>1. at = "routed" /\ handler # None /\ handler.kind \in Asks
  BY DEF HandleSearch
<1>2. AsPromised(d, Pipeline(request), NamedIn(request)) /\ decision = d /\ UsesClickhouse(d) /\ handler.kind = "search"
  BY <1>1, RoutedAsDecided DEF Asks, Writes
<1> HIDE DEF d
<1>3. d.kind = "use"
  <2>1. ~UsesClickhouse(Closed)
    BY DEF UsesClickhouse, Closed, Decision
  <2> QED BY <1>2, <2>1, KindsOfPromise
<1>4. PICK outcome \in Outcomes(handler.kind) :
        response' = Response(outcome, IF outcome \notin {"ok", "error"} THEN <<>> ELSE d.connectors)
  BY <1>2 DEF HandleSearch, Answered
<1>5. CASE outcome \in {"ok", "error"}
  <2>1. response'.asked = d.connectors /\ response'.closed = FALSE
    BY <1>4, <1>5 DEF Response
  <2> QED BY <1>2, <1>3, <2>1, AllServes
<1>6. CASE outcome \notin {"ok", "error"}
  <2>1. response'.asked = <<>> /\ response'.outcome # "ok"
    BY <1>4, <1>6 DEF Response
  <2> QED BY <2>1, NothingServes
<1> QED BY <1>5, <1>6

LEMMA MultiSearchServes ==
  ASSUME Translated, RoutedAsFound, ~settings.transparent, Served(request), MultiSearch
  PROVE  Serves(request, response')
<1> DEFINE d == Ladder(Rules, Pipeline(request), NamedIn(request))
<1>1. at = "routed" /\ handler # None /\ handler.kind = "msearch"
  BY DEF MultiSearch
<1>2. /\ AsPromised(d, Pipeline(request), NamedIn(request))
      /\ Resolutions("query", Subject(request)) = {d}
  <2>1. "msearch" # "search" /\ "msearch" \notin Writes
    BY DEF Writes
  <2> QED BY <1>1, <2>1, RoutedAsDecided
<1> HIDE DEF d
<1>3. PICK outcome \in Outcomes("msearch") :
        response' = IF d.kind = "closed" /\ outcome = "ok" THEN ClosedResponse
                    ELSE Response(outcome, IF outcome = "bad request" THEN <<>> ELSE d.connectors)
  BY <1>2 DEF MultiSearch, Answered
<1>4. CASE d = Closed /\ outcome = "ok"
  <2>1. response' = ClosedResponse
    BY <1>3, <1>4 DEF Closed, Decision
  <2> QED BY <1>2, <1>4, <2>1, ClosedServes
<1>5. CASE d = Closed /\ outcome # "ok"
  <2>1. response'.asked = <<>> /\ response'.outcome # "ok"
    BY <1>3, <1>5 DEF Response, Closed, Decision
  <2> QED BY <2>1, NothingServes
<1>6. CASE d.kind = "use" /\ outcome # "bad request"
  <2>1. response'.asked = d.connectors /\ response'.closed = FALSE
    BY <1>3, <1>6 DEF Response
  <2> QED BY <1>2, <1>6, <2>1, AllServes
<1>7. CASE d.kind = "use" /\ outcome = "bad request"
  <2>1. response'.asked = <<>> /\ response'.outcome # "ok"
    BY <1>3, <1>7 DEF Response
  <2> QED BY <2>1, NothingServes
<1> QED BY <1>2, <1>4, <1>5, <1>6, <1>7, KindsOfPromise

LEMMA WriteServes ==
  ASSUME Translated, RoutedAsFound, ~settings.transparent, Served(request), Write
  PROVE  Serves(request, response')
<1> DEFINE d == Ladder(Rules, Pipeline(request), NamedIn(request))
<1>1. at = "routed" /\ handler # None /\ handler.kind \in Writes
  BY DEF Write
<1>2. /\ AsPromised(d, Pipeline(request), NamedIn(request)) /\ Pipeline(request) = "ingest"
      /\ Resolutions("ingest", Subject(request)) = {d}
  BY <1>1, RoutedAsDecided DEF Writes
<1> HIDE DEF d
<1>3. PICK outcome \in Outcomes(handler.kind) :
        LET refused == d.kind = "error" \/ (UsesClickhouse(d) /\ ~settings.ingests)
        IN  CASE outcome = "ok" ->
                   ~refused /\ Answered(IF d.kind = "closed" THEN ClosedResponse
                                        ELSE Response("ok", d.connectors))
              [] outcome = "unparsable" ->
                   \E asked \in IF refused THEN {<<>>}
                                ELSE {<<>>, d.connectors}
                                     \union (IF Elastic \in Range(d.connectors) THEN {<<Elastic>>} ELSE {}) :
                     Answered(Response(outcome, asked))
              [] OTHER -> Answered(Response(outcome, <<>>))
  BY <1>2 DEF Write
<1>4. CASE outcome = "ok"
  <2>1. response' = IF d.kind = "closed" THEN ClosedResponse ELSE Response("ok", d.connectors)
    BY <1>3, <1>4 DEF Answered
  <2>2. CASE d = Closed
    <3>1. response' = ClosedResponse
      BY <2>1, <2>2 DEF Closed, Decision
    <3> QED BY <1>2, <2>2, <3>1, ClosedServes
  <2>3. CASE d.kind = "use"
    <3>1. response'.asked = d.connectors /\ response'.closed = FALSE
      BY <2>1, <2>3 DEF Response
    <3> QED BY <1>2, <2>3, <3>1, AllServes
  <2> QED BY <1>2, <2>2, <2>3, KindsOfPromise
<1>5. CASE outcome = "unparsable"
  <2>1. PICK asked \in {<<>>, d.connectors} \union (IF Elastic \in Range(d.connectors) THEN {<<Elastic>>} ELSE {}) :
          response' = Response(outcome, asked)
    BY <1>3, <1>5 DEF Answered
  <2>2. response'.asked = asked /\ response'.outcome # "ok"
    BY <1>5, <2>1 DEF Response
  <2>3. Range(asked) \subseteq Range(d.connectors)
    <3>1. Range(<<>>) = {} /\ Range(<<Elastic>>) = {Elastic}
      BY DEF Range
    <3> QED BY <2>1, <3>1
  <2>4. Range(d.connectors) = Range(Promise(Pipeline(request), NamedIn(request)))
    <3>1. Closed.connectors = <<>>
      BY DEF Closed, Decision
    <3> QED BY <1>2, <3>1 DEF AsPromised
  <2> QED BY <1>2, <2>2, <2>3, <2>4 DEF Serves
<1>6. CASE outcome \notin {"ok", "unparsable"}
  <2>1. response' = Response(outcome, <<>>)
    BY <1>3, <1>6 DEF Answered
  <2>2. response'.asked = <<>> /\ response'.outcome # "ok"
    BY <1>6, <2>1 DEF Response
  <2> QED BY <2>2, NothingServes
<1> QED BY <1>4, <1>5, <1>6

LEMMA FallbackServes ==
  ASSUME Translated, RoutedAsFound, ~settings.transparent, Served(request), ElasticFallback
  PROVE  Serves(request, response')
<1> DEFINE p == Pipeline(request)
           i == NamedIn(request)
           d == Ladder(Rules, p, i)
<1>1. at = "routed" /\ handler = None
  BY DEF ElasticFallback
<1>2. /\ AsPromised(d, p, i) /\ decision = d /\ ~UsesClickhouse(d)
      /\ Promise(p, i) # <<>> => Promise(p, i)[1] \in Range(Promise(p, i))
  BY <1>1, RoutedAsDecided
<1> HIDE DEF d, p, i
<1>3. CASE d = Closed
  <2>1. response' = ClosedResponse
    BY <1>2, <1>3 DEF ElasticFallback, Answered, Closed, Decision
  <2> QED BY <1>2, <1>3, <2>1, ClosedServes DEF p, i
<1>4. CASE d.kind = "use"
  <2>1. \A x \in Range(d.connectors) : x = Elastic
    BY <1>2, KindsOfPromise DEF UsesClickhouse, Range
  <2>2. Promise(p, i) # <<>> /\ Range(d.connectors) = Range(Promise(p, i))
    BY <1>2, <1>4 DEF AsPromised, Closed, Decision
  <2>3. IF Elastic \in Range(d.connectors) THEN FromElastic ELSE Answered(Response("error", <<>>))
    BY <1>2, <1>4 DEF ElasticFallback
  <2>4. CASE Elastic \in Range(d.connectors)
    <3>1. response'.asked = <<Elastic>> /\ response'.closed = FALSE
      BY <2>3, <2>4 DEF FromElastic, Answered, Response
    <3>2. Range(<<Elastic>>) = {Elastic} /\ <<Elastic>>[1] = Elastic
      BY DEF Range
    <3>3. Range(Promise(p, i)) = {Elastic}
      BY <2>1, <2>2, <2>4
    <3>4. Promise(p, i)[1] = Elastic
      BY <1>2, <2>2, <3>3
    <3> QED BY <2>2, <3>1, <3>2, <3>3, <3>4 DEF Serves, p, i
  <2>5. CASE Elastic \notin Range(d.connectors)
    <3>1. response'.asked = <<>> /\ response'.outcome # "ok"
      BY <2>3, <2>5 DEF Answered, Response
    <3> QED BY <3>1, NothingServes
  <2> QED BY <2>4, <2>5
<1> QED BY <1>2, <1>3, <1>4, KindsOfPromise

-----------------------------------------------------------------------------
\* What the handlers find is what the promise is about, as long as a request
\* is under way.
RoutingInv ==
  /\ file \in Files /\ Translated
  /\ at \in {"start", "listening", "refused", "routed", "answered"}
  /\ at = "start" => settings.transparent
  /\ RoutedAsFound /\ ServedAsConfigured

LEMMA ServesStays ==
  ASSUME file' = file, settings' = settings, NEW r
  PROVE  /\ Serves(r, response)' <=> Serves(r, response')
         /\ Served(r)' <=> Served(r)
         /\ Found(r)' = Found(r)
         /\ Translated' <=> Translated
<1>1. Serves(r, response)' <=> Serves(r, response')
  BY DEF Serves, Agree, Attributes, Promise, Promised, ProcessorFor
<1>2. Served(r)' <=> Served(r)
  BY DEF Served, Agree, Attributes, Promise, Promised, ProcessorFor
<1>3. Found(r)' = Found(r)
  BY DEF Found, PredicateMatches, OfScript, Resolved, Resolutions, Rules
<1>4. Translated' <=> Translated
  BY DEF Translated, InUse
<1> QED BY <1>1, <1>2, <1>3, <1>4

LEMMA RoutingInit_Inv ==
  ASSUME RoutingInit
  PROVE  RoutingInv
<1>1. settings.transparent /\ at = "start" /\ file \in Files
  BY DEF RoutingInit, Transparent
<1> QED BY <1>1 DEF RoutingInv, Translated, RoutedAsFound, ServedAsConfigured

\* A handler's answer keeps the invariant if it serves the request.
LEMMA AnswerKeepsInv ==
  ASSUME RoutingInv, at = "routed", at' = "answered",
         UNCHANGED <<file, settings, request, handler, decision>>,
         ~settings.transparent /\ Served(request) => Serves(request, response')
  PROVE  RoutingInv'
<1>1. Translated' /\ file' \in Files
  BY ServesStays DEF RoutingInv
<1>2. RoutedAsFound'
  BY DEF RoutedAsFound
<1>3. ASSUME ~settings.transparent, Pipeline(request) # "none"
      PROVE  Serves(request, response')
  BY <1>3 DEF Served, Serves
<1>4. PICK r : r = request
  OBVIOUS
<1>5. Serves(r, response)' <=> Serves(r, response')
  BY ServesStays
<1>6. request' = r
  BY <1>4
<1>7. ServedAsConfigured' <=>
        (at' = "answered" /\ ~settings'.transparent /\ Pipeline(r) # "none" => Serves(r, response)')
  BY <1>6 DEF ServedAsConfigured, Serves
<1>8. ServedAsConfigured'
  BY <1>3, <1>4, <1>5, <1>7
<1> QED BY <1>1, <1>2, <1>8 DEF RoutingInv

LEMMA RoutingNext_Inv ==
  ASSUME RoutingInv, [RoutingNext]_routingVars
  PROVE  RoutingInv'
<1> USE RoutingAssumption DEF RoutingInv
<1>1. CASE Start
  <2>1. file' = file /\ at = "start"
    BY <1>1 DEF Start
  <2>2. CASE IsAccepted(file)
    <3>1. at' = "listening" /\ settings' = TranslateToLegacyConfig(file)
      BY <1>1, <2>2 DEF Start
    <3>2. ~settings'.transparent => ~Passes(file)
      BY <3>1 DEF TranslateToLegacyConfig, Transparent
    <3>3. Translated'
      BY <2>1, <2>2, <3>1, <3>2 DEF Translated, InUse
    <3> QED BY <2>1, <3>1, <3>3 DEF RoutedAsFound, ServedAsConfigured
  <2>3. CASE ~IsAccepted(file)
    <3>1. at' = "refused" /\ settings' = settings
      BY <1>1, <2>3 DEF Start
    <3>2. Translated'
      BY <2>1, <3>1 DEF Translated
    <3> QED BY <2>1, <3>1, <3>2 DEF RoutedAsFound, ServedAsConfigured
  <2> QED BY <2>2, <2>3
<1>2. CASE FindHandler
  <2>1. at' = "routed" /\ file' = file /\ settings' = settings
    BY <1>2 DEF FindHandler
  <2>2. PICK r \in SomeRequests[file] :
          request' = r /\ (~settings.transparent => \E f \in Found(r) : handler' = f.handler /\ decision' = f.decision)
    BY <1>2 DEF FindHandler
  <2>3. Translated' /\ Found(r)' = Found(r)
    BY <2>1, ServesStays
  <2>4. RoutedAsFound'
    BY <2>1, <2>2, <2>3 DEF RoutedAsFound
  <2> QED BY <2>1, <2>3, <2>4 DEF ServedAsConfigured
<1>3. CASE HandleSearch
  <2>1. /\ at = "routed" /\ at' = "answered"
        /\ UNCHANGED <<file, settings, request, handler, decision>>
    BY <1>3 DEF HandleSearch, Answered
  <2> QED BY <1>3, <2>1, SearchServes, AnswerKeepsInv
<1>4. CASE MultiSearch
  <2>1. /\ at = "routed" /\ at' = "answered"
        /\ UNCHANGED <<file, settings, request, handler, decision>>
    BY <1>4 DEF MultiSearch, Answered
  <2> QED BY <1>4, <2>1, MultiSearchServes, AnswerKeepsInv
<1>5. CASE Write
  <2>1. /\ at = "routed" /\ at' = "answered"
        /\ UNCHANGED <<file, settings, request, handler, decision>>
    BY <1>5 DEF Write, Answered
  <2> QED BY <1>5, <2>1, WriteServes, AnswerKeepsInv
<1>6. CASE AnswerItself
  <2>1. /\ at = "routed" /\ at' = "answered"
        /\ UNCHANGED <<file, settings, request, handler, decision>>
    BY <1>6 DEF AnswerItself, Answered
  <2>2. ~settings.transparent => ~Served(request)
    BY <1>6, <2>1, RoutedAsDecided DEF AnswerItself, Asks
  <2> QED BY <2>1, <2>2, AnswerKeepsInv
<1>7. CASE ElasticFallback
  <2>1. at = "routed" /\ handler = None
    BY <1>7 DEF ElasticFallback
  <2>2. /\ at' = "answered"
        /\ UNCHANGED <<file, settings, request, handler, decision>>
    BY <1>7 DEF ElasticFallback, FromElastic, Answered
  <2> QED BY <1>7, <2>1, <2>2, FallbackServes, AnswerKeepsInv
<1>8. CASE UNCHANGED routingVars
  <2>1. PICK r : r = request
    OBVIOUS
  <2>2. request' = r /\ UNCHANGED <<file, settings, at, handler, decision, response>>
    BY <1>8, <2>1 DEF routingVars
  <2>3. Translated' /\ Found(r)' = Found(r) /\ (Serves(r, response)' <=> Serves(r, response'))
    BY <2>2, ServesStays
  <2>4. RoutedAsFound'
    BY <2>1, <2>2, <2>3 DEF RoutedAsFound
  <2>5. at = "answered" /\ ~settings.transparent /\ Pipeline(r) # "none" => Serves(r, response)
    BY <2>1 DEF ServedAsConfigured, Serves
  <2>6. ServedAsConfigured' <=>
          (at' = "answered" /\ ~settings'.transparent /\ Pipeline(r) # "none" => Serves(r, response)')
    BY <2>2 DEF ServedAsConfigured, Serves
  <2>7. ServedAsConfigured'
    BY <2>2, <2>3, <2>5, <2>6
  <2> QED BY <2>2, <2>3, <2>4, <2>7
<1> QED BY <1>1, <1>2, <1>3, <1>4, <1>5, <1>6, <1>7, <1>8 DEF RoutingNext, Ended

\* Whatever the configuration says of an index whose settings agree, in
\* whatever order, its requests are served by the backends that the targets of
\* their pipeline name, all of them and no other.
THEOREM RequestsAreServedAsConfigured == RoutingSpec => []ServedAsConfigured
<1>1. RoutingInit => RoutingInv
  BY RoutingInit_Inv
<1>2. RoutingInv /\ [RoutingNext]_routingVars => RoutingInv'
  BY RoutingNext_Inv
<1>3. RoutingInv => ServedAsConfigured
  BY DEF RoutingInv
<1> QED BY <1>1, <1>2, <1>3, PTL DEF RoutingSpec
=============================================================================
