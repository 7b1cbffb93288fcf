---------------------------- MODULE FrontendGate ----------------------------
(***************************************************************************)
(* What stands between a client and the request handlers: the middleware   *)
(* chain of BasicHTTPFrontendConnector.ServeHTTP with its two middlewares, *)
(* the simultaneous clients limiter (quesma/dual_write_proxy_v2.go) and    *)
(* the authentication cache (quesma/auth_middleware.go).                   *)
(*                                                                         *)
(* A middleware is called, returns, and only then is the next one called,  *)
(* unless it has written a status code.  Elasticsearch, which validates    *)
(* the Authorization headers, is external: it may revoke a header at any   *)
(* time and may fail to answer.                                            *)
(***************************************************************************)
EXTENDS Integers, FiniteSets

CONSTANTS Requests,     \* HTTP requests, each served by a goroutine
          Headers,      \* values of the Authorization header
          HeaderOf,     \* the header of each request, or NoHeader
          NoHeader,
          Limit,        \* concurrentClientsLimitV2
          DisableAuth   \* config.DisableAuth: no authentication middleware

ASSUME FrontendGateAssumption ==
  /\ IsFiniteSet(Requests) /\ IsFiniteSet(Headers)
  /\ NoHeader \notin Headers
  /\ HeaderOf \in [Requests -> Headers \union {NoHeader}]
  /\ Limit \in Nat \ {0}
  /\ DisableAuth \in BOOLEAN

VARIABLES
  counter,   \* simultaneousClientsLimiterV2.counter
  pc,        \* where each request is
  seen,      \* the counter as each request loaded it, 0 once used
  status,    \* the status code a middleware wrote, 0 if none did
  valid,     \* headers Elasticsearch accepts
  cache,     \* authHeaderCache
  wiper,     \* control of the cache wipe goroutine
  wiped,     \* headers the wipe in progress has visited
  present,   \* headers that were cached when the wipe in progress began
  accepted   \* history: headers Elasticsearch ever accepted

limiterVars == <<counter, seen>>
authVars    == <<valid, cache, wiper, wiped, present, accepted>>
gateVars        == <<limiterVars, pc, status, authVars>>

GateInit ==
  /\ counter = 0
  /\ pc     = [r \in Requests |-> "arriving"]
  /\ seen   = [r \in Requests |-> 0]
  /\ status = [r \in Requests |-> 0]
  /\ valid \in SUBSET Headers
  /\ cache = {} /\ wiper = "idle" /\ wiped = {} /\ present = {}
  /\ accepted = {}

GoOn(r, to) == pc' = [pc EXCEPT ![r] = to]

\* http.Error: the chain stops after a middleware that wrote a status code.
Reject(r, code) == status' = [status EXCEPT ![r] = code]

-----------------------------------------------------------------------------
(* The limiter.                                                            *)

LoadCounter(r) ==
  /\ pc[r] = "arriving"
  /\ seen' = [seen EXCEPT ![r] = counter]
  /\ GoOn(r, "loaded")
  /\ UNCHANGED <<counter, status, authVars>>

TooManyRequests(r) ==
  /\ pc[r] = "loaded" /\ seen[r] >= Limit
  /\ seen' = [seen EXCEPT ![r] = 0]
  /\ Reject(r, 429)
  /\ GoOn(r, "limiterReturns")
  /\ UNCHANGED <<counter, authVars>>

CountClient(r) ==
  /\ pc[r] = "loaded" /\ seen[r] < Limit
  /\ counter' = counter + 1
  /\ seen' = [seen EXCEPT ![r] = 0]
  /\ GoOn(r, "counted")
  /\ UNCHANGED <<status, authVars>>

\* The deferred Add(-1) runs when the middleware returns.
UncountClient(r) ==
  /\ pc[r] = "counted"
  /\ counter' = counter - 1
  /\ GoOn(r, "limiterReturns")
  /\ UNCHANGED <<seen, status, authVars>>

\* Mutant of NextAfter: the chain goes on whatever the middleware wrote.
NextWhatever(r, next) == next

\* runMiddleware after the limiter, and after the authentication.
NextAfter(r, next) == IF status[r] = 0 THEN next ELSE "done"

\* Mutant of AfterLimiter: the index is not advanced past the limiter.
AfterLimiterAgain(r) ==
  /\ pc[r] = "limiterReturns"
  /\ GoOn(r, NextAfter(r, "arriving"))
  /\ UNCHANGED <<limiterVars, status, authVars>>

AfterLimiter(r) ==
  /\ pc[r] = "limiterReturns"
  /\ GoOn(r, NextAfter(r, IF DisableAuth THEN "handling" ELSE "authorizing"))
  /\ UNCHANGED <<limiterVars, status, authVars>>

AfterAuth(r) ==
  /\ pc[r] = "authReturns"
  /\ GoOn(r, NextAfter(r, "handling"))
  /\ UNCHANGED <<limiterVars, status, authVars>>

\* The final handler, which dispatches the request and answers it.
Handle(r) ==
  /\ pc[r] = "handling"
  /\ GoOn(r, "done")
  /\ UNCHANGED <<limiterVars, status, authVars>>

-----------------------------------------------------------------------------
(* The authentication.                                                     *)

MissingHeader(r) ==
  /\ pc[r] = "authorizing" /\ HeaderOf[r] = NoHeader
  /\ Reject(r, 401)
  /\ GoOn(r, "authReturns")
  /\ UNCHANGED <<limiterVars, authVars>>

CacheHit(r) ==
  /\ pc[r] = "authorizing" /\ HeaderOf[r] \in cache
  /\ GoOn(r, "authReturns")
  /\ UNCHANGED <<limiterVars, status, authVars>>

\* Mutant of CacheMiss: the header is cached before it is validated.
CacheMissOptimistic(r) ==
  /\ pc[r] = "authorizing" /\ HeaderOf[r] \in Headers \ cache
  /\ cache' = cache \union {HeaderOf[r]}
  /\ GoOn(r, "asking")
  /\ UNCHANGED <<limiterVars, status, valid, wiper, wiped, present, accepted>>

CacheMiss(r) ==
  /\ pc[r] = "authorizing" /\ HeaderOf[r] \in Headers \ cache
  /\ GoOn(r, "asking")
  /\ UNCHANGED <<limiterVars, status, authVars>>

\* esClient.Authenticate: accepted, or refused, or no answer in time.
Accepted(r) ==
  /\ pc[r] = "asking" /\ HeaderOf[r] \in valid
  /\ accepted' = accepted \union {HeaderOf[r]}
  /\ GoOn(r, "accepted")
  /\ UNCHANGED <<limiterVars, status, valid, cache, wiper, wiped, present>>

NotAccepted(r) ==
  /\ pc[r] = "asking"
  /\ Reject(r, 401)
  /\ GoOn(r, "authReturns")
  /\ UNCHANGED <<limiterVars, authVars>>

StoreHeader(r) ==
  /\ pc[r] = "accepted"
  /\ cache' = cache \union {HeaderOf[r]}
  /\ GoOn(r, "authReturns")
  /\ UNCHANGED <<limiterVars, status, valid, wiper, wiped, present, accepted>>

\* Elasticsearch: the user was removed or the password changed.
Revoke(h) ==
  /\ h \in valid
  /\ valid' = valid \ {h}
  /\ UNCHANGED <<limiterVars, pc, status, cache, wiper, wiped, present, accepted>>

\* Mutant of StartWipe: a timer that is not started again.
StartWipeOnce ==
  /\ wiper = "idle" /\ wiped = {} /\ cache # {}
  /\ wiper' = "wiping" /\ wiped' = {} /\ present' = cache
  /\ UNCHANGED <<limiterVars, pc, status, valid, cache, accepted>>

\* A tick of the ticker: Range visits at least what is cached now, and whatever
\* of the headers stored meanwhile it happens to reach.
StartWipe ==
  /\ wiper = "idle"
  /\ wiper' = "wiping" /\ wiped' = {} /\ present' = cache
  /\ UNCHANGED <<limiterVars, pc, status, valid, cache, accepted>>

WipeHeader(h) ==
  /\ wiper = "wiping" /\ h \in cache \ wiped
  /\ cache' = cache \ {h} /\ wiped' = wiped \union {h}
  /\ UNCHANGED <<limiterVars, pc, status, valid, wiper, present, accepted>>

EndWipe ==
  /\ wiper = "wiping" /\ present \subseteq wiped
  /\ wiper' = "idle" /\ present' = {}
  /\ UNCHANGED <<limiterVars, pc, status, valid, cache, wiped, accepted>>

-----------------------------------------------------------------------------
Serve(r) ==
  \/ LoadCounter(r) \/ TooManyRequests(r) \/ CountClient(r) \/ UncountClient(r)
  \/ AfterLimiter(r) \/ AfterAuth(r) \/ Handle(r)
  \/ MissingHeader(r) \/ CacheHit(r) \/ CacheMiss(r)
  \/ Accepted(r) \/ NotAccepted(r) \/ StoreHeader(r)

Wipe == StartWipe \/ (\E h \in Headers : WipeHeader(h)) \/ EndWipe

GateNext == (\E r \in Requests : Serve(r)) \/ Wipe \/ \E h \in Headers : Revoke(h)

GateSpec == GateInit /\ [][GateNext]_gateVars

\* Every request's goroutine runs, the client of Elasticsearch has a timeout,
\* and the ticker of the wipe goroutine never stops.
GateFairness == (\A r \in Requests : WF_gateVars(Serve(r))) /\ WF_gateVars(Wipe)

GateFairSpec == GateSpec /\ GateFairness

-----------------------------------------------------------------------------
(* Properties.                                                             *)

\* Types; the counter never drops below zero.
GateTypeOK ==
  /\ counter \in Nat
  /\ pc \in [Requests -> {"arriving", "loaded", "counted", "limiterReturns",
                          "authorizing", "asking", "accepted", "authReturns",
                          "handling", "done"}]
  /\ seen \in [Requests -> Nat]
  /\ status \in [Requests -> {0, 401, 429}]
  /\ valid \subseteq Headers /\ cache \subseteq Headers
  /\ wiper \in {"idle", "wiping"}
  /\ wiped \subseteq Headers /\ present \subseteq Headers
  /\ accepted \subseteq Headers

\* With authentication on, a request reaches the handlers only with a header
\* that Elasticsearch itself accepted, for this request or for an earlier one
\* with the same header, however wipes, failures and requests interleave.
HandledOnlyIfAccepted ==
  \A r \in Requests : pc[r] = "handling" /\ ~DisableAuth => HeaderOf[r] \in accepted

\* The chain stops at the first middleware that writes a status code: a client
\* that was told 401 or 429 never has its request executed as well.
RejectedIsNotHandled == \A r \in Requests : pc[r] = "handling" => status[r] = 0

\* Both: the middlewares decide who is handled.
AdmissionIsRespected == HandledOnlyIfAccepted /\ RejectedIsNotHandled

\* Removing a user takes effect: a header that Elasticsearch accepts no longer
\* is some day gone from the cache for good, although a request may store it
\* after the wipe that followed the revocation.
RevocationTakesEffect == \A h \in Headers : <>[](h \notin valid) => <>[](h \notin cache)

\* Every request is answered.
EveryRequestEnds == <>(\A r \in Requests : pc[r] = "done")

\* "this is hard limit, we should not allow to go over it": the requests that
\* the limiter let in and that are not answered yet.
HardLimit ==
  Cardinality({r \in Requests :
                 /\ status[r] = 0
                 /\ pc[r] \notin {"arriving", "loaded", "done"}}) <= Limit
=============================================================================
