---------------------------- MODULE AsyncSearch ----------------------------
(***************************************************************************)
(* The query runner's search life cycle: quesma/frontend_connectors/       *)
(* search.go together with quesma/async_search_storage/in_memory.go.       *)
(*                                                                         *)
(* Every search has a request handler (executePlan), a worker goroutine    *)
(* (runExecutePlanAsync) that reports through the buffered channel doneCh, *)
(* and, once the handler stopped waiting, a background goroutine that      *)
(* stores the late result.  Results wait in AsyncRequestStorage until a    *)
(* client fetches or deletes them or the evictor drops them.               *)
(*                                                                         *)
(* Bodies are abstracted to what clients can tell apart: "pending" (empty  *)
(* partial response), "ok" (the search response) and "error".  Time is     *)
(* abstracted to one bit per entry: older than EvictionInterval or not.    *)
(***************************************************************************)
EXTENDS Naturals, Sequences, FiniteSets

CONSTANTS Searches,          \* search requests, each with its own fresh async id
          Pollers,           \* concurrent clients of GET /_async_search/:id
          Requests,          \* the kinds of request clients submit
          AsyncQueriesLimit, \* asyncQueriesLimit: stored results that close admission
          OtherResults       \* how many results of searches not modelled may be stored

RequestKinds == [async      : BOOLEAN,   \* optAsync # nil
                 keep       : BOOLEAN,   \* keep_on_completion
                 hasQueries : BOOLEAN]   \* len(plan.Queries) > 0

ASSUME AsyncSearchAssumption ==
  /\ IsFiniteSet(Searches)
  /\ "absent" \notin Searches
  /\ Requests \subseteq RequestKinds
  /\ AsyncQueriesLimit \in Nat
  /\ OtherResults \subseteq Nat

VARIABLES
  req,         \* the request behind each search
  handler,     \* control of executePlan
  worker,      \* control of the goroutine started by runExecutePlanAsync
  background,  \* control of the goroutine started when the timer wins
  doneCh,      \* chan asyncSearchWithError, one per search
  got,         \* the message the reader took out of doneCh
  ret,         \* executePlan's named results, which two goroutines assign
  stored,      \* AsyncRequestStorage
  oldResults,  \* stored results added more than EvictionInterval ago
  contexts,    \* AsyncQueriesContexts
  oldContexts, \* contexts added more than EvictionInterval ago
  cancelled,   \* query contexts whose cancel function was called
  poll,        \* each poller's progress through HandlePartialAsyncSearch
  evictor,     \* control of tryEvictAsyncRequests
  toEvict,     \* ids collected for deletion
  toCancel,    \* contexts collected for cancellation
  verdict,     \* history: how storing or marshalling decided the search
  doomed,      \* history: searches whose worker met an error
  told         \* history: what clients were told about each search

channels == <<doneCh, got>>
storage  == <<stored, oldResults>>
ctxs     == <<contexts, oldContexts, cancelled>>
eviction == <<evictor, toEvict, toCancel>>
history  == <<verdict, doomed, told>>
vars == <<req, handler, worker, background, channels, ret, storage, ctxs,
          poll, eviction, history>>

Outcomes == {"ok", "error"}
Absent   == "absent"

\* make(chan asyncSearchWithError, 1)
DoneChCapacity == 1

-----------------------------------------------------------------------------
Init ==
  /\ req \in [Searches -> Requests]
  /\ handler    = [s \in Searches |-> "idle"]
  /\ worker     = [s \in Searches |-> "idle"]
  /\ background = [s \in Searches |-> "idle"]
  /\ doneCh     = [s \in Searches |-> <<>>]
  /\ got        = [s \in Searches |-> Absent]
  /\ ret        = [s \in Searches |-> [body |-> Absent, err |-> FALSE]]
  /\ stored     = [s \in Searches |-> Absent]
  /\ oldResults = {} /\ contexts = {} /\ oldContexts = {} /\ cancelled = {}
  /\ poll       = [p \in Pollers |-> [id |-> Absent, res |-> Absent]]
  /\ evictor = "idle" /\ toEvict = {} /\ toCancel = {}
  /\ verdict    = [s \in Searches |-> Absent]
  /\ doomed = {}
  /\ told       = [s \in Searches |-> {}]

-----------------------------------------------------------------------------
(* The worker goroutine.                                                   *)

StoredIds == {s \in Searches : stored[s] # Absent}

\* The byte limit on the cumulated bodies closes admission in the same way and
\* is represented by the same bound.
ReachedQueriesLimit(others) == Cardinality(StoredIds) + others >= AsyncQueriesLimit

\* Mutant of Send: the channel accepts any number of messages.
SendUnbounded(s, m) == doneCh' = [doneCh EXCEPT ![s] = Append(@, m)]

Send(s, m) ==
  /\ Len(doneCh[s]) < DoneChCapacity
  /\ doneCh' = [doneCh EXCEPT ![s] = Append(@, m)]

\* A failing step of the worker: the error goes to doneCh, then to `next`.
Fail(s, next) ==
  /\ Send(s, "error")
  /\ worker' = [worker EXCEPT ![s] = next]
  /\ doomed' = doomed \union {s}
  /\ UNCHANGED <<req, handler, background, got, ret, storage, poll, eviction,
                 verdict, told>>

\* Mutant of Refuse: the limit is noticed but not reported.
RefuseSilently(s) ==
  /\ worker[s] = "start"
  /\ req[s].async
  /\ \E others \in OtherResults : ReachedQueriesLimit(others)
  /\ worker' = [worker EXCEPT ![s] = IF req[s].hasQueries THEN "noHits" ELSE "respond"]
  /\ doomed' = doomed \union {s}
  /\ UNCHANGED <<req, handler, background, channels, ret, storage, ctxs, poll,
                 eviction, verdict, told>>

\* reachedQueriesLimit reports the error itself; searchWorker then returns
\* three nils and runExecutePlanAsync goes on as if the search had no results.
Refuse(s) ==
  /\ worker[s] = "start"
  /\ req[s].async
  /\ \E others \in OtherResults : ReachedQueriesLimit(others)
  /\ Fail(s, IF req[s].hasQueries THEN "noHits" ELSE "respond")
  /\ UNCHANGED ctxs

\* The query context outlives the HTTP request; only the evictor cancels it.
Admit(s) ==
  /\ worker[s] = "start"
  /\ req[s].async => \E others \in OtherResults : ~ReachedQueriesLimit(others)
  /\ contexts' = IF req[s].async THEN contexts \union {s} ELSE contexts
  /\ worker' = [worker EXCEPT ![s] = "query"]
  /\ UNCHANGED <<req, handler, background, channels, ret, storage, oldContexts,
                 cancelled, poll, eviction, history>>

\* All database queries answered (or there were none to run).
QueriesSucceed(s) ==
  /\ worker[s] = "query"
  /\ worker' = [worker EXCEPT ![s] = "post"]
  /\ UNCHANGED <<req, handler, background, channels, ret, storage, ctxs, poll,
                 eviction, history>>

\* A query failed, or its context was cancelled.
QueriesFail(s) ==
  /\ worker[s] = "query"
  /\ req[s].hasQueries
  /\ Fail(s, "done")
  /\ UNCHANGED ctxs

\* "no hits": the second message of a refused search.
NoHits(s) ==
  /\ worker[s] = "noHits"
  /\ Fail(s, "done")
  /\ UNCHANGED ctxs

PostProcess(s) ==
  /\ worker[s] = "post"
  /\ worker' = [worker EXCEPT ![s] = "respond"]
  /\ UNCHANGED <<req, handler, background, channels, ret, storage, ctxs, poll,
                 eviction, history>>

\* The error branch of postProcessResults does not return: the worker goes on
\* to build a response and to send a second message that carries the error.
PostProcessFails(s) ==
  /\ worker[s] = "post"
  /\ req[s].hasQueries
  /\ Fail(s, "respondError")
  /\ UNCHANGED ctxs

Respond(s) ==
  /\ worker[s] = "respond"
  /\ Send(s, "ok")
  /\ worker' = [worker EXCEPT ![s] = "done"]
  /\ UNCHANGED <<req, handler, background, got, ret, storage, ctxs, poll,
                 eviction, history>>

\* The response built after a failed post-processing is sent with its error.
RespondError(s) ==
  /\ worker[s] = "respondError"
  /\ Fail(s, "done")
  /\ UNCHANGED ctxs

\* The deferred handler turns a panic of the worker into an error message.
Panic(s) ==
  /\ worker[s] \in {"query", "post", "respond", "respondError"}
  /\ Fail(s, "done")
  /\ UNCHANGED ctxs

-----------------------------------------------------------------------------
(* The request handler and the background goroutine.                       *)

Receive(s) ==
  /\ doneCh[s] # <<>>
  /\ got' = [got EXCEPT ![s] = Head(doneCh[s])]
  /\ doneCh' = [doneCh EXCEPT ![s] = Tail(@)]

\* Marshalling a good response may still fail (a NaN in an aggregation).
MarshalOutcomes(m) == IF m = "ok" THEN Outcomes ELSE {"error"}

StoreResult(s, res) ==
  /\ stored' = [stored EXCEPT ![s] = res]
  /\ oldResults' = oldResults \ {s}

DeleteResult(s) ==
  /\ stored' = [stored EXCEPT ![s] = Absent]
  /\ oldResults' = oldResults \ {s}

\* HandleSearch, HandleAsyncSearch: the request arrives and its worker starts.
Submit(s) ==
  /\ handler[s] = "idle"
  /\ handler' = [handler EXCEPT ![s] = "waiting"]
  /\ worker' = [worker EXCEPT ![s] = "start"]
  /\ UNCHANGED <<req, background, channels, ret, storage, ctxs, poll, eviction,
                 history>>

\* A synchronous search marshals the first message and returns it.
ReceiveSync(s) ==
  /\ handler[s] = "waiting"
  /\ ~req[s].async
  /\ Receive(s)
  /\ \E res \in MarshalOutcomes(Head(doneCh[s])) :
       /\ verdict' = [verdict EXCEPT ![s] = res]
       /\ ret' = [ret EXCEPT ![s] = [body |-> res, err |-> res = "error"]]
  /\ handler' = [handler EXCEPT ![s] = "returning"]
  /\ UNCHANGED <<req, worker, background, storage, ctxs, poll, eviction, doomed,
                 told>>

\* select: the result came before the timer.
ReceiveInTime(s) ==
  /\ handler[s] = "waiting"
  /\ req[s].async
  /\ Receive(s)
  /\ handler' = [handler EXCEPT ![s] = "storing"]
  /\ UNCHANGED <<req, worker, background, ret, storage, ctxs, poll, eviction,
                 history>>

\* storeAsyncSearch with keep = keepOnCompletion, then the answer.
StoreInTime(s) ==
  /\ handler[s] = "storing"
  /\ \E res \in MarshalOutcomes(got[s]) :
       /\ verdict' = [verdict EXCEPT ![s] = res]
       /\ ret' = [ret EXCEPT ![s] = [body |-> res, err |-> res = "error"]]
       /\ IF req[s].keep THEN StoreResult(s, res) ELSE UNCHANGED storage
  /\ handler' = [handler EXCEPT ![s] = "returning"]
  /\ UNCHANGED <<req, worker, background, channels, ctxs, poll, eviction,
                 doomed, told>>

\* Mutant of TimerFires: nobody reads doneCh after the timer won.
TimerFiresWithoutReader(s) ==
  /\ handler[s] = "waiting"
  /\ req[s].async
  /\ handler' = [handler EXCEPT ![s] = "partial"]
  /\ UNCHANGED <<req, worker, background, channels, ret, storage, ctxs, poll,
                 eviction, history>>

\* Mutant of TimerFires: the timer is armed only once the worker is done.
TimerFiresAfterWorker(s) ==
  /\ handler[s] = "waiting"
  /\ req[s].async
  /\ worker[s] = "done"
  /\ handler' = [handler EXCEPT ![s] = "partial"]
  /\ background' = [background EXCEPT ![s] = "receiving"]
  /\ UNCHANGED <<req, worker, channels, ret, storage, ctxs, poll, eviction,
                 history>>

\* select: the timer wins (Go picks at random when both are ready).
TimerFires(s) ==
  /\ handler[s] = "waiting"
  /\ req[s].async
  /\ handler' = [handler EXCEPT ![s] = "partial"]
  /\ background' = [background EXCEPT ![s] = "receiving"]
  /\ UNCHANGED <<req, worker, channels, ret, storage, ctxs, poll, eviction,
                 history>>

\* HandlePartialAsyncSearch on behalf of the first request: Load ...
PartialLoad(s) ==
  /\ handler[s] = "partial"
  /\ ret' = [ret EXCEPT ![s] =
               [body |-> IF stored[s] = Absent THEN "pending" ELSE stored[s],
                err  |-> FALSE]]
  /\ handler' = [handler EXCEPT ![s] =
                   IF stored[s] = Absent THEN "returning" ELSE "partialDelete"]
  /\ UNCHANGED <<req, worker, background, channels, storage, ctxs, poll,
                 eviction, history>>

\* ... and Delete.
PartialDelete(s) ==
  /\ handler[s] = "partialDelete"
  /\ DeleteResult(s)
  /\ handler' = [handler EXCEPT ![s] = "returning"]
  /\ UNCHANGED <<req, worker, background, channels, ret, ctxs, poll, eviction,
                 history>>

\* What a client understands: an error wins over whatever the body says.
Answer(r) == IF r.err THEN "error" ELSE r.body

Tell(s, x) == told' = [told EXCEPT ![s] = @ \union {x}]

\* The return reads the shared results; the background goroutine may have
\* overwritten either of them by now.
Return(s) ==
  /\ handler[s] = "returning"
  /\ Tell(s, Answer(ret[s]))
  /\ handler' = [handler EXCEPT ![s] = "done"]
  /\ UNCHANGED <<req, worker, background, channels, ret, storage, ctxs, poll,
                 eviction, verdict, doomed>>

LateReceive(s) ==
  /\ background[s] = "receiving"
  /\ Receive(s)
  /\ background' = [background EXCEPT ![s] = "storing"]
  /\ UNCHANGED <<req, handler, worker, ret, storage, ctxs, poll, eviction,
                 history>>

\* storeAsyncSearch with keep = true.
LateStore(s) ==
  /\ background[s] = "storing"
  /\ \E res \in MarshalOutcomes(got[s]) :
       /\ verdict' = [verdict EXCEPT ![s] = res]
       /\ StoreResult(s, res)
  /\ background' = [background EXCEPT ![s] = "assignBody"]
  /\ UNCHANGED <<req, handler, worker, channels, ret, ctxs, poll, eviction,
                 doomed, told>>

\* `responseBody, err = q.storeAsyncSearch(...)` assigns the results captured
\* from executePlan, one after the other and without synchronization.
LateAssignBody(s) ==
  /\ background[s] = "assignBody"
  /\ ret' = [ret EXCEPT ![s].body = verdict[s]]
  /\ background' = [background EXCEPT ![s] = "assignErr"]
  /\ UNCHANGED <<req, handler, worker, channels, storage, ctxs, poll, eviction,
                 history>>

LateAssignErr(s) ==
  /\ background[s] = "assignErr"
  /\ ret' = [ret EXCEPT ![s].err = (verdict[s] = "error")]
  /\ background' = [background EXCEPT ![s] = "done"]
  /\ UNCHANGED <<req, handler, worker, channels, storage, ctxs, poll, eviction,
                 history>>

-----------------------------------------------------------------------------
(* Clients that come back with the async id.                               *)

KnowsId(s) == handler[s] = "done" /\ req[s].async

\* HandlePartialAsyncSearch: Load; a miss is answered at once ...
PollMiss(s) ==
  /\ KnowsId(s)
  /\ stored[s] = Absent
  /\ Tell(s, "pending")
  /\ UNCHANGED <<req, handler, worker, background, channels, ret, storage, ctxs,
                 poll, eviction, verdict, doomed>>

\* Mutant of PollHit: the stored error is not looked at.
PollHitIgnoresError(p, s) ==
  /\ poll[p].id = Absent
  /\ KnowsId(s)
  /\ stored[s] # Absent
  /\ poll' = [poll EXCEPT ![p] = [id |-> s, res |-> "ok"]]
  /\ UNCHANGED <<req, handler, worker, background, channels, ret, storage, ctxs,
                 eviction, history>>

PollHit(p, s) ==
  /\ poll[p].id = Absent
  /\ KnowsId(s)
  /\ stored[s] # Absent
  /\ poll' = [poll EXCEPT ![p] = [id |-> s, res |-> stored[s]]]
  /\ UNCHANGED <<req, handler, worker, background, channels, ret, storage, ctxs,
                 eviction, history>>

\* ... a hit is deleted by id, then answered with what was loaded.
PollDelete(p) ==
  /\ poll[p].id # Absent
  /\ DeleteResult(poll[p].id)
  /\ Tell(poll[p].id, poll[p].res)
  /\ poll' = [poll EXCEPT ![p] = [id |-> Absent, res |-> Absent]]
  /\ UNCHANGED <<req, handler, worker, background, channels, ret, ctxs,
                 eviction, verdict, doomed>>

\* Mutant of Status: a search without a query context counts as completed.
StatusFromContexts(s) ==
  /\ KnowsId(s)
  /\ Tell(s, IF s \in contexts THEN "pending" ELSE "completed")
  /\ UNCHANGED <<req, handler, worker, background, channels, ret, storage, ctxs,
                 poll, eviction, verdict, doomed>>

\* HandleAsyncSearchStatus: anything not in the storage is "still running".
Status(s) ==
  /\ KnowsId(s)
  /\ Tell(s, IF stored[s] = Absent THEN "pending" ELSE "completed")
  /\ UNCHANGED <<req, handler, worker, background, channels, ret, storage, ctxs,
                 poll, eviction, verdict, doomed>>

\* DeleteAsyncSearch touches the storage only: a running query keeps running.
DeleteAsyncSearch(s) ==
  /\ KnowsId(s)
  /\ DeleteResult(s)
  /\ UNCHANGED <<req, handler, worker, background, channels, ret, ctxs, poll,
                 eviction, history>>

-----------------------------------------------------------------------------
(* Time and the evictor.                                                   *)

AgeContext(s) ==
  /\ s \in contexts
  /\ oldContexts' = oldContexts \union {s}
  /\ UNCHANGED <<req, handler, worker, background, channels, ret, storage,
                 contexts, cancelled, poll, eviction, history>>

\* A search's context is added before its result, so it is the first to age.
AgeResult(s) ==
  /\ stored[s] # Absent
  /\ s \in contexts => s \in oldContexts
  /\ oldResults' = oldResults \union {s}
  /\ UNCHANGED <<req, handler, worker, background, channels, ret, stored, ctxs,
                 poll, eviction, history>>

\* Mutant of EvictorCollect: the age of the query context decides.
EvictorCollectByContext ==
  /\ evictor = "idle"
  /\ toEvict' = oldContexts
  /\ evictor' = "deleting"
  /\ UNCHANGED <<req, handler, worker, background, channels, ret, storage, ctxs,
                 poll, toCancel, history>>

\* Mutant of EvictorCollect: results whose context is gone are overlooked.
EvictorCollectTracked ==
  /\ evictor = "idle"
  /\ toEvict' = oldResults \intersect contexts
  /\ evictor' = "deleting"
  /\ UNCHANGED <<req, handler, worker, background, channels, ret, storage, ctxs,
                 poll, toCancel, history>>

\* tryEvictAsyncRequests collects the ids of old results ...
EvictorCollect ==
  /\ evictor = "idle"
  /\ toEvict' = oldResults
  /\ evictor' = "deleting"
  /\ UNCHANGED <<req, handler, worker, background, channels, ret, storage, ctxs,
                 poll, toCancel, history>>

\* ... deletes whatever is stored under them, one by one ...
EvictorDelete(s) ==
  /\ evictor = "deleting"
  /\ s \in toEvict
  /\ DeleteResult(s)
  /\ toEvict' = toEvict \ {s}
  /\ UNCHANGED <<req, handler, worker, background, channels, ret, ctxs, poll,
                 evictor, toCancel, history>>

\* ... then collects the old contexts ...
EvictorCollectContexts ==
  /\ evictor = "deleting"
  /\ toEvict = {}
  /\ toCancel' = contexts \intersect oldContexts
  /\ evictor' = "cancelling"
  /\ UNCHANGED <<req, handler, worker, background, channels, ret, storage, ctxs,
                 poll, toEvict, history>>

\* Mutant of EvictorCancel: the context is dropped without calling cancel.
EvictorForgets(s) ==
  /\ evictor = "cancelling"
  /\ s \in toCancel
  /\ contexts' = contexts \ {s}
  /\ toCancel' = toCancel \ {s}
  /\ UNCHANGED <<req, handler, worker, background, channels, ret, storage,
                 oldContexts, cancelled, poll, evictor, toEvict, history>>

\* ... and removes and cancels each of them.
EvictorCancel(s) ==
  /\ evictor = "cancelling"
  /\ s \in toCancel
  /\ contexts' = contexts \ {s}
  /\ cancelled' = cancelled \union {s}
  /\ toCancel' = toCancel \ {s}
  /\ UNCHANGED <<req, handler, worker, background, channels, ret, storage,
                 oldContexts, poll, evictor, toEvict, history>>

EvictorSleep ==
  /\ evictor = "cancelling"
  /\ toCancel = {}
  /\ evictor' = "idle"
  /\ UNCHANGED <<req, handler, worker, background, channels, ret, storage, ctxs,
                 poll, toEvict, toCancel, history>>

-----------------------------------------------------------------------------
\* Everything the worker does on its own, without the database and bad luck.
WorkerStep(s) ==
  \/ Refuse(s) \/ Admit(s) \/ NoHits(s) \/ PostProcess(s)
  \/ PostProcessFails(s) \/ Respond(s) \/ RespondError(s)

HandlerStep(s) ==
  \/ ReceiveSync(s) \/ ReceiveInTime(s) \/ StoreInTime(s) \/ TimerFires(s)
  \/ PartialLoad(s) \/ PartialDelete(s) \/ Return(s)

BackgroundStep(s) ==
  LateReceive(s) \/ LateStore(s) \/ LateAssignBody(s) \/ LateAssignErr(s)

ClientStep(s) ==
  Submit(s) \/ PollMiss(s) \/ Status(s) \/ DeleteAsyncSearch(s)

EvictorStep ==
  \/ EvictorCollect \/ EvictorCollectContexts \/ EvictorSleep
  \/ \E s \in Searches : EvictorDelete(s) \/ EvictorCancel(s)

Next ==
  \/ \E s \in Searches :
       \/ WorkerStep(s) \/ QueriesSucceed(s) \/ QueriesFail(s) \/ Panic(s)
       \/ HandlerStep(s) \/ BackgroundStep(s) \/ ClientStep(s)
       \/ AgeContext(s) \/ AgeResult(s)
       \/ \E p \in Pollers : PollHit(p, s)
  \/ \E p \in Pollers : PollDelete(p)
  \/ EvictorStep

Spec == Init /\ [][Next]_vars

\* Goroutines are scheduled and clocks run; nothing makes the database answer,
\* except that a query whose context was cancelled returns an error.
Fairness ==
  /\ \A s \in Searches :
       /\ WF_vars(WorkerStep(s))
       /\ WF_vars(HandlerStep(s))
       /\ WF_vars(BackgroundStep(s))
       /\ WF_vars(s \in cancelled /\ QueriesFail(s))
       /\ WF_vars(AgeContext(s))
       /\ WF_vars(AgeResult(s))
  /\ \A p \in Pollers : WF_vars(PollDelete(p))
  /\ WF_vars(EvictorStep)

FairSpec == Spec /\ Fairness

-----------------------------------------------------------------------------
(* Properties.                                                             *)

WorkerStates == {"idle", "start", "query", "noHits", "post", "respond",
                 "respondError", "done"}
HandlerStates == {"idle", "waiting", "storing", "partial", "partialDelete",
                  "returning", "done"}
BackgroundStates == {"idle", "receiving", "storing", "assignBody", "assignErr",
                     "done"}
MaybeOutcomes == Outcomes \union {Absent}
Answers       == Outcomes \union {"pending", "completed"}

\* The state of search.go and in_memory.go keeps its shape.
TypeOK ==
  /\ req \in [Searches -> Requests]
  /\ handler \in [Searches -> HandlerStates]
  /\ worker \in [Searches -> WorkerStates]
  /\ background \in [Searches -> BackgroundStates]
  /\ doneCh \in [Searches -> {<<>>} \union {<<m>> : m \in Outcomes}]
  /\ got \in [Searches -> MaybeOutcomes]
  /\ ret \in [Searches -> [body : MaybeOutcomes \union {"pending"}, err : BOOLEAN]]
  /\ stored \in [Searches -> MaybeOutcomes]
  /\ oldResults \in SUBSET Searches
  /\ contexts \in SUBSET Searches
  /\ oldContexts \in SUBSET Searches
  /\ cancelled \in SUBSET Searches
  /\ poll \in [Pollers -> [id : Searches \union {Absent}, res : MaybeOutcomes]]
  /\ evictor \in {"idle", "deleting", "cancelling"}
  /\ toEvict \in SUBSET Searches
  /\ toCancel \in SUBSET Searches
  /\ verdict \in [Searches -> MaybeOutcomes]
  /\ doomed \in SUBSET Searches
  /\ told \in [Searches -> SUBSET Answers]

\* No two clients, and no two answers to one client, disagree about how a
\* search ended, although two goroutines assign executePlan's results without
\* synchronization, the worker may send two messages, and polls load a result
\* before they delete it.
ClientsAgree ==
  \A s \in Searches :
    /\ told[s] \intersect Outcomes \subseteq {verdict[s]}
    /\ "completed" \in told[s] => verdict[s] # Absent

\* A search whose worker met an error (refused at the limit, failed query,
\* failed post-processing, panic) is never answered or stored as a success:
\* the first message in doneCh is the error even when a success follows it.
ErrorIsNeverMasked ==
  \A s \in doomed : verdict[s] # "ok" /\ stored[s] # "ok" /\ "ok" \notin told[s]

\* tryEvictAsyncRequests deletes by id what it collected earlier; what it
\* removes has still outlived EvictionInterval at that moment.
EvictsOnlyOldResults ==
  [][\A s \in Searches :
       toEvict' # toEvict /\ stored[s] # Absent /\ stored'[s] = Absent
         => s \in oldResults]_vars

\* The worker goroutine never stays blocked on doneCh: it may send a second
\* message, and somebody always takes the first.
NoGoroutineLeak ==
  \A s \in Searches :
    worker[s] \notin {"idle", "query", "done"} ~> worker[s] \in {"query", "done"}

\* An async request is answered even when the database never is: the timer of
\* executePlan's select fires, and HandlePartialAsyncSearch does not wait.
AsyncRequestAnswered ==
  \A s \in Searches :
    handler[s] = "waiting" /\ req[s].async ~> handler[s] = "done"

\* An async query that hangs in the database is cancelled by the evictor: its
\* context is recorded before the query starts and nobody else removes it.
HungQueryEnds ==
  \A s \in Searches :
    worker[s] = "query" /\ req[s].async /\ req[s].hasQueries ~> worker[s] = "done"

\* A worker goroutine always ends: whatever it sends is taken, and a query that hangs
\* is cancelled.
WorkersEnd == NoGoroutineLeak /\ HungQueryEnds

\* Every stored result leaves the storage, also one stored after its search
\* was deleted by the client (DeleteAsyncSearch does not stop the query).
StorageDrains ==
  \A s \in Searches : stored[s] # Absent ~> stored[s] = Absent

\* The client's view of this module: a search is open until it is decided.
Retention(s) ==
  IF stored[s] # Absent THEN "kept" ELSE IF verdict[s] = Absent THEN "open" ELSE "gone"

Promise == INSTANCE SearchPromise
             WITH outcome <- verdict,
                  retention <- [s \in Searches |-> Retention(s)]

\* executePlan, the worker, the evictor and the async endpoints together
\* implement SearchPromise.
ImplementsPromise == Promise!Spec

=============================================================================
