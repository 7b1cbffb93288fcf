------------------------------- MODULE ABTesting -------------------------------
(***************************************************************************)
(* Two execution plans for one search: quesma/frontend_connectors/         *)
(* search_ab_testing.go, with executePlan and HandlePartialAsyncSearch of  *)
(* search.go.                                                              *)
(*                                                                         *)
(* The main plan runs in the handler, the alternative one in the           *)
(* background, one of them on ClickHouse and the other on Elasticsearch;   *)
(* a collector waits for what both report and compares it.  Both were      *)
(* given the async search's id, under which results are stored.  The       *)
(* storage is one cell here, its id's; AsyncSearch models the rest.        *)
(***************************************************************************)
EXTENDS Naturals, Sequences

Plans    == {"main", "alternative"}
Nothing  == [by |-> "nobody", is |-> "nothing"]

VARIABLES
  search,     \* [clickhouse |-> its plan, async, keep |-> keepOnCompletion]
  plan,       \* plan -> "executing", "late" (its executor has left) or "done"
  asks,       \* plans whose executor is in HandlePartialAsyncSearch
  call,       \* plan -> "running", or how its database call ended
  answer,     \* what the handler has for its client
  request,    \* "open", "gone" (the client) or "answered"; else its context is done
  cancelled,  \* whether the background context is
  reports,    \* optComparePlansCh
  collector,  \* [pc, main, alternative]
  store,      \* AsyncRequestStorage under the search's id
  polled      \* what the client got when it asked for its id

planVars == <<search, plan, asks, call, answer, request, cancelled, reports,
              collector, store, polled>>

OnElastic(p) == search.clickhouse # p
Result(p)    == [by |-> p, is |-> call[p]]
Partial      == [by |-> "nobody", is |-> "partial"]

\* executeABTesting: the collector and both plans are started.
PlansInit ==
  /\ search \in [clickhouse : Plans, async : BOOLEAN, keep : BOOLEAN]
  /\ search.keep => search.async
  /\ plan = [p \in Plans |-> "executing"] /\ asks = {}
  /\ call = [p \in Plans |-> "running"]
  /\ answer = Nothing /\ request = "open" /\ cancelled = FALSE
  /\ reports = <<>> /\ store = Nothing /\ polled = Nothing
  /\ collector = [pc |-> "waiting", main |-> "nothing", alternative |-> "nothing"]

-----------------------------------------------------------------------------
(* The database calls.                                                     *)

\* The context a plan was given.
ContextDone(p) == IF p = "main" THEN request # "open" ELSE cancelled

\* callElastic and a search on ClickHouse use it; an async one on ClickHouse has
\* its own (searchWorker), which the evictor cancels after its timeout.
CallEnds(p) ==
  /\ call[p] = "running"
  /\ \E end \in {"ok", "failed"} : call' = [call EXCEPT ![p] = end]
  /\ UNCHANGED <<search, plan, asks, answer, request, cancelled, reports,
                 collector, store, polled>>

CallCancelled(p) ==
  /\ call[p] = "running"
  /\ ContextDone(p) \/ (search.async /\ ~OnElastic(p))
  /\ call' = [call EXCEPT ![p] = "cancelled"]
  /\ UNCHANGED <<search, plan, asks, answer, request, cancelled, reports,
                 collector, store, polled>>

-----------------------------------------------------------------------------
(* executePlan and executePlanElastic.                                     *)

Answers(p, a) == answer' = IF p = "main" THEN a ELSE answer

\* sendMainPlanResult, sendABResult: the channel holds two reports.
Finishes(p, is) ==
  /\ call[p] # "running"
  /\ plan' = [plan EXCEPT ![p] = "done"]
  /\ Len(reports) < 2 /\ reports' = Append(reports, [of |-> p, is |-> is])
  /\ UNCHANGED <<search, asks, call, request, cancelled, collector, polled>>

TakeSync(p) ==
  /\ plan[p] = "executing" /\ ~search.async
  /\ Finishes(p, call[p]) /\ Answers(p, Result(p)) /\ UNCHANGED store

\* In time: the raw answer of Elasticsearch is kept in any case.
TakeAsync(p) ==
  /\ plan[p] = "executing" /\ search.async
  /\ Finishes(p, call[p]) /\ Answers(p, Result(p))
  /\ store' = IF OnElastic(p) \/ search.keep THEN Result(p) ELSE store

\* After the timer: storeAsyncSearch and storeAsyncSearchWithRaw, both keep it.
\* The executor and this goroutine share the variables of the result: what one
\* has assigned the other may return or report.
TakeLate(p) ==
  /\ plan[p] = "late"
  /\ \E is \in {call[p]} \union (IF p \in asks THEN {"partial"} ELSE {}) : Finishes(p, is)
  /\ store' = Result(p) /\ UNCHANGED answer

TimerFires(p) ==
  /\ plan[p] = "executing" /\ search.async
  /\ plan' = [plan EXCEPT ![p] = "late"]
  /\ asks' = asks \union {p}
  /\ UNCHANGED <<search, call, answer, request, cancelled, reports, collector, store, polled>>

\* HandlePartialAsyncSearch: a stored result is deleted.  The alternative plan
\* asks as well, and ignores what it gets.
AnswerPartial(p) ==
  /\ p \in asks
  /\ asks' = asks \ {p}
  /\ \/ Answers(p, IF store = Nothing THEN Partial ELSE store)
     \/ plan[p] = "late" /\ call[p] # "running" /\ Answers(p, Result(p))
  /\ store' = Nothing
  /\ UNCHANGED <<search, plan, call, request, cancelled, reports, collector, polled>>

\* executePlanElastic alone watches the context, and then reports nothing.
GiveUp(p) ==
  /\ plan[p] = "executing" /\ search.async /\ OnElastic(p) /\ ContextDone(p)
  /\ plan' = [plan EXCEPT ![p] = "done"]
  /\ Answers(p, [by |-> p, is |-> "cancelled"])
  /\ UNCHANGED <<search, asks, call, request, cancelled, reports, collector, store, polled>>

-----------------------------------------------------------------------------
(* The client.                                                             *)

\* The handler returns, and with it the context of the request ends.
Respond ==
  /\ request = "open" /\ answer # Nothing
  /\ request' = "answered"
  /\ UNCHANGED <<search, plan, asks, call, answer, cancelled, reports, collector, store, polled>>

Disconnect ==
  /\ request = "open"
  /\ request' = "gone"
  /\ UNCHANGED <<search, plan, asks, call, answer, cancelled, reports, collector, store, polled>>

\* HandlePartialAsyncSearch, when the answer was a partial one.
Poll ==
  /\ request = "answered" /\ answer = Partial /\ store # Nothing
  /\ polled' = store /\ store' = Nothing
  /\ UNCHANGED <<search, plan, asks, call, answer, request, cancelled, reports, collector>>

-----------------------------------------------------------------------------
(* The collector: runABTestingResultsCollector.                            *)

\* Mutant: the loop goes on only while both are missing.
ComparedOne == collector.main # "nothing" \/ collector.alternative # "nothing"

Compared == collector.main # "nothing" /\ collector.alternative # "nothing"

CollectReport ==
  /\ collector.pc = "waiting" /\ ~Compared /\ reports # <<>>
  /\ collector' = [collector EXCEPT ![Head(reports).of] = Head(reports).is]
  /\ reports' = Tail(reports)
  /\ UNCHANGED <<search, plan, asks, call, answer, request, cancelled, store, polled>>

\* ABResultsSender.Send (ABResults).
SendCompared ==
  /\ collector.pc = "waiting" /\ Compared
  /\ collector' = [collector EXCEPT !.pc = "sent"]
  /\ UNCHANGED <<search, plan, asks, call, answer, request, cancelled, reports, store, polled>>

\* Mutant: the timeout does not cancel the alternative plan.
TimeoutOnly ==
  /\ collector.pc = "waiting" /\ ~Compared
  /\ collector' = [collector EXCEPT !.pc = "timed out"]
  /\ UNCHANGED <<search, plan, asks, call, answer, request, cancelled, reports, store, polled>>

\* A minute without a report.
Timeout ==
  /\ collector.pc = "waiting" /\ ~Compared
  /\ collector' = [collector EXCEPT !.pc = "timed out"]
  /\ cancelled' = TRUE
  /\ UNCHANGED <<search, plan, asks, call, answer, request, reports, store, polled>>

-----------------------------------------------------------------------------
PlanStep(p) ==
  \/ TakeSync(p) \/ TakeAsync(p) \/ TakeLate(p) \/ TimerFires(p)
  \/ AnswerPartial(p) \/ GiveUp(p)

CollectorStep == CollectReport \/ SendCompared \/ Timeout

PlansNext ==
  \/ \E p \in Plans : CallEnds(p) \/ CallCancelled(p) \/ PlanStep(p)
  \/ Respond \/ Disconnect \/ Poll \/ CollectorStep

\* Timers fire and goroutines run; the databases need not answer.  Each of
\* these steps is taken a bounded number of times.
PlansProgress ==
  \/ \E p \in Plans : CallCancelled(p) \/ PlanStep(p)
  \/ Respond \/ CollectorStep

PlansFairness == WF_planVars(PlansProgress)

PlansSpec == PlansInit /\ [][PlansNext]_planVars /\ PlansFairness

-----------------------------------------------------------------------------
(* Properties.                                                             *)

\* What is compared are the ends of the two plans, each in its place (or the
\* partial answer, see TakeLate): each reports once at most, whichever way it
\* ended, and never waits to do so.
ComparesBoth ==
  /\ collector.pc = "sent" => \A p \in Plans :
       /\ plan[p] = "done"
       /\ collector[p] = call[p] \/ (search.async /\ collector[p] = "partial")
  /\ Len(reports) + (IF collector.main = "nothing" THEN 0 ELSE 1)
       + (IF collector.alternative = "nothing" THEN 0 ELSE 1) <= 2

\* In the end the collector ends and no alternative plan outlives it, even when no
\* database ever answers; and a client of an async search is answered whatever
\* the alternative plan does.
PlansEnded ==
  /\ collector.pc # "waiting" /\ plan["alternative"] = "done"
  /\ search.async => answer # Nothing /\ plan["main"] = "done"

\* The result of the alternative plan is ignored: what a client gets for the
\* id of its search is the main plan's.
AlternativeIsIgnored == polled.by # "alternative"
=============================================================================
