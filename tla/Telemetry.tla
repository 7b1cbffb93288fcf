------------------------------ MODULE Telemetry ------------------------------
(***************************************************************************)
(* What requests cost and who sends them, as the agent reports it            *)
(* (quesma/telemetry: duration.go, multi_counter.go, phone_home.go).         *)
(*                                                                         *)
(* A request adds to a counter of user agents as it arrives and ends a span  *)
(* when its call is over; both go through bounded channels to a goroutine    *)
(* each.  The agent's loop, and in the end whoever stops it, take and reset  *)
(* the sums.  Durations are whole and from a small set, and one measurement  *)
(* stands for six that do not differ.                                        *)
(***************************************************************************)
EXTENDS Integers, Sequences, FiniteSets, SequencesExt

CONSTANTS Callers,      \* requests
          AgentOf,      \* their user agents
          Durations,    \* of successful calls
          Thresholds,   \* overThresholds: 1, 5, 10, 30, 60
          PoolSize,     \* percentileSamplePoolSize: 10000
          Percentiles,  \* 5, 25, 50, 75, 95
          SampleCap, AgentCap, \* of the channels: 100 both
          TopAgents,    \* 10
          MaxReports    \* bound on the rounds of the loop

ASSUME TelemetryAssumption ==
  /\ {PoolSize, SampleCap, AgentCap, TopAgents} \subseteq Nat \ {0} /\ MaxReports \in Nat
  /\ Percentiles \subseteq 0..99
  /\ IsFiniteSet(Callers) /\ Durations \subseteq Nat /\ Thresholds \subseteq Nat

Reporters == {"loop", "stop"}

VARIABLES
  caller,     \* "arrives", "calls", and how it ended: "ok", "failed"
  samples, agents, \* the channels
  measured,   \* durationMeasurement: count, sum, failed, over, pool
  counters,   \* multiCounter: user agents with how often they came
  ctxDone,    \* agent.cancel()
  reporter,   \* where the loop and Stop are
  stats,      \* what each of them has collected
  rounds,
  window,     \* history: the durations since the last reset, and
  aggregated  \* what was taken of each window

telemetryVars == <<caller, samples, agents, measured, counters, ctxDone, reporter, stats,
                   rounds, window, aggregated>>

Failure == [elapsed |-> 0, ok |-> FALSE]
Empty == [count |-> 0, sum |-> 0, failed |-> 0, over |-> [t \in Thresholds |-> 0]]
NoCounters == [a \in {} |-> 0]
NoStats == [durations |-> Empty, percentiles |-> [p \in Percentiles |-> 0], agents |-> <<>>,
            elastic |-> "fail", clickhouse |-> "fail", sizes |-> "fail"]

TelemetryInit ==
  /\ caller = [c \in Callers |-> "arrives"]
  /\ samples = <<>> /\ agents = <<>>
  /\ measured = [count |-> 0, sum |-> 0, failed |-> 0, over |-> [t \in Thresholds |-> 0],
                 pool |-> [i \in 0..(PoolSize - 1) |-> 0]]
  /\ counters = NoCounters
  /\ ctxDone = FALSE
  /\ reporter = [r \in Reporters |-> IF r = "loop" THEN "wait" ELSE "idle"]
  /\ stats = [r \in Reporters |-> NoStats]
  /\ rounds = 0 /\ window = <<>> /\ aggregated = <<>>

-----------------------------------------------------------------------------
(* Requests                                                                *)

\* Add waits while the channel is full.
Arrives(c) ==
  /\ caller[c] = "arrives" /\ Len(agents) < AgentCap
  /\ agents' = Append(agents, AgentOf[c])
  /\ caller' = [caller EXCEPT ![c] = "calls"]
  /\ UNCHANGED <<samples, measured, counters, ctxDone, reporter, stats, rounds,
                 window, aggregated>>

\* So does the end of a span, before the answer is passed on; until there is
\* room the call counts as one that has not ended.
SpanEnds(c) ==
  /\ caller[c] = "calls" /\ Len(samples) < SampleCap
  /\ \E sample \in [elapsed : Durations, ok : {TRUE}] \cup {Failure} :
       /\ samples' = Append(samples, sample)
       /\ caller' = [caller EXCEPT ![c] = IF sample.ok THEN "ok" ELSE "failed"]
  /\ UNCHANGED <<agents, measured, counters, ctxDone, reporter, stats, rounds, window, aggregated>>

-----------------------------------------------------------------------------
(* The goroutines that drain the channels, until the context is done; then *)
(* a select may still take what is there, but soon takes the end.          *)

Ingested(m, sample) ==
  IF ~sample.ok THEN [m EXCEPT !.failed = @ + 1]
  ELSE [m EXCEPT !.count = @ + 1, !.sum = @ + sample.elapsed,
                 !.over = [t \in Thresholds |-> IF sample.elapsed > t THEN @[t] + 1 ELSE @[t]],
                 !.pool[m.count % PoolSize] = sample.elapsed]

IngestSample ==
  /\ samples # <<>> /\ ~ctxDone
  /\ samples' = Tail(samples)
  /\ measured' = Ingested(measured, Head(samples))
  /\ window' = IF Head(samples).ok THEN Append(window, Head(samples).elapsed) ELSE window
  /\ UNCHANGED <<caller, agents, counters, ctxDone, reporter, stats, rounds, aggregated>>

\* A key that is not there yet starts at zero.
Increment(a) ==
  counters' = [b \in DOMAIN counters \union {a} |->
                 (IF b \in DOMAIN counters THEN counters[b] ELSE 0) + (IF a = b THEN 1 ELSE 0)]

IngestAgent ==
  /\ agents # <<>> /\ ~ctxDone
  /\ agents' = Tail(agents)
  /\ Increment(Head(agents))
  /\ UNCHANGED <<caller, samples, measured, ctxDone, reporter, stats, rounds,
                 window, aggregated>>

-----------------------------------------------------------------------------
(* The reports                                                             *)

\* The numbers of a sequence in ascending order: the n-th has n - 1 before it.
UpTo(s, i) == {j \in DOMAIN s : s[j] < s[i] \/ (s[j] = s[i] /\ j <= i)}
Sorted(s)  == [n \in DOMAIN s |-> s[CHOOSE i \in DOMAIN s : Cardinality(UpTo(s, i)) = n]]

\* The part of the pool that is in use.
RealLen(m) == IF m.count < PoolSize THEN m.count ELSE PoolSize
Pool(m)    == [i \in 1..RealLen(m) |-> m.pool[i - 1]]

\* The place in the sorted pool is cut to a whole number.
ComputePercentiles(m) ==
  [p \in Percentiles |->
     IF m.count = 0 THEN 0 ELSE Sorted(Pool(m))[((p * RealLen(m)) \div 100) + 1]]

\* A mutant of Reset: the sum is left.
ResetAllButSum(m) == [m EXCEPT !.count = 0, !.failed = 0, !.over = [t \in Thresholds |-> 0]]

\* The pool is overwritten from its beginning.
Reset(m) == [m EXCEPT !.count = 0, !.sum = 0, !.failed = 0, !.over = [t \in Thresholds |-> 0]]

AggregateAndReset(r) ==
  /\ reporter[r] = "collect"
  /\ LET taken == [count |-> measured.count, sum |-> measured.sum, failed |-> measured.failed,
                   over |-> measured.over]
     IN  /\ stats' = [stats EXCEPT ![r] = [NoStats EXCEPT !.durations = taken,
                                             !.percentiles = ComputePercentiles(measured)]]
         /\ aggregated' = Append(aggregated, [durations |-> taken, window |-> window,
                                              percentiles |-> ComputePercentiles(measured)])
  /\ measured' = Reset(measured) /\ window' = <<>>
  /\ reporter' = [reporter EXCEPT ![r] = "agents"]
  /\ UNCHANGED <<caller, samples, agents, counters, ctxDone, rounds>>

\* The first of an ascending order.
TopOf(counts) ==
  {SubSeq(s, 1, IF Len(s) < TopAgents THEN Len(s) ELSE TopAgents) :
     s \in {t \in SetToSeqs(DOMAIN counts) :
              \A i, j \in DOMAIN t : i < j => counts[t[i]] <= counts[t[j]]}}

AggregateTopValuesAndReset(r) ==
  /\ reporter[r] = "agents"
  /\ \E top \in TopOf(counters) : stats' = [stats EXCEPT ![r].agents = top]
  /\ counters' = NoCounters
  /\ reporter' = [reporter EXCEPT ![r] = "backends"]
  /\ UNCHANGED <<caller, samples, agents, measured, ctxDone, rounds, window, aggregated>>

\* A call fails when its context is done; the loop's is the agent's.  Three
\* calls of Elasticsearch and two queries of ClickHouse: one that fails is enough.
CallsCanSucceed(r) == r = "stop" \/ ~ctxDone
CollectElastic(r) == IF CallsCanSucceed(r) THEN {"ok", "fail"} ELSE {"fail"}

\* The query of the parts, and then that of the version.
CollectClickHouseUsage(r)   == IF CallsCanSucceed(r) THEN {"ok", "fail"} ELSE {"fail"}
CollectClickHouseVersion(r) == IF CallsCanSucceed(r) THEN {"ok", "fail"} ELSE {"fail"}
CollectClickHouse(r) ==
  {IF usage = "ok" THEN version ELSE "fail" :
     usage \in CollectClickHouseUsage(r), version \in CollectClickHouseVersion(r)}

\* The sizes of tables are always asked with the context of the agent; the
\* largest of them are told, as far as they were read.
CollectTableSizes == IF ctxDone THEN {"fail"} ELSE {"ok", "fail"}

\* Of ClickHouse nothing is asked unless it was called.  All that can be reached
\* answers, or nothing does.
CollectBackends(r) ==
  /\ reporter[r] = "backends"
  /\ \E reached \in {"ok", "fail"} :
       LET Status(possible) == IF reached \in possible THEN reached ELSE "fail"
       IN  stats' = [stats EXCEPT
             ![r].elastic = Status(CollectElastic(r)),
             ![r].clickhouse = IF stats[r].durations.count > 0 THEN Status(CollectClickHouse(r))
                                                               ELSE "paused",
             ![r].sizes = Status(CollectTableSizes)]
  /\ reporter' = [reporter EXCEPT ![r] = "report"]
  /\ UNCHANGED <<caller, samples, agents, measured, counters, ctxDone, rounds,
                 window, aggregated>>

\* Whether the endpoint is set or not, takes them, refuses or cannot be called:
\* what was collected is not sent again, and nothing is sent to Quesma itself.
Report(r) ==
  /\ reporter[r] = "report"
  /\ stats' = [stats EXCEPT ![r] = NoStats]
  /\ reporter' = [reporter EXCEPT ![r] = IF r = "stop" THEN "over" ELSE "wait"]
  /\ UNCHANGED <<caller, samples, agents, measured, counters, ctxDone, rounds,
                 window, aggregated>>

\* After the warm-up and after every interval.
Cycle ==
  /\ reporter["loop"] = "wait"
  /\ IF ctxDone THEN reporter' = [reporter EXCEPT !["loop"] = "over"] /\ rounds' = rounds
     ELSE rounds < MaxReports /\ rounds' = rounds + 1
            /\ reporter' = [reporter EXCEPT !["loop"] = "collect"]
  /\ UNCHANGED <<caller, samples, agents, measured, counters, ctxDone, stats,
                 window, aggregated>>

\* The context is done before the last report is collected.
StopAgent ==
  /\ reporter["stop"] = "idle"
  /\ ctxDone' = TRUE
  /\ reporter' = [reporter EXCEPT !["stop"] = "collect"]
  /\ UNCHANGED <<caller, samples, agents, measured, counters, stats, rounds,
                 window, aggregated>>

TelemetryNext ==
  \/ \E c \in Callers : Arrives(c) \/ SpanEnds(c)
  \/ IngestSample \/ IngestAgent
  \/ \E r \in Reporters : AggregateAndReset(r) \/ AggregateTopValuesAndReset(r)
                            \/ CollectBackends(r) \/ Report(r)
  \/ Cycle \/ StopAgent

TelemetrySpec == TelemetryInit /\ [][TelemetryNext]_telemetryVars

-----------------------------------------------------------------------------
Total(numbers) ==
  LET sum[n \in 0..Len(numbers)] == IF n = 0 THEN 0 ELSE sum[n - 1] + numbers[n]
  IN  sum[Len(numbers)]

\* The calls that have ended, by how they did, and where they are.
Ended(ok)      == Cardinality({c \in Callers : caller[c] = IF ok THEN "ok" ELSE "failed"})
Waiting(ok)    == Cardinality({i \in DOMAIN samples : samples[i].ok = ok})
Reported(name) == Total([i \in DOMAIN aggregated |-> aggregated[i].durations[name]])

\* What was taken of a window is true of it, its percentiles being those of its
\* last samples.
IsTrueOf(a, durations) ==
  LET n    == Len(durations)
      last == IF n < PoolSize THEN durations ELSE SubSeq(durations, n - PoolSize + 1, n)
  IN  /\ a.durations.count = n
      /\ a.durations.sum = Total(durations)
      /\ \A t \in Thresholds :
           a.durations.over[t] = Cardinality({j \in DOMAIN durations : durations[j] > t})
      /\ \A p \in Percentiles : n > 0 =>
           LET v == a.percentiles[p]
           IN  /\ 100 * Cardinality({j \in DOMAIN last : last[j] < v}) <= p * Len(last)
               /\ p * Len(last) < 100 * Cardinality({j \in DOMAIN last : last[j] <= v})

\* Every call that has ended is in exactly one place: with a caller that waits
\* for the channel, in the channel, in the measurement or in one report; and
\* what a report says of a window is true of it (duration.go ingestSample,
\* AggregateAndReset, computePercentiles, phone_home.go collect, Stop): the loop
\* and Stop may collect at the same time, and the pool is never cleared.
ReportsAreExact ==
  /\ Ended(TRUE) = Waiting(TRUE) + measured.count + Reported("count")
  /\ Ended(FALSE) = Waiting(FALSE) + measured.failed + Reported("failed")
  /\ \A i \in DOMAIN aggregated : IsTrueOf(aggregated[i], aggregated[i].window)

\* Nobody drains a channel after the agent was stopped, which is before the
\* server is: then a request may wait for ever.
Abandoned == ctxDone /\ (Len(samples) = SampleCap \/ Len(agents) = AgentCap)

RequestsPass == (\A c \in Callers : caller[c] \in {"ok", "failed"}) \/ Abandoned
=============================================================================
