----------------------------- MODULE MCBackground -----------------------------
(***************************************************************************)
(* What runs beside the requests, or on behalf of one, for TLC: two plans  *)
(* of a search, the results of comparing them, the forwarding of logs, the *)
(* management console, the reports of usage, a bulk, and what is found of  *)
(* two responses.  They share no state that matters here: a behaviour is   *)
(* one of one of them, while the others rest.                              *)
(***************************************************************************)
EXTENDS ABResults, ABTesting, LogForwarding, BulkWrite, ManagementConsole,
        Telemetry, ResponseDiff, TLC

VARIABLE focus

-----------------------------------------------------------------------------
(* The pairs of responses ResponseDiff is checked with.                    *)

Num(n)    == [is |-> "number", n |-> n]
Word(w)   == [is |-> "text", word |-> w]
Yes == [is |-> "truth", v |-> TRUE]
No == [is |-> "truth", v |-> FALSE]
L(es)     == [is |-> "list", elems |-> es]
O(fs)     == [is |-> "object", fields |-> fs]

\* What a field may be in either response.
FieldValues ==
  {Null, Yes, No, Num(0), Num(10000), Num(10010), Num(10011), Num(10000000),
   Num(10010000), Num(-10000),
   Word("w"), Word("v"), Word("noon"), Word("noonZ"), Word("noonAt2"), Word("later"),
   Word("unreadable"),
   L(<<>>), L(<<Num(10000)>>), L(<<Num(10000), Num(0)>>), L(<<Num(0), Num(10000)>>),
   L(<<Num(0), Num(0), Null>>),
   L(<<O("k" :> Null)>>), L(<<O("k" :> Yes)>>),
   O(<<>>), O("k" :> Num(0)), O("j" :> Num(0)), O(("k" :> Num(10000)) @@ ("j" :> Null)),
   O("k" :> O("j" :> Num(0)))}

B(key, n) == O(("key" :> key) @@ ("doc_count" :> Num(n)))
Six(sixth) == L([i \in 1 .. 6 |-> IF i = 6 THEN sixth ELSE B(Num(10000 * i), 0)])
\* Buckets with keys in common or not, in another order, too many to see at once.
BucketLists ==
  {L(<<B(Word("v"), 0), B(Word("w"), 0)>>), L(<<B(Word("w"), 0), B(Word("v"), 0)>>),
   L(<<B(Word("v"), 0), B(Word("u"), 0)>>), L(<<B(Word("t"), 0), B(Word("u"), 0)>>),
   L(<<B(Word("v"), 0), B(Word("w"), 10000)>>), L(<<B(Word("1"), 0), B(Word("w"), 0)>>),
   L(<<B(Num(10000), 0), B(Word("w"), 0)>>), L(<<B(Word("w"), 0), B(Word("w"), 0)>>),
   L(<<Num(0), Num(10000)>>), L(<<B(Word("v"), 0)>>),
   Six(B(Num(60000), 0)), Six(B(Num(70000), 0)), Six(B(Num(10000), 0)), Six(B(Num(60000), 10000))}

\* Names that count, or not, depending on where they are.
OddNames ==
  {"Quesma_key_1", "__quesma_total_count", "id", "took", "_shards", "_id", "_score", "_source",
   "__quesma_originalKey", "_version", "keyword", "lat", "OriginLocation"}

Fine(body) == [error |-> FALSE, body |-> body]
Pair(a, b) == [a |-> a, b |-> b, opaque |-> "none"]
BadResponse == [error |-> FALSE, body |-> Word("not JSON")]
FailedResponse == [error |-> TRUE, body |-> O(<<>>)]
SomeResponses ==
  {Fine(O("k" :> Num(0))), Fine(O("response" :> O("k" :> Num(0)))),
   Fine(O("response" :> Num(0))), BadResponse, FailedResponse}

MCReports ==
  {Pair(Fine(O("k" :> x)), Fine(O("k" :> y))) : x, y \in FieldValues}
  \union {Pair(Fine(O("buckets" :> x)), Fine(O("buckets" :> y))) : x, y \in BucketLists}
  \union {Pair(Fine(O(n :> Num(0))), Fine(O(n :> Num(10000)))) : n \in OddNames}
  \union {Pair(Fine(O("k" :> O(n :> Num(0)))), Fine(O("k" :> O(n :> Num(10000))))) : n \in OddNames}
  \union [a : SomeResponses, b : SomeResponses, opaque : {"none", "dashboard", "panel"}]

\* The values so many steps below the responses, and those that deep at least.
Below(values) == UNION {{Child(v, s) : s \in Steps(v)} : v \in values}
Responses == UNION {{r.a.body, r.b.body} : r \in MCReports}
ValuesRead ==
  LET below[n \in 0 .. 3] == IF n = 0 THEN Responses ELSE Below(below[n - 1])
  IN  [n \in 0 .. 3 |-> UNION {below[k] : k \in 3 - n .. 3}]

SixPlaces == <<"[0]", "[1]", "[2]", "[3]", "[4]", "[5]">>

-----------------------------------------------------------------------------

TwoAgents == [c \in Callers |-> IF c = "c1" THEN "curl" ELSE "kibana"]

Backends ==
  ("es" :> {"elastic"}) @@ ("ch" :> {"clickhouse"}) @@ ("both" :> {"elastic", "clickhouse"})
  @@ ("closed" :> {}) @@ ("broken" :> {"elastic"})

\* Two requests push both answers, the second answer of a third is still to come;
\* and there are two lines of the log.
AllPushes ==
  [kind : {"primary"}, id : Ids] \union [kind : {"secondary"}, id : Ids \ {"i3"}]
    \union [kind : {"log"}, id : {"i1", NoId}]

backgroundVars == <<focus, resultsVars, planVars, forwardVars, bulkVars, consoleVars,
                    telemetryVars, diffVars>>

BackgroundInit ==
  /\ focus \in {"results", "plans", "logs", "bulk", "console", "usage", "comparison"}
  /\ ResultsInit /\ TelemetryInit /\ ForwardingInit /\ ConsoleInit
  /\ PlansInit /\ (focus # "plans" => search.clickhouse = "main" /\ ~search.async)
  /\ BulkInit
  /\ focus # "bulk" => /\ bulk = <<[operation |-> "index", index |-> "ch"]>>
                       /\ defaultIndex = "ch" /\ ingests
  /\ IF focus = "comparison" THEN DiffInit
     ELSE report = NoLine /\ line = NoLine /\ surplus = NoLine

\* What a step of one of them leaves alone.
ResultsStep == focus = "results" /\ UNCHANGED <<focus, planVars, forwardVars, bulkVars, consoleVars, telemetryVars, diffVars>>
PlansStep == focus = "plans" /\ UNCHANGED <<focus, resultsVars, forwardVars, bulkVars, consoleVars, telemetryVars, diffVars>>
LogsStep == focus = "logs" /\ UNCHANGED <<focus, resultsVars, planVars, bulkVars, consoleVars, telemetryVars, diffVars>>
BulkStep == focus = "bulk" /\ UNCHANGED <<focus, resultsVars, planVars, forwardVars, consoleVars, telemetryVars, diffVars>>
ConsoleStep == focus = "console" /\ UNCHANGED <<focus, resultsVars, planVars, forwardVars, bulkVars, telemetryVars, diffVars>>
UsageStep == focus = "usage" /\ UNCHANGED <<focus, resultsVars, planVars, forwardVars, bulkVars, consoleVars, diffVars>>

ComparisonStep == focus = "comparison"
  /\ UNCHANGED <<focus, resultsVars, planVars, forwardVars, bulkVars, consoleVars, telemetryVars>>

BackgroundNext ==
  \/ ResultsStep /\ ResultsNext
  \/ PlansStep   /\ PlansNext
  \/ LogsStep    /\ ForwardingNext
  \/ BulkStep    /\ BulkNext
  \/ ConsoleStep /\ ConsoleNext
  \/ UsageStep   /\ TelemetryNext
  \/ ComparisonStep /\ DiffNext

\* The fairness of each module.  All that happens is bounded, so that behaviours
\* end, and one of them is fair when none of these steps is left.
BackgroundFairness ==
  WF_backgroundVars(
    \/ ResultsStep /\ ResultsNext
    \/ PlansStep   /\ PlansProgress
    \/ LogsStep    /\ ForwardingProgress
    \/ BulkStep    /\ BulkNext
    \/ ConsoleStep /\ ConsoleNext
    \/ UsageStep   /\ TelemetryNext
    \/ ComparisonStep /\ DiffNext)

BackgroundSpec == BackgroundInit /\ [][BackgroundNext]_backgroundVars /\ BackgroundFairness

-----------------------------------------------------------------------------
\* Everybody goes on, whatever fails and however bounded channels fill up:
\* results are taken, plans end, logs are written, the console is passed and a
\* bulk is answered - but for the circles of waiting goroutines the modules name.
EverybodyGoesOn ==
  <>( \/ focus = "results" /\ ResultsTaken
      \/ focus = "plans"   /\ PlansEnded
      \/ focus = "logs"    /\ LogsWritten
      \/ focus = "console" /\ ConsolePassed
      \/ focus = "usage"   /\ RequestsPass
      \/ focus = "comparison" /\ line # NoLine
      \/ focus = "bulk"    /\ pc \in {"answered", "failed"} )
=============================================================================
