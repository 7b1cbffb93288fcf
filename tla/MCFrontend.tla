---------------------------- MODULE MCFrontend ----------------------------
(***************************************************************************)
(* The front end for TLC: the execution of query jobs, the gate before the *)
(* handlers, the way of a request to its backends, the aggregations of a   *)
(* search and the plan of one for hits.                                    *)
(* They share no state, so that interleaving them would show nothing: a    *)
(* behaviour observes one of them, and the others rest.  For the same      *)
(* reason a search whose only job is not counted is observed alone.        *)
(***************************************************************************)
EXTENDS QueryJobs, FrontendGate, Routing, TLC

CONSTANTS s1, s2, s3, r1, r2, r3, alice,
          Null, Menu, Alphabet, Numerals

VARIABLES focus,
          asked, docs, stage, pancakes, rows, read, answer, total,
          search, stored, step, plan, found, readBy, pages, hitsTotal

Values == INSTANCE MCPancake
Aggs == INSTANCE Pancake WITH Tables <- Values!SomeTables,
                              NewDocs <- Values!ThoseThatArrive, MaxDocs <- 4

Bodies == INSTANCE MCSearchPlan
Hits == INSTANCE SearchPlan WITH Searches <- Bodies!SomeSearches, MaxPages <- 3,
                                 DefaultTrackTotalHits <- 10000, MaxSize <- 10000,
                                 results <- found, read <- readBy, total <- hitsTotal

aggsVars == <<asked, docs, stage, pancakes, rows, read, answer, total>>
planVars == <<search, stored, step, plan, found, readBy, pages, hitsTotal>>

Net == INSTANCE MCRouting

\* The files and what is asked under them.
FilesRead == Net!SomeFiles
RequestsSent == Net!RequestsOf
NamesAndPatterns == Net!SomePatterns

\* The requests the runs ask.
Answerable == Values!Answerable
BareFilters == Values!BareFilters

\* The words of documents and queries, in their order.
SomeWords == <<"alpha", "beta", "logs", "mail", "one", "paris", "red", "rome", "stop", "true", "two">>
SomeNumbers == "5" :> 5 @@ "7" :> 7 @@ "9" :> 9

\* An internal query between two database queries, and a search that fits
\* only when the first one is gone.
MCPlan == (s1 :> <<"database", "kibana", "database">>)
            @@ (s2 :> <<"database", "database">>)
            @@ (s3 :> <<"database">>)

\* A client without a header among two of the same user.
OneAnonymous == (r1 :> alice) @@ (r2 :> alice) @@ (r3 :> NoHeader)

FrontendInit ==
  /\ focus \in {"jobs", "single", "gate", "routing", "answer", "plan"}
  /\ Init /\ GateInit
  /\ focus # "gate" => valid = {}
  /\ IF focus = "routing" THEN RoutingInit
     ELSE /\ at = "none" /\ file = Null /\ settings = Null /\ request = Null
          /\ handler = Null /\ decision = Null /\ response = Null
  /\ IF focus = "answer" THEN Aggs!AnswerInit
     ELSE /\ asked = Null /\ docs = <<>> /\ stage = "none" /\ pancakes = <<>>
          /\ rows = <<>> /\ read = <<>> /\ answer = Null /\ total = Null
  /\ IF focus = "plan" THEN Hits!PlanInit
     ELSE /\ search = Null /\ stored = {} /\ step = "none" /\ plan = <<>>
          /\ found = <<>> /\ readBy = <<>> /\ pages = <<>> /\ hitsTotal = Null

Observed == CASE focus = "jobs"   -> {s1, s2}
              [] focus = "single" -> {s3}
              [] OTHER            -> {}

JobsDo(A) ==
  /\ focus \in {"jobs", "single"} /\ A
  /\ \A s \in Searches \ Observed : phase'[s] = phase[s]
  /\ UNCHANGED <<focus, gateVars, routingVars, aggsVars, planVars>>

GateDoes(A) ==
  focus = "gate" /\ A /\ UNCHANGED <<focus, vars, routingVars, aggsVars, planVars>>

RoutingDoes(A) ==
  focus = "routing" /\ A /\ UNCHANGED <<focus, vars, gateVars, aggsVars, planVars>>

AggsDo(A) ==
  focus = "answer" /\ A /\ UNCHANGED <<focus, vars, gateVars, routingVars, planVars>>

PlanDoes(A) ==
  focus = "plan" /\ A /\ UNCHANGED <<focus, vars, gateVars, routingVars, aggsVars>>

FrontendNext == JobsDo(Next) \/ GateDoes(GateNext) \/ RoutingDoes(RoutingNext)
                  \/ AggsDo(Aggs!AnswerNext) \/ PlanDoes(Hits!PlanNext)

frontendVars == <<focus, vars, gateVars, routingVars, aggsVars, planVars>>

\* The fairness of both (QueryJobs!Fairness, GateFairness).
FrontendSpec ==
  /\ FrontendInit /\ [][FrontendNext]_frontendVars
  /\ \A s \in Searches :
       /\ WF_frontendVars(JobsDo(Search(s)))
       /\ \A j \in JobIds(s) : WF_frontendVars(JobsDo(JobEnds(s, j)))
  /\ \A r \in Requests : WF_frontendVars(GateDoes(Serve(r)))
  /\ WF_frontendVars(GateDoes(Wipe))

-----------------------------------------------------------------------------
\* FrontendGate: every request is answered.
EveryRequestAnswered == focus = "gate" => EveryRequestEnds

\* QueryJobs: every search gets out of runQueryJobs, however its jobs end, and
\* leaves none of them behind.
EveryRunReturns == <>(\A s \in Observed : Finished(s)) /\ EveryJobEnds

\* Pancake: the answer is the reference's, and the hits are counted.
AnswerIsReference ==
  focus = "answer" => Aggs!AnswerIsReference /\ Aggs!TotalCountsEveryDocument

\* SearchPlan: the hits are the first of the documents that match, with their
\* fields, and the total counts those that do.
RowsAreThoseAsked == focus = "plan" => Hits!RowsAreThoseAsked

\* SearchPlan: the pages of a search neither overlap nor skip a document.
PagesFollowOn == focus = "plan" => Hits!PagesFollowOn

\* Pancake: filters count the documents that match them.
FiltersApply == focus = "answer" => Aggs!FiltersApply
=============================================================================
