----------------------------- MODULE QueryJobs -----------------------------
(***************************************************************************)
(* How the query runner executes the queries of an execution plan:         *)
(* searchWorkerCommon, runQueryJobs, runQueryJobsSequence and              *)
(* runQueryJobsParallel of quesma/frontend_connectors/search.go.           *)
(*                                                                         *)
(* All searches share the counter currentParallelQueryJobs.  A search      *)
(* whose jobs would exceed the maximum runs them one after the other, any  *)
(* other starts one goroutine per job and collects their results from a    *)
(* channel, giving up at the first error.                                  *)
(*                                                                         *)
(* A query is "database" or "kibana" (an internal Kibana query, answered   *)
(* with no rows and never executed).  Jobs are numbered from 1, and the    *)
(* rows of a job are represented by its number; 0 stands for no rows.      *)
(***************************************************************************)
EXTENDS Integers, Sequences, FiniteSets

CONSTANTS Searches,           \* concurrent calls of searchWorkerCommon
          Plan,               \* the queries of each search's execution plan
          MaxParallelQueries  \* maxParallelQueries; 0 switches parallel jobs off

ASSUME QueryJobsAssumption ==
  /\ IsFiniteSet(Searches)
  /\ Plan \in [Searches -> Seq({"database", "kibana"})]
  /\ MaxParallelQueries \in Nat

VARIABLES
  currentParallelQueryJobs, \* atomic counter, shared by all searches
  phase,      \* control of each search
  current,    \* what Add(numberOfJobs) returned to each search
  job,        \* each job: "none", "running" or how it ended
  collector,  \* the channel the jobs of a search report to
  collected,  \* how many results the search took out of it
  results,    \* rows by job
  failed,     \* jobs whose PerformanceResult carries an error
  runError,   \* what the run returns
  hits,       \* rows by query of the plan
  blamed,     \* queries reported with an error in the translated query bodies
  cancelled,  \* searches whose run called its own cancel function
  abandoned   \* searches whose parent context was cancelled

vars == <<currentParallelQueryJobs, phase, current, job, collector, collected,
          results, failed, runError, hits, blamed, cancelled, abandoned>>

Positions(s) == 1..Len(Plan[s])

DatabaseQueries(s) == {i \in Positions(s) : Plan[s][i] = "database"}

NumberOfJobs(s) == Cardinality(DatabaseQueries(s))

JobIds(s) == 1..NumberOfJobs(s)

\* The inverse of jobHitsPosition: jobs are made in the order of the queries,
\* so a query's job is numbered by the database queries up to it.
JobOf(s, i) == Cardinality({k \in DatabaseQueries(s) : k <= i})

Failures == {"database", "cancelled", "panic"}

\* make(chan result, len(jobs))
CollectorCapacity(s) == NumberOfJobs(s)

-----------------------------------------------------------------------------
Init ==
  /\ currentParallelQueryJobs = 0
  /\ phase     = [s \in Searches |-> "idle"]
  /\ current   = [s \in Searches |-> 0]
  /\ job       = [s \in Searches |-> [j \in JobIds(s) |-> "none"]]
  /\ collector = [s \in Searches |-> <<>>]
  /\ collected = [s \in Searches |-> 0]
  /\ results   = [s \in Searches |-> [j \in JobIds(s) |-> 0]]
  /\ failed    = [s \in Searches |-> {}]
  /\ runError  = [s \in Searches |-> "none"]
  /\ hits      = [s \in Searches |-> [i \in Positions(s) |-> 0]]
  /\ blamed    = [s \in Searches |-> {}]
  /\ cancelled = {} /\ abandoned = {}

-----------------------------------------------------------------------------
(* The decision: in parallel or in sequence.                               *)

AddJobs(n) == currentParallelQueryJobs' = currentParallelQueryJobs + n

Go(s, to) == phase' = [phase EXCEPT ![s] = to]

\* One job is not counted, and neither is anything without parallel jobs.
RunWithoutCounting(s) ==
  /\ phase[s] = "idle"
  /\ NumberOfJobs(s) = 1 \/ MaxParallelQueries = 0
  /\ Go(s, IF NumberOfJobs(s) = 0 THEN "returned" ELSE "sequence")
  /\ UNCHANGED <<currentParallelQueryJobs, current, job, collector, collected,
                 results, failed, runError, hits, blamed, cancelled, abandoned>>

\* Mutant of CountJobs: the limit is compared with the counter read before.
CountJobsAfterLoad(s) ==
  /\ phase[s] = "idle"
  /\ NumberOfJobs(s) # 1 /\ MaxParallelQueries > 0
  /\ AddJobs(NumberOfJobs(s))
  /\ current' = [current EXCEPT ![s] = currentParallelQueryJobs]
  /\ Go(s, "counted")
  /\ UNCHANGED <<job, collector, collected, results, failed, runError, hits,
                 blamed, cancelled, abandoned>>

CountJobs(s) ==
  /\ phase[s] = "idle"
  /\ NumberOfJobs(s) # 1 /\ MaxParallelQueries > 0
  /\ AddJobs(NumberOfJobs(s))
  /\ current' = [current EXCEPT ![s] = currentParallelQueryJobs']
  /\ Go(s, "counted")
  /\ UNCHANGED <<job, collector, collected, results, failed, runError, hits,
                 blamed, cancelled, abandoned>>

BackOut(s) ==
  /\ phase[s] = "counted"
  /\ current[s] > MaxParallelQueries
  /\ AddJobs(-NumberOfJobs(s))
  /\ Go(s, IF NumberOfJobs(s) = 0 THEN "returned" ELSE "sequence")
  /\ UNCHANGED <<current, job, collector, collected, results, failed, runError,
                 hits, blamed, cancelled, abandoned>>

LaunchJobs(s) ==
  /\ phase[s] = "counted"
  /\ current[s] <= MaxParallelQueries
  /\ job' = [job EXCEPT ![s] = [j \in JobIds(s) |-> "running"]]
  /\ Go(s, "parallel")
  /\ UNCHANGED <<currentParallelQueryJobs, current, collector, collected,
                 results, failed, runError, hits, blamed, cancelled, abandoned>>

-----------------------------------------------------------------------------
(* Jobs in parallel.                                                       *)

\* A job whose context is cancelled may fail for that reason alone.
JobOutcomes(s) == {"rows", "database", "panic"}
                    \union (IF s \in cancelled \union abandoned THEN {"cancelled"} ELSE {})

\* Mutant of JobEnds: a panicking job reports nothing.
JobEndsSilently(s, j) ==
  /\ phase[s] \notin {"sequence"} /\ job[s][j] = "running"
  /\ Len(collector[s]) < CollectorCapacity(s)
  /\ \E outcome \in JobOutcomes(s) :
       /\ job' = [job EXCEPT ![s][j] = outcome]
       /\ collector' = IF outcome = "panic" THEN collector
                       ELSE [collector EXCEPT ![s] = Append(@, [jobId |-> j, outcome |-> outcome])]
  /\ UNCHANGED <<currentParallelQueryJobs, phase, current, collected, results,
                 failed, runError, hits, blamed, cancelled, abandoned>>

\* Mutant of JobEnds: the job that fails cancels the others before anybody
\* has seen its error.
JobEndsCancelling(s, j) ==
  /\ phase[s] \notin {"sequence"} /\ job[s][j] = "running"
  /\ Len(collector[s]) < CollectorCapacity(s)
  /\ \E outcome \in JobOutcomes(s), sent \in BOOLEAN :
       /\ job' = [job EXCEPT ![s][j] = IF sent THEN outcome ELSE @]
       /\ collector' = IF sent
                       THEN [collector EXCEPT ![s] = Append(@, [jobId |-> j, outcome |-> outcome])]
                       ELSE collector
       /\ cancelled' = IF outcome = "database" THEN cancelled \union {s} ELSE cancelled
  /\ UNCHANGED <<currentParallelQueryJobs, phase, current, collected, results,
                 failed, runError, hits, blamed, abandoned>>

\* Mutant of JobEnds: the channel has no buffer, a job waits for the receiver.
JobEndsUnbuffered(s, j) ==
  /\ phase[s] = "parallel" /\ job[s][j] = "running"
  /\ collector[s] = <<>>
  /\ \E outcome \in JobOutcomes(s) :
       /\ job' = [job EXCEPT ![s][j] = outcome]
       /\ collector' = [collector EXCEPT ![s] = Append(@, [jobId |-> j, outcome |-> outcome])]
  /\ UNCHANGED <<currentParallelQueryJobs, phase, current, collected, results,
                 failed, runError, hits, blamed, cancelled, abandoned>>

\* A job that panics reports an error too: the recovery handler sends it.
JobEnds(s, j) ==
  /\ phase[s] \notin {"sequence"} /\ job[s][j] = "running"
  /\ Len(collector[s]) < CollectorCapacity(s)
  /\ \E outcome \in JobOutcomes(s) :
       /\ job' = [job EXCEPT ![s][j] = outcome]
       /\ collector' = [collector EXCEPT ![s] = Append(@, [jobId |-> j, outcome |-> outcome])]
  /\ UNCHANGED <<currentParallelQueryJobs, phase, current, collected, results,
                 failed, runError, hits, blamed, cancelled, abandoned>>

\* Mutant of Collect: results are kept in the order of their arrival.
CollectInOrderOfArrival(s) ==
  /\ phase[s] = "parallel"
  /\ collected[s] < NumberOfJobs(s) /\ collector[s] # <<>>
  /\ LET res == Head(collector[s]) IN
       /\ collector' = [collector EXCEPT ![s] = Tail(@)]
       /\ collected' = [collected EXCEPT ![s] = @ + 1]
       /\ \/ /\ res.outcome = "rows"
             /\ results' = [results EXCEPT ![s][collected[s] + 1] = res.jobId]
             /\ UNCHANGED <<phase, failed, runError, cancelled>>
          \/ /\ res.outcome \in Failures
             /\ runError' = [runError EXCEPT ![s] = res.outcome]
             /\ failed' = [failed EXCEPT ![s] =
                             IF res.outcome = "panic" THEN @ ELSE @ \union {res.jobId}]
             /\ cancelled' = cancelled \union {s}
             /\ Go(s, "releasing")
             /\ UNCHANGED results
  /\ UNCHANGED <<currentParallelQueryJobs, current, job, hits, blamed, abandoned>>

\* The first error ends the run: runQueryJobsParallel returns and its deferred
\* cancel stops the jobs that are still running.  A panicked job has no
\* PerformanceResult that could carry the error.
Collect(s) ==
  /\ phase[s] = "parallel"
  /\ collected[s] < NumberOfJobs(s) /\ collector[s] # <<>>
  /\ LET res == Head(collector[s]) IN
       /\ collector' = [collector EXCEPT ![s] = Tail(@)]
       /\ collected' = [collected EXCEPT ![s] = @ + 1]
       /\ \/ /\ res.outcome = "rows"
             /\ results' = [results EXCEPT ![s][res.jobId] = res.jobId]
             /\ UNCHANGED <<phase, failed, runError, cancelled>>
          \/ /\ res.outcome \in Failures
             /\ runError' = [runError EXCEPT ![s] = res.outcome]
             /\ failed' = [failed EXCEPT ![s] =
                             IF res.outcome = "panic" THEN @ ELSE @ \union {res.jobId}]
             /\ cancelled' = cancelled \union {s}
             /\ Go(s, "releasing")
             /\ UNCHANGED results
  /\ UNCHANGED <<currentParallelQueryJobs, current, job, hits, blamed, abandoned>>

CollectedAll(s) ==
  /\ phase[s] = "parallel"
  /\ collected[s] = NumberOfJobs(s)
  /\ cancelled' = cancelled \union {s}
  /\ Go(s, "releasing")
  /\ UNCHANGED <<currentParallelQueryJobs, current, job, collector, collected,
                 results, failed, runError, hits, blamed, abandoned>>

\* Mutant of ReleaseJobs: the successful return releases twice.
ReleaseJobsTwice(s) ==
  /\ phase[s] = "releasing"
  /\ AddJobs(IF runError[s] = "none" THEN -2 * NumberOfJobs(s) ELSE -NumberOfJobs(s))
  /\ Go(s, "returned")
  /\ UNCHANGED <<current, job, collector, collected, results, failed, runError,
                 hits, blamed, cancelled, abandoned>>

\* The deferred Add(-numberOfJobs) of runQueryJobs.
ReleaseJobs(s) ==
  /\ phase[s] = "releasing"
  /\ AddJobs(-NumberOfJobs(s))
  /\ Go(s, "returned")
  /\ UNCHANGED <<current, job, collector, collected, results, failed, runError,
                 hits, blamed, cancelled, abandoned>>

-----------------------------------------------------------------------------
(* Jobs in sequence.                                                       *)

StartNextJob(s) ==
  /\ phase[s] = "sequence"
  /\ \A j \in JobIds(s) : job[s][j] # "running"
  /\ \E j \in JobIds(s) :
       /\ j = collected[s] + 1
       /\ job' = [job EXCEPT ![s][j] = "running"]
  /\ UNCHANGED <<currentParallelQueryJobs, phase, current, collector, collected,
                 results, failed, runError, hits, blamed, cancelled, abandoned>>

\* A panic is not recovered here: it unwinds through the search worker.
NextJobEnds(s) ==
  /\ phase[s] = "sequence"
  /\ \E j \in JobIds(s), outcome \in JobOutcomes(s) :
       /\ job[s][j] = "running"
       /\ job' = [job EXCEPT ![s][j] = outcome]
       /\ collected' = [collected EXCEPT ![s] = @ + 1]
       /\ \/ /\ outcome = "rows"
             /\ results' = [results EXCEPT ![s][j] = j]
             /\ Go(s, IF j = NumberOfJobs(s) THEN "returned" ELSE "sequence")
             /\ UNCHANGED <<failed, runError>>
          \/ /\ outcome \in {"database", "cancelled"}
             /\ failed' = [failed EXCEPT ![s] = @ \union {j}]
             /\ runError' = [runError EXCEPT ![s] = outcome]
             /\ Go(s, "returned")
             /\ UNCHANGED results
          \/ /\ outcome = "panic"
             /\ Go(s, "panicked")
             /\ UNCHANGED <<results, failed, runError>>
  /\ UNCHANGED <<currentParallelQueryJobs, current, collector, hits, blamed,
                 cancelled, abandoned>>

-----------------------------------------------------------------------------
(* The rest of searchWorkerCommon.                                         *)

FillHits(s) ==
  /\ phase[s] = "returned" /\ runError[s] = "none"
  /\ hits' = [hits EXCEPT ![s] =
       [i \in Positions(s) |->
          IF i \in DatabaseQueries(s) THEN results[s][JobOf(s, i)] ELSE 0]]
  /\ Go(s, "done")
  /\ UNCHANGED <<currentParallelQueryJobs, current, job, collector, collected,
                 results, failed, runError, blamed, cancelled, abandoned>>

\* Mutant of ReportErrors: job numbers are taken for positions.
ReportErrorsByJob(s) ==
  /\ phase[s] = "returned" /\ runError[s] # "none"
  /\ blamed' = [blamed EXCEPT ![s] = failed[s]]
  /\ Go(s, "done")
  /\ UNCHANGED <<currentParallelQueryJobs, current, job, collector, collected,
                 results, failed, runError, hits, cancelled, abandoned>>

ReportErrors(s) ==
  /\ phase[s] = "returned" /\ runError[s] # "none"
  /\ blamed' = [blamed EXCEPT ![s] = 
                   {i \in DatabaseQueries(s) : JobOf(s, i) \in failed[s]}]
  /\ Go(s, "done")
  /\ UNCHANGED <<currentParallelQueryJobs, current, job, collector, collected,
                 results, failed, runError, hits, cancelled, abandoned>>

Finished(s) == phase[s] \in {"done", "panicked"}

\* The client went away, or the evictor cancelled an async search.
Abandon(s) ==
  /\ phase[s] # "idle" /\ ~Finished(s)
  /\ s \notin abandoned
  /\ abandoned' = abandoned \union {s}
  /\ UNCHANGED <<currentParallelQueryJobs, phase, current, job, collector, collected,
                 results, failed, runError, hits, blamed, cancelled>>

Search(s) ==
  \/ RunWithoutCounting(s) \/ CountJobs(s) \/ BackOut(s) \/ LaunchJobs(s)
  \/ Collect(s) \/ CollectedAll(s) \/ ReleaseJobs(s)
  \/ StartNextJob(s) \/ NextJobEnds(s)
  \/ FillHits(s) \/ ReportErrors(s)

\* Nothing is going on: the searches that came are over.
Quiet ==
  /\ \A s \in Searches : /\ phase[s] = "idle" \/ Finished(s)
                         /\ \A j \in JobIds(s) : job[s][j] # "running"
  /\ UNCHANGED vars

Next ==
  \/ \E s \in Searches : \/ Search(s)
                         \/ Abandon(s)
                         \/ \E j \in JobIds(s) : JobEnds(s, j)
  \/ Quiet

Spec == Init /\ [][Next]_vars

\* The database driver answers, fails or times out, and Go runs every
\* goroutine that can run.  Nothing makes a client go away.
Fairness ==
  \A s \in Searches : /\ WF_vars(Search(s))
                      /\ \A j \in JobIds(s) : WF_vars(JobEnds(s, j))

FairSpec == Spec /\ Fairness

-----------------------------------------------------------------------------
(* Properties.                                                             *)

\* Every variable keeps its type: in particular Add never drives the counter
\* below zero, whatever the order of backing out and releasing.
TypeOK ==
  /\ currentParallelQueryJobs \in Nat
  /\ phase \in [Searches -> {"idle", "counted", "parallel", "releasing",
                             "sequence", "returned", "done", "panicked"}]
  /\ current \in [Searches -> Nat]
  /\ \A s \in Searches :
       /\ job[s] \in [JobIds(s) -> {"none", "running", "rows"} \union Failures]
       /\ collector[s] \in Seq([jobId : JobIds(s), outcome : {"rows"} \union Failures])
       /\ Len(collector[s]) <= CollectorCapacity(s)
       /\ collected[s] \in 0..NumberOfJobs(s)
       /\ results[s] \in [JobIds(s) -> 0..NumberOfJobs(s)]
       /\ failed[s] \subseteq JobIds(s)
       /\ hits[s] \in [Positions(s) -> 0..NumberOfJobs(s)]
       /\ blamed[s] \subseteq Positions(s)
  /\ runError \in [Searches -> {"none"} \union Failures]
  /\ cancelled \subseteq Searches /\ abandoned \subseteq Searches

\* The jobs a search holds in the counter.
Reserved == {s \in Searches : phase[s] \in {"counted", "parallel", "releasing"}}

JobsOfAll(S) == UNION {{s} \X JobIds(s) : s \in S}

\* The shared counter is exactly the number of jobs of the searches between
\* their Add(n) and their Add(-n): no error, cancellation or interleaving of
\* runQueryJobs leaks a reservation or gives one back twice.
CounterIsExact == currentParallelQueryJobs = Cardinality(JobsOfAll(Reserved))

\* The jobs of the searches that collect results in parallel stay within
\* maxParallelQueries, although a search adds first and asks afterwards.
CollectedJobsWithinLimit ==
  Cardinality(JobsOfAll({s \in Searches : phase[s] = "parallel"})) <= MaxParallelQueries

\* A search that reports no error has the rows of every database query at that
\* query's own place, in whatever order the jobs finished, and no rows for the
\* internal Kibana queries it skipped.
AnswerInPlace ==
  \A s \in Searches :
    phase[s] = "done" /\ runError[s] = "none" =>
      hits[s] = [i \in Positions(s) |-> IF i \in DatabaseQueries(s) THEN JobOf(s, i) ELSE 0]

\* runQueryJobsParallel cancels its jobs when it gives up; the error it returns
\* is the one that made it give up, never the echo of that cancellation, and
\* the translated query bodies blame it on a query that really failed with it
\* (only the error of a panicked job is blamed on nobody).
ErrorIsGenuine ==
  \A s \in Searches :
    /\ runError[s] = "cancelled" => s \in abandoned
    /\ phase[s] = "done" =>
      /\ \A i \in blamed[s] : job[s][JobOf(s, i)] = runError[s]
      /\ blamed[s] = {} => runError[s] \in {"none", "panic"}

\* No job is left behind blocked on the collector after the search stopped
\* reading it.
EveryJobEnds ==
  <>[](\A s \in Searches : \A j \in JobIds(s) : job[s][j] # "running")
=============================================================================
