-------------------------- MODULE QueryJobsProofs --------------------------
(***************************************************************************)
(* Proofs about QueryJobs for every set of searches, their plans and every *)
(* maximum: what the shared counter of parallel jobs counts and bounds.    *)
(***************************************************************************)
EXTENDS QueryJobs, FiniteSetTheorems, SequenceTheorems, TLAPS

-----------------------------------------------------------------------------
(* Lemmas about the jobs of a set of searches.                             *)

\* The number of jobs of a search is a natural number.
LEMMA NumberOfJobsType ==
  ASSUME NEW s \in Searches
  PROVE  NumberOfJobs(s) \in Nat
<1>1. Len(Plan[s]) \in Nat
  BY QueryJobsAssumption
<1>2. IsFiniteSet(Positions(s))
  BY <1>1, FS_Interval DEF Positions
<1>3. DatabaseQueries(s) \in SUBSET Positions(s)
  BY DEF DatabaseQueries
<1>4. IsFiniteSet(DatabaseQueries(s))
  BY <1>2, <1>3, FS_Subset
<1> QED BY <1>4, FS_CardinalityType DEF NumberOfJobs

\* The jobs of one search are as many as its number of jobs.
LEMMA JobsOfOne ==
  ASSUME NEW s \in Searches
  PROVE  /\ IsFiniteSet({s} \X JobIds(s))
         /\ Cardinality({s} \X JobIds(s)) = NumberOfJobs(s)
<1>1. NumberOfJobs(s) \in Nat
  BY NumberOfJobsType
<1>2. IsFiniteSet(JobIds(s)) /\ Cardinality(JobIds(s)) = NumberOfJobs(s)
  <2>1. /\ IsFiniteSet(1..NumberOfJobs(s))
        /\ Cardinality(1..NumberOfJobs(s)) =
             IF 1 > NumberOfJobs(s) THEN 0 ELSE NumberOfJobs(s) - 1 + 1
    BY <1>1, FS_Interval
  <2> QED BY <1>1, <2>1 DEF JobIds
<1>3. IsFiniteSet({s}) /\ Cardinality({s}) = 1
  BY FS_Singleton
<1>4. /\ IsFiniteSet({s} \X JobIds(s))
      /\ Cardinality({s} \X JobIds(s)) = Cardinality({s}) * Cardinality(JobIds(s))
  BY <1>2, <1>3, FS_Product
<1> QED BY <1>1, <1>2, <1>3, <1>4

\* Finitely many searches have finitely many jobs.
LEMMA JobsFinite ==
  ASSUME NEW S \in SUBSET Searches
  PROVE  IsFiniteSet(JobsOfAll(S))
<1> DEFINE F == [s \in S |-> {s} \X JobIds(s)]
           Sets == {{s} \X JobIds(s) : s \in S}
<1>1. IsFiniteSet(S)
  BY QueryJobsAssumption, FS_Subset
<1>2. F \in Surjection(S, Sets)
  BY DEF Surjection
<1>3. IsFiniteSet(Sets)
  <2> HIDE DEF F, Sets
  <2> QED BY <1>1, <1>2, FS_Surjection
<1>4. \A T \in Sets : IsFiniteSet(T)
  BY JobsOfOne
<1>5. IsFiniteSet(UNION Sets)
  <2> HIDE DEF Sets
  <2> QED BY <1>3, <1>4, FS_UNION
<1> QED BY <1>5 DEF JobsOfAll

\* More searches have no fewer jobs.
LEMMA JobsMonotone ==
  ASSUME NEW T \in SUBSET Searches, NEW S \in SUBSET T
  PROVE  Cardinality(JobsOfAll(S)) <= Cardinality(JobsOfAll(T))
<1>1. IsFiniteSet(JobsOfAll(T))
  BY JobsFinite
<1>2. JobsOfAll(S) \in SUBSET JobsOfAll(T)
  BY DEF JobsOfAll
<1> QED BY <1>1, <1>2, FS_Subset

\* One more search has just its own jobs in addition.
LEMMA JobsAdd ==
  ASSUME NEW S \in SUBSET Searches, NEW s \in Searches, s \notin S
  PROVE  Cardinality(JobsOfAll(S \union {s})) = Cardinality(JobsOfAll(S)) + NumberOfJobs(s)
<1> DEFINE A == JobsOfAll(S)
           B == {s} \X JobIds(s)
<1>1. JobsOfAll(S \union {s}) = A \union B
  BY DEF JobsOfAll
<1>2. A \intersect B = {}
  BY DEF JobsOfAll
<1>3. IsFiniteSet(A) /\ IsFiniteSet(B) /\ Cardinality(B) = NumberOfJobs(s)
  BY JobsFinite, JobsOfOne
<1>4. Cardinality(A) \in Nat /\ NumberOfJobs(s) \in Nat
  BY <1>3, FS_CardinalityType, NumberOfJobsType
<1>5. Cardinality(A \union B) = Cardinality(A) + Cardinality(B) - Cardinality(A \intersect B)
  <2> HIDE DEF A, B
  <2> QED BY <1>3, FS_Union
<1>6. Cardinality(A \intersect B) = 0
  BY <1>2, FS_EmptySet
<1>7. Cardinality(A \union B) = Cardinality(A) + NumberOfJobs(s)
  <2> HIDE DEF A, B
  <2> QED BY <1>3, <1>4, <1>5, <1>6
<1> QED BY <1>1, <1>7

-----------------------------------------------------------------------------
(* The inductive invariant.                                                *)

Phases == {"idle", "counted", "parallel", "releasing", "sequence", "returned",
           "done", "panicked"}

\* Searches that collect in parallel or are going to: their Add(n) returned a
\* sum within the maximum.
Launching ==
  {s \in Searches : \/ phase[s] = "parallel"
                    \/ phase[s] = "counted" /\ current[s] <= MaxParallelQueries}

\* The limit holds for the searches whose decision is already taken, not only
\* for those that act on it: a sum that was within the maximum when it was
\* computed still counted every search that was launching then.
LaunchingWithinLimit == Cardinality(JobsOfAll(Launching)) <= MaxParallelQueries

CInv ==
  /\ phase \in [Searches -> Phases]
  /\ current \in [Searches -> Nat]
  /\ CounterIsExact
  /\ LaunchingWithinLimit

\* Who launches has reserved.
LEMMA LaunchingReserved ==
  /\ Reserved \in SUBSET Searches
  /\ Launching \in SUBSET Reserved
BY DEF Reserved, Launching

LEMMA CounterType == CInv => currentParallelQueryJobs \in Nat
BY LaunchingReserved, JobsFinite, FS_CardinalityType DEF CInv, CounterIsExact

\* A step that leaves the reservations and the counter alone, and launches
\* nobody new, preserves the invariant.
LEMMA KeepsReservations ==
  ASSUME CInv,
         phase' \in [Searches -> Phases], current' \in [Searches -> Nat],
         currentParallelQueryJobs' = currentParallelQueryJobs,
         Reserved' = Reserved, Launching' \in SUBSET Launching
  PROVE  CInv'
<1>1. CounterIsExact'
  BY DEF CInv, CounterIsExact, JobsOfAll, JobIds, NumberOfJobs, DatabaseQueries, Positions
<1>2. Cardinality(JobsOfAll(Launching')) <= Cardinality(JobsOfAll(Launching))
  BY LaunchingReserved, JobsMonotone
<1>3. /\ Cardinality(JobsOfAll(Launching')) \in Nat
      /\ Cardinality(JobsOfAll(Launching)) \in Nat
  BY LaunchingReserved, JobsFinite, FS_CardinalityType
<1>4. LaunchingWithinLimit'
  BY <1>2, <1>3, QueryJobsAssumption DEF CInv, LaunchingWithinLimit
<1> QED BY <1>1, <1>4 DEF CInv

-----------------------------------------------------------------------------
(* Initially, and step by step.                                            *)

LEMMA CInvInit == Init => CInv
<1> SUFFICES ASSUME Init
             PROVE  CInv
  OBVIOUS
<1>1. Reserved = {} /\ Launching = {}
  BY DEF Init, Reserved, Launching
<1>2. JobsOfAll({}) = {}
  BY DEF JobsOfAll
<1>3. CounterIsExact
  BY <1>1, <1>2, FS_EmptySet DEF Init, CounterIsExact
<1>4. Cardinality(JobsOfAll(Launching)) = 0
  BY <1>1, <1>2, FS_EmptySet
<1>5. LaunchingWithinLimit
  BY <1>4, QueryJobsAssumption DEF LaunchingWithinLimit
<1> QED BY <1>3, <1>5 DEF Init, CInv, Phases

\* The jobs of a set do not depend on the state.
LEMMA JobsOfAllConstant ==
  \A S : Cardinality(JobsOfAll(S))' = Cardinality(JobsOfAll(S'))
BY DEF JobsOfAll, JobIds, NumberOfJobs, DatabaseQueries, Positions

\* A search adds its jobs: it reserves them, and it launches only if the new
\* sum, which counts everybody who launches, is within the maximum.
LEMMA CountJobsStep ==
  ASSUME CInv, NEW s \in Searches, CountJobs(s)
  PROVE  CInv'
<1>1. s \in Searches \ Reserved
  BY DEF CountJobs, Reserved
<1>2. Reserved' = Reserved \union {s}
  BY DEF CountJobs, Go, Reserved, CInv
<1>3. /\ currentParallelQueryJobs' = currentParallelQueryJobs + NumberOfJobs(s)
      /\ current' = [current EXCEPT ![s] = currentParallelQueryJobs']
      /\ phase' = [phase EXCEPT ![s] = "counted"]
  BY DEF CountJobs, AddJobs, Go
<1>4. currentParallelQueryJobs \in Nat /\ NumberOfJobs(s) \in Nat
  BY CounterType, NumberOfJobsType
<1>5. currentParallelQueryJobs' = Cardinality(JobsOfAll(Reserved'))
  BY <1>1, <1>2, <1>3, LaunchingReserved, JobsAdd DEF CInv, CounterIsExact
<1>6. Launching' \in SUBSET Reserved' /\ Reserved' \in SUBSET Searches
  BY DEF Launching, Reserved
<1>7. Cardinality(JobsOfAll(Launching')) <= MaxParallelQueries
  <2>1. CASE currentParallelQueryJobs' <= MaxParallelQueries
    <3>1. Cardinality(JobsOfAll(Launching')) <= Cardinality(JobsOfAll(Reserved'))
      BY <1>6, JobsMonotone
    <3>2. Cardinality(JobsOfAll(Launching')) \in Nat
      BY <1>6, JobsFinite, FS_CardinalityType
    <3> QED BY <1>3, <1>4, <1>5, <2>1, <3>1, <3>2, QueryJobsAssumption
  <2>2. CASE ~(currentParallelQueryJobs' <= MaxParallelQueries)
    <3>1. Launching' = Launching
      BY <1>1, <1>3, <2>2 DEF Launching, Reserved, CInv
    <3> QED BY <3>1 DEF CInv, LaunchingWithinLimit
  <2> QED BY <2>1, <2>2
<1>8. phase' \in [Searches -> Phases] /\ current' \in [Searches -> Nat]
  BY <1>3, <1>4 DEF CInv, Phases
<1> QED BY <1>5, <1>7, <1>8, JobsOfAllConstant DEF CInv, CounterIsExact, LaunchingWithinLimit

\* A search gives its jobs back, because it backs out or because its run is
\* over: it reserves nothing any more and launches nothing.
LEMMA GiveBackStep ==
  ASSUME CInv, NEW s \in Searches, s \in Reserved \ Launching \/ phase[s] = "releasing",
         AddJobs(-NumberOfJobs(s)), NEW p \in {"returned", "sequence"}, Go(s, p),
         UNCHANGED current
  PROVE  CInv'
<1>1. s \in Reserved
  BY DEF Reserved
<1>2. s \notin Reserved' /\ Reserved = Reserved' \union {s}
  BY <1>1 DEF Go, Reserved, CInv
<1>3. Reserved' \in SUBSET Searches
  BY DEF Reserved
<1>4. Cardinality(JobsOfAll(Reserved)) = Cardinality(JobsOfAll(Reserved')) + NumberOfJobs(s)
  BY <1>2, <1>3, JobsAdd
<1>5. Cardinality(JobsOfAll(Reserved')) \in Nat /\ NumberOfJobs(s) \in Nat
  BY <1>3, JobsFinite, FS_CardinalityType, NumberOfJobsType
<1>6. currentParallelQueryJobs' = Cardinality(JobsOfAll(Reserved'))
  BY <1>4, <1>5 DEF AddJobs, CInv, CounterIsExact
<1>7. Launching' = Launching
  BY DEF Go, Launching, Reserved, CInv
<1>8. phase' \in [Searches -> Phases]
  BY DEF Go, CInv, Phases
<1> QED BY <1>6, <1>7, <1>8, JobsOfAllConstant DEF CInv, CounterIsExact, LaunchingWithinLimit

\* A step of a search that moves it from p to q, both outside or both inside
\* the reserving phases, without launching it.
LEMMA MoveStep ==
  ASSUME CInv, NEW s \in Searches, NEW q \in Phases, Go(s, q),
         UNCHANGED <<currentParallelQueryJobs, current>>,
         phase[s] \in {"counted", "parallel", "releasing"}
           <=> q \in {"counted", "parallel", "releasing"},
         q \in {"counted", "parallel"} => s \in Launching
  PROVE  CInv'
<1>1. phase' \in [Searches -> Phases]
  BY DEF Go, CInv
<1>2. Reserved' = Reserved
  BY DEF Go, Reserved, CInv
<1>3. Launching' \in SUBSET Launching
  BY DEF Go, Launching, CInv
<1> QED BY <1>1, <1>2, <1>3, KeepsReservations DEF CInv

\* A step that moves no search.
LEMMA StayStep ==
  ASSUME CInv, UNCHANGED <<currentParallelQueryJobs, current, phase>>
  PROVE  CInv'
BY KeepsReservations DEF CInv, Reserved, Launching

LEMMA SearchStep ==
  ASSUME CInv, NEW s \in Searches, Search(s)
  PROVE  CInv'
<1>1. CASE RunWithoutCounting(s)
  BY <1>1, MoveStep DEF RunWithoutCounting, Phases
<1>2. CASE CountJobs(s)
  BY <1>2, CountJobsStep
<1>3. CASE BackOut(s)
  <2>1. s \in Reserved \ Launching
    BY <1>3, QueryJobsAssumption DEF BackOut, Reserved, Launching, CInv
  <2> QED BY <1>3, <2>1, GiveBackStep DEF BackOut
<1>4. CASE LaunchJobs(s)
  BY <1>4, MoveStep DEF LaunchJobs, Phases, Launching
<1>5. CASE Collect(s)
  <2>1. CASE phase' = phase
    BY <1>5, <2>1, StayStep DEF Collect
  <2>2. CASE Go(s, "releasing")
    BY <1>5, <2>2, MoveStep DEF Collect, Phases
  <2> QED BY <1>5, <2>1, <2>2 DEF Collect
<1>6. CASE CollectedAll(s)
  BY <1>6, MoveStep DEF CollectedAll, Phases
<1>7. CASE ReleaseJobs(s)
  BY <1>7, GiveBackStep DEF ReleaseJobs
<1>8. CASE StartNextJob(s)
  BY <1>8, StayStep DEF StartNextJob
<1>9. CASE NextJobEnds(s)
  <2>1. PICK q \in {"sequence", "returned", "panicked"} : Go(s, q)
    BY <1>9 DEF NextJobEnds
  <2> QED BY <1>9, <2>1, MoveStep DEF NextJobEnds, Phases
<1>10. CASE FillHits(s)
  BY <1>10, MoveStep DEF FillHits, Phases
<1>11. CASE ReportErrors(s)
  BY <1>11, MoveStep DEF ReportErrors, Phases
<1> QED BY <1>1, <1>2, <1>3, <1>4, <1>5, <1>6, <1>7, <1>8, <1>9, <1>10, <1>11 DEF Search

LEMMA CInvNext == CInv /\ [Next]_vars => CInv'
<1> SUFFICES ASSUME CInv, [Next]_vars
             PROVE  CInv'
  OBVIOUS
<1>1. CASE \E s \in Searches : Search(s)
  BY <1>1, SearchStep
<1>2. CASE \E s \in Searches : Abandon(s)
  BY <1>2, StayStep DEF Abandon
<1>3. CASE \E s \in Searches : \E j \in JobIds(s) : JobEnds(s, j)
  BY <1>3, StayStep DEF JobEnds
<1>4. CASE Quiet \/ UNCHANGED vars
  BY <1>4, StayStep DEF Quiet, vars
<1> QED BY <1>1, <1>2, <1>3, <1>4 DEF Next

LEMMA CInvAlways == Spec => []CInv
BY CInvInit, CInvNext, PTL DEF Spec

-----------------------------------------------------------------------------
(* The theorems.                                                           *)

\* The counter shared by all searches is at every moment the number of jobs of
\* the searches between their Add(n) and their Add(-n) (runQueryJobs), for any
\* number of searches with any plans.
THEOREM CounterAlwaysExact == Spec => []CounterIsExact
<1>1. CInv => CounterIsExact
  BY DEF CInv
<1> QED BY <1>1, CInvAlways, PTL

\* The jobs of the searches that collect in parallel never exceed
\* maxParallelQueries, although each adds before it compares (runQueryJobs).
THEOREM CollectedJobsAlwaysWithinLimit == Spec => []CollectedJobsWithinLimit
<1>1. CInv => CollectedJobsWithinLimit
  <2> SUFFICES ASSUME CInv
               PROVE  CollectedJobsWithinLimit
    OBVIOUS
  <2> DEFINE C == {s \in Searches : phase[s] = "parallel"}
  <2>1. C \in SUBSET Launching /\ Launching \in SUBSET Searches
    BY DEF Launching
  <2>2. Cardinality(JobsOfAll(C)) <= Cardinality(JobsOfAll(Launching))
    BY <2>1, JobsMonotone
  <2>3. Cardinality(JobsOfAll(C)) \in Nat /\ Cardinality(JobsOfAll(Launching)) \in Nat
    BY <2>1, JobsFinite, FS_CardinalityType
  <2>4. Cardinality(JobsOfAll(C)) <= MaxParallelQueries
    BY <2>2, <2>3, QueryJobsAssumption DEF CInv, LaunchingWithinLimit
  <2> QED BY <2>4 DEF CollectedJobsWithinLimit
<1> QED BY <1>1, CInvAlways, PTL

-----------------------------------------------------------------------------
(* Jobs and queries: the position of a job's query.                        *)

LEMMA DatabaseQueriesFinite ==
  ASSUME NEW s \in Searches
  PROVE  /\ DatabaseQueries(s) \in SUBSET Nat
         /\ IsFiniteSet(DatabaseQueries(s))
<1>1. Len(Plan[s]) \in Nat
  BY QueryJobsAssumption
<1>2. IsFiniteSet(1 .. Len(Plan[s]))
  BY <1>1, FS_Interval
<1>3. DatabaseQueries(s) \in SUBSET (1 .. Len(Plan[s]))
  BY DEF DatabaseQueries, Positions
<1> QED BY <1>1, <1>2, <1>3, FS_Subset

\* The database queries up to one are some of those up to a later one.
LEMMA JobOfIncreases ==
  ASSUME NEW s \in Searches, NEW i \in DatabaseQueries(s), NEW k \in DatabaseQueries(s), i < k
  PROVE  JobOf(s, i) # JobOf(s, k)
<1> DEFINE Upto(n) == {m \in DatabaseQueries(s) : m <= n}
<1>1. IsFiniteSet(Upto(k)) /\ Upto(i) \in SUBSET Upto(k)
  BY DatabaseQueriesFinite, FS_Subset
<1>2. k \in Upto(k) /\ k \notin Upto(i)
  BY DatabaseQueriesFinite
<1>3. Cardinality(Upto(k)) = Cardinality(Upto(i)) => Upto(k) = Upto(i)
  BY <1>1, FS_Subset
<1> QED BY <1>2, <1>3 DEF JobOf

\* A query's job is one of the jobs.
LEMMA JobOfType ==
  ASSUME NEW s \in Searches, NEW i \in DatabaseQueries(s)
  PROVE  JobOf(s, i) \in JobIds(s)
<1> DEFINE Upto == {m \in DatabaseQueries(s) : m <= i}
<1>1. IsFiniteSet(DatabaseQueries(s)) /\ Upto \in SUBSET DatabaseQueries(s) /\ i \in Upto
  BY DatabaseQueriesFinite
<1>2. IsFiniteSet(Upto) /\ Cardinality(Upto) <= NumberOfJobs(s)
  BY <1>1, FS_Subset DEF NumberOfJobs
<1>3. Cardinality(Upto) \in Nat /\ Cardinality(Upto) # 0
  BY <1>1, <1>2, FS_CardinalityType, FS_EmptySet
<1> QED BY <1>2, <1>3, NumberOfJobsType DEF JobOf, JobIds

\* Every job is the job of a query: numbering the queries in their order is
\* one-to-one, and there are as many of them as jobs.
LEMMA JobOfOnto ==
  ASSUME NEW s \in Searches, NEW j \in JobIds(s)
  PROVE  \E i \in DatabaseQueries(s) : JobOf(s, i) = j
<1> DEFINE D == DatabaseQueries(s)
           f == [i \in D |-> JobOf(s, i)]
<1>1. D \in SUBSET Nat
  BY DatabaseQueriesFinite
<1>2. f \in [D -> JobIds(s)]
  BY JobOfType
<1>3. \A i, k \in D : f[i] = f[k] => i = k
  <2> SUFFICES ASSUME NEW i \in D, NEW k \in D, i # k
               PROVE  f[i] # f[k]
    OBVIOUS
  <2>1. CASE i < k
    BY <2>1, JobOfIncreases
  <2>2. CASE k < i
    BY <2>2, JobOfIncreases
  <2> QED BY <1>1, <2>1, <2>2
<1>4. f \in Injection(D, JobIds(s))
  BY <1>2, <1>3 DEF Injection, IsInjective
<1>5. IsFiniteSet(JobIds(s)) /\ Cardinality(JobIds(s)) = NumberOfJobs(s)
  BY NumberOfJobsType, FS_Interval DEF JobIds
<1>6. Cardinality(D) = Cardinality(JobIds(s))
  BY <1>5 DEF NumberOfJobs
<1>7. f \in Surjection(D, JobIds(s))
  <2> HIDE DEF D, f
  <2> QED BY <1>4, <1>5, <1>6, FS_Injection
<1> QED BY <1>7 DEF Surjection

-----------------------------------------------------------------------------
(* What a search returns: an invariant of every search by itself.          *)

Outcomes == {"rows"} \union Failures

Shape ==
  /\ phase \in [Searches -> Phases]
  /\ DOMAIN job = Searches /\ DOMAIN collector = Searches
  /\ DOMAIN collected = Searches /\ DOMAIN results = Searches
  /\ DOMAIN failed = Searches /\ DOMAIN hits = Searches /\ DOMAIN blamed = Searches
  /\ runError \in [Searches -> {"none"} \union Failures]
  /\ cancelled \subseteq Searches /\ abandoned \subseteq Searches

\* The conjunct of TypeOK about one search.
SearchType(s) ==
  /\ job[s] \in [JobIds(s) -> {"none", "running", "rows"} \union Failures]
  /\ collector[s] \in Seq([jobId : JobIds(s), outcome : Outcomes])
  /\ Len(collector[s]) <= CollectorCapacity(s)
  /\ collected[s] \in 0..NumberOfJobs(s)
  /\ results[s] \in [JobIds(s) -> 0..NumberOfJobs(s)]
  /\ failed[s] \subseteq JobIds(s)
  /\ hits[s] \in [Positions(s) -> 0..NumberOfJobs(s)]
  /\ blamed[s] \subseteq Positions(s)

\* Until the search gives up or has everything, nothing is cancelled or blamed.
BeforeReturn(s) ==
  /\ phase[s] \in {"idle", "counted", "parallel", "sequence"} =>
       s \notin cancelled /\ runError[s] = "none" /\ failed[s] = {}
  /\ phase[s] # "done" => blamed[s] = {}

BeforeJobs(s) ==
  phase[s] \in {"idle", "counted"} =>
    /\ collector[s] = <<>> /\ collected[s] = 0
    /\ \A j \in JobIds(s) : job[s][j] = "none" /\ results[s][j] = 0

\* The rows of a job are its own, and it has ended with them.
RowsAreOwn(s) ==
  \A j \in JobIds(s) : results[s][j] = 0 \/ (results[s][j] = j /\ job[s][j] = "rows")

\* In sequence, the jobs collected are the first ones, and only the next runs.
InSequence(s) ==
  phase[s] = "sequence" =>
    /\ collector[s] = <<>>
    /\ \A j \in JobIds(s) :
         /\ results[s][j] = 0 <=> j > collected[s]
         /\ job[s][j] = "running" => j = collected[s] + 1

WithRows(s) == {j \in JobIds(s) : results[s][j] # 0}

\* In parallel, a message in the channel is about a job that has ended that way
\* and has not been collected; no two are about the same job.
InParallel(s) ==
  phase[s] = "parallel" =>
    /\ collected[s] = Cardinality(WithRows(s))
    /\ \A n \in 1 .. Len(collector[s]) :
         /\ job[s][collector[s][n].jobId] = collector[s][n].outcome
         /\ results[s][collector[s][n].jobId] = 0
         /\ collector[s][n].outcome = "cancelled" => s \in abandoned
         /\ \A k \in 1 .. Len(collector[s]) :
              collector[s][n].jobId = collector[s][k].jobId => n = k

\* The error is the one the failed jobs ended with, and an echo of nothing.
AfterError(s) ==
  /\ runError[s] = "cancelled" => s \in abandoned
  /\ \A j \in failed[s] : job[s][j] = runError[s]
  /\ runError[s] \in {"database", "cancelled"} => failed[s] # {}

AfterRows(s) ==
  phase[s] \in {"releasing", "returned"} /\ runError[s] = "none" =>
    \A j \in JobIds(s) : results[s][j] = j

Answered(s) ==
  phase[s] = "done" =>
    IF runError[s] = "none"
    THEN /\ blamed[s] = {}
         /\ hits[s] = [i \in Positions(s) |-> IF i \in DatabaseQueries(s) THEN JobOf(s, i) ELSE 0]
    ELSE blamed[s] = {i \in DatabaseQueries(s) : JobOf(s, i) \in failed[s]}

SInv(s) ==
  /\ SearchType(s) /\ BeforeReturn(s) /\ BeforeJobs(s) /\ RowsAreOwn(s)
  /\ InSequence(s) /\ InParallel(s) /\ AfterError(s) /\ AfterRows(s) /\ Answered(s)

RInv == Shape /\ \A s \in Searches : SInv(s)

\* What a step of one search leaves alone.
Others(s) ==
  \A t \in Searches \ {s} :
    /\ phase'[t] = phase[t] /\ job'[t] = job[t] /\ collector'[t] = collector[t]
    /\ collected'[t] = collected[t] /\ results'[t] = results[t]
    /\ failed'[t] = failed[t] /\ runError'[t] = runError[t]
    /\ hits'[t] = hits[t] /\ blamed'[t] = blamed[t]
    /\ (t \in cancelled' <=> t \in cancelled) /\ (t \in abandoned' <=> t \in abandoned)

LEMMA OthersKeep ==
  ASSUME RInv, NEW s \in Searches, Shape', Others(s), SInv(s)'
  PROVE  RInv'
<1> SUFFICES ASSUME NEW t \in Searches \ {s}
             PROVE  SInv(t)'
  BY DEF RInv
<1>1. SInv(t)
  BY DEF RInv
<1>2. SearchType(t)'
  BY <1>1 DEF Others, SInv, SearchType, JobIds, Positions, NumberOfJobs, DatabaseQueries,
              CollectorCapacity
<1>3. BeforeReturn(t)' /\ BeforeJobs(t)'
  BY <1>1 DEF Others, SInv, BeforeReturn, BeforeJobs, JobIds, NumberOfJobs, DatabaseQueries,
              Positions
<1>4. RowsAreOwn(t)' /\ InSequence(t)'
  BY <1>1 DEF Others, SInv, RowsAreOwn, InSequence, JobIds, NumberOfJobs, DatabaseQueries,
              Positions
<1>5. InParallel(t)'
  <2>1. WithRows(t)' = WithRows(t)
    BY DEF Others, WithRows, JobIds, NumberOfJobs, DatabaseQueries, Positions
  <2> QED BY <1>1, <2>1 DEF Others, SInv, InParallel
<1>6. AfterError(t)' /\ AfterRows(t)'
  BY <1>1 DEF Others, SInv, AfterError, AfterRows, JobIds, NumberOfJobs, DatabaseQueries,
              Positions
<1>7. Answered(t)'
  BY <1>1 DEF Others, SInv, Answered, JobOf, NumberOfJobs, DatabaseQueries, Positions
<1> QED BY <1>2, <1>3, <1>4, <1>5, <1>6, <1>7 DEF SInv

LEMMA RInvInit == Init => RInv
<1> SUFFICES ASSUME Init
             PROVE  RInv
  OBVIOUS
<1>1. Shape
  BY DEF Init, Shape, Phases
<1> SUFFICES ASSUME NEW s \in Searches
             PROVE  SInv(s)
  BY <1>1 DEF RInv
<1>2. NumberOfJobs(s) \in Nat
  BY NumberOfJobsType
<1>3. SearchType(s)
  BY <1>2 DEF Init, SearchType, CollectorCapacity
<1>4. BeforeReturn(s) /\ BeforeJobs(s) /\ RowsAreOwn(s)
  BY DEF Init, BeforeReturn, BeforeJobs, RowsAreOwn
<1> QED BY <1>3, <1>4 DEF Init, SInv, InSequence, InParallel, AfterError, AfterRows, Answered

\* A step that changes nothing but the control of s.
MovesOnly(s) ==
  UNCHANGED <<job, collector, collected, results, failed, runError, hits, blamed,
              cancelled, abandoned>>

LEMMA DecideStep ==
  ASSUME RInv, NEW s \in Searches, phase[s] \in {"idle", "counted"}, MovesOnly(s),
         Go(s, "counted") \/ Go(s, IF NumberOfJobs(s) = 0 THEN "returned" ELSE "sequence")
  PROVE  RInv'
<1>1. NumberOfJobs(s) \in Nat /\ SInv(s) /\ Shape
  BY NumberOfJobsType DEF RInv
<1>2. phase'[s] \in {"counted", "sequence"} \/ (phase'[s] = "returned" /\ NumberOfJobs(s) = 0)
  <2>1. CASE Go(s, "counted")
    BY <1>1, <2>1 DEF Go, Shape
  <2>2. CASE Go(s, IF NumberOfJobs(s) = 0 THEN "returned" ELSE "sequence")
    BY <1>1, <2>2 DEF Go, Shape
  <2> QED BY <2>1, <2>2
<1>3. Shape' /\ Others(s)
  BY <1>1 DEF Go, MovesOnly, Shape, Others, Phases
<1>4. SearchType(s)'
  BY <1>1 DEF MovesOnly, SInv, SearchType, JobIds, Positions, NumberOfJobs, DatabaseQueries,
              CollectorCapacity
<1>5. BeforeReturn(s)' /\ BeforeJobs(s)' /\ RowsAreOwn(s)'
  BY <1>1, <1>2 DEF MovesOnly, SInv, BeforeReturn, BeforeJobs, RowsAreOwn, JobIds, NumberOfJobs,
                    DatabaseQueries, Positions
<1>6. InSequence(s)'
  BY <1>1, <1>2 DEF MovesOnly, SInv, InSequence, BeforeJobs, JobIds, NumberOfJobs,
                    DatabaseQueries, Positions
<1>7. InParallel(s)' /\ Answered(s)'
  BY <1>2 DEF InParallel, Answered
<1>8. AfterError(s)' /\ AfterRows(s)'
  <2>1. AfterError(s)'
    BY <1>1 DEF MovesOnly, SInv, AfterError
  <2>2. JobIds(s)' = JobIds(s)
    BY DEF JobIds, NumberOfJobs, DatabaseQueries, Positions
  <2>3. NumberOfJobs(s) = 0 => JobIds(s) = {}
    BY DEF JobIds
  <2> QED BY <1>2, <2>1, <2>2, <2>3 DEF AfterRows
<1>9. SInv(s)'
  BY <1>4, <1>5, <1>6, <1>7, <1>8 DEF SInv
<1> QED BY <1>3, <1>9, OthersKeep

LEMMA LaunchJobsStep ==
  ASSUME RInv, NEW s \in Searches, LaunchJobs(s)
  PROVE  RInv'
<1>1. NumberOfJobs(s) \in Nat /\ SInv(s) /\ Shape
  BY NumberOfJobsType DEF RInv
<1>2. /\ phase[s] = "counted" /\ phase'[s] = "parallel"
      /\ job'[s] = [j \in JobIds(s) |-> "running"]
      /\ UNCHANGED <<collector, collected, results, failed, runError, hits, blamed,
                     cancelled, abandoned>>
  BY <1>1 DEF LaunchJobs, Go, Shape
<1>3. Shape' /\ Others(s)
  BY <1>1 DEF LaunchJobs, Go, Shape, Others, Phases
<1>4. SearchType(s)'
  BY <1>1, <1>2 DEF SInv, SearchType, JobIds, Positions, NumberOfJobs, DatabaseQueries,
                    CollectorCapacity
<1>5. BeforeReturn(s)' /\ BeforeJobs(s)' /\ RowsAreOwn(s)'
  BY <1>1, <1>2 DEF SInv, BeforeReturn, BeforeJobs, RowsAreOwn, JobIds, NumberOfJobs,
                    DatabaseQueries, Positions
<1>6. InParallel(s)'
  <2>1. collector'[s] = <<>> /\ collected'[s] = 0
    BY <1>1, <1>2 DEF SInv, BeforeJobs
  <2>2. WithRows(s)' = {}
    BY <1>1, <1>2 DEF SInv, BeforeJobs, WithRows, JobIds, NumberOfJobs, DatabaseQueries, Positions
  <2>3. Cardinality(WithRows(s)') = 0
    BY <2>2, FS_EmptySet
  <2> QED BY <2>1, <2>2, <2>3 DEF InParallel
<1>7. InSequence(s)' /\ AfterRows(s)' /\ Answered(s)'
  BY <1>2 DEF InSequence, AfterRows, Answered
<1>8. AfterError(s)'
  BY <1>1, <1>2 DEF SInv, AfterError, BeforeReturn
<1>9. SInv(s)'
  BY <1>4, <1>5, <1>6, <1>7, <1>8 DEF SInv
<1> QED BY <1>3, <1>9, OthersKeep

\* A job ends in parallel: it has not been collected and sends one message.
LEMMA JobEndsStep ==
  ASSUME RInv, NEW s \in Searches, NEW j \in JobIds(s), JobEnds(s, j)
  PROVE  RInv'
<1>1. NumberOfJobs(s) \in Nat /\ SInv(s) /\ Shape
  BY NumberOfJobsType DEF RInv
<1>2. PICK outcome \in JobOutcomes(s) :
        /\ job' = [job EXCEPT ![s][j] = outcome]
        /\ collector' = [collector EXCEPT ![s] = Append(@, [jobId |-> j, outcome |-> outcome])]
  BY DEF JobEnds
<1>3. /\ UNCHANGED <<phase, collected, results, failed, runError, hits, blamed,
                     cancelled, abandoned>>
      /\ phase[s] # "sequence" /\ job[s][j] = "running"
      /\ Len(collector[s]) < CollectorCapacity(s)
  BY DEF JobEnds
<1> DEFINE message == [jobId |-> j, outcome |-> outcome]
           Messages == [jobId : JobIds(s), outcome : Outcomes]
<1>4. outcome \in Outcomes /\ message \in Messages
  BY DEF JobOutcomes, Outcomes, Failures
<1>5. /\ job'[s] = [job[s] EXCEPT ![j] = outcome]
      /\ collector'[s] = Append(collector[s], message)
  BY <1>1, <1>2 DEF Shape
<1>6. Shape' /\ Others(s)
  BY <1>1, <1>2, <1>3 DEF Shape, Others
<1>7. collector[s] \in Seq(Messages)
  BY <1>1 DEF SInv, SearchType
<1>8. /\ collector'[s] \in Seq(Messages) /\ Len(collector'[s]) = Len(collector[s]) + 1
      /\ \A n \in 1 .. Len(collector[s]) : collector'[s][n] = collector[s][n]
      /\ collector'[s][Len(collector[s]) + 1] = message
      /\ Len(collector[s]) \in Nat
  <2> HIDE DEF message, Messages
  <2> QED BY <1>4, <1>5, <1>7, AppendProperties, LenProperties
<1>9. SearchType(s)'
  <2>1. job'[s] \in [JobIds(s) -> {"none", "running", "rows"} \union Failures]
    BY <1>1, <1>4, <1>5 DEF SInv, SearchType, Outcomes
  <2> QED BY <1>1, <1>3, <1>8, <2>1
          DEF SInv, SearchType, JobIds, Positions, NumberOfJobs, DatabaseQueries, CollectorCapacity
<1>10. BeforeReturn(s)'
  BY <1>1, <1>3 DEF SInv, BeforeReturn
<1>11. phase[s] \notin {"idle", "counted", "sequence"}
  BY <1>1, <1>3 DEF SInv, BeforeJobs
<1>12. BeforeJobs(s)' /\ InSequence(s)'
  BY <1>3, <1>11 DEF BeforeJobs, InSequence
<1>13. results[s][j] = 0
  BY <1>1, <1>3 DEF SInv, RowsAreOwn
<1>14. RowsAreOwn(s)'
  BY <1>1, <1>3, <1>5, <1>13
     DEF SInv, SearchType, RowsAreOwn, JobIds, Positions, NumberOfJobs, DatabaseQueries
<1>15. InParallel(s)'
  <2> SUFFICES ASSUME phase[s] = "parallel"
               PROVE  InParallel(s)'
    BY <1>3 DEF InParallel
  <2>1. WithRows(s)' = WithRows(s)
    BY <1>3 DEF WithRows, JobIds, Positions, NumberOfJobs, DatabaseQueries
  <2>2. outcome = "cancelled" => s \in abandoned
    BY <1>1 DEF JobOutcomes, SInv, BeforeReturn
  <2>3. \A n \in 1 .. Len(collector[s]) :
          /\ collector[s][n] \in Messages
          /\ job[s][collector[s][n].jobId] = collector[s][n].outcome
    <3>1. \A n \in 1 .. Len(collector[s]) : collector[s][n] \in Messages
      <4> HIDE DEF Messages
      <4> QED BY <1>7, ElementOfSeq
    <3> QED BY <1>1, <3>1 DEF SInv, InParallel
  <2>4. \A n \in 1 .. Len(collector[s]) : collector[s][n].jobId # j
    BY <1>3, <2>3 DEF Outcomes, Failures
  <2>5. \A n \in 1 .. Len(collector[s]) :
          job'[s][collector[s][n].jobId] = collector[s][n].outcome
    BY <1>1, <1>5, <2>3, <2>4 DEF SInv, SearchType
  <2>6. job'[s][j] = outcome
    BY <1>1, <1>5 DEF SInv, SearchType
  <2>7. /\ collected[s] = Cardinality(WithRows(s))
        /\ \A n \in 1 .. Len(collector[s]) :
             /\ results[s][collector[s][n].jobId] = 0
             /\ collector[s][n].outcome = "cancelled" => s \in abandoned
             /\ \A k \in 1 .. Len(collector[s]) :
                  collector[s][n].jobId = collector[s][k].jobId => n = k
    BY <1>1 DEF SInv, InParallel
  <2>8. message.jobId = j /\ message.outcome = outcome
    OBVIOUS
  <2>9. \A n \in 1 .. Len(collector'[s]) :
          \/ n \in 1 .. Len(collector[s]) /\ collector'[s][n] = collector[s][n]
          \/ n = Len(collector[s]) + 1 /\ collector'[s][n] = message
    BY <1>8
  <2>10. \A n \in 1 .. Len(collector'[s]) :
           /\ job'[s][collector'[s][n].jobId] = collector'[s][n].outcome
           /\ results[s][collector'[s][n].jobId] = 0
           /\ collector'[s][n].outcome = "cancelled" => s \in abandoned
    <3> HIDE DEF message
    <3> QED BY <1>13, <2>2, <2>5, <2>6, <2>7, <2>8, <2>9
  <2>11. \A n, k \in 1 .. Len(collector'[s]) :
           collector'[s][n].jobId = collector'[s][k].jobId => n = k
    <3> HIDE DEF message
    <3> QED BY <2>4, <2>7, <2>8, <2>9
  <2> QED BY <1>3, <2>1, <2>7, <2>10, <2>11 DEF InParallel
<1>16. AfterError(s)'
  <2>1. \A k \in failed[s] : k \in JobIds(s) /\ (job[s][k] = runError[s])
    BY <1>1 DEF SInv, SearchType, AfterError
  <2>2. \A k \in failed[s] : k # j
    BY <1>1, <1>3, <2>1 DEF Shape, Failures
  <2> QED BY <1>1, <1>3, <1>5, <2>1, <2>2 DEF SInv, AfterError, SearchType
<1>17. AfterRows(s)' /\ Answered(s)'
  BY <1>1, <1>3 DEF SInv, AfterRows, Answered, JobOf, JobIds, NumberOfJobs, DatabaseQueries, Positions
<1>18. SInv(s)'
  BY <1>9, <1>10, <1>12, <1>14, <1>15, <1>16, <1>17 DEF SInv
<1> QED BY <1>6, <1>18, OthersKeep

\* The search takes a message: the rows of one more job, or its error, and
\* then it gives up.
LEMMA CollectStep ==
  ASSUME RInv, NEW s \in Searches, Collect(s)
  PROVE  RInv'
<1> DEFINE Messages == [jobId : JobIds(s), outcome : Outcomes]
           res == Head(collector[s])
<1>1. NumberOfJobs(s) \in Nat /\ SInv(s) /\ Shape
  BY NumberOfJobsType DEF RInv
<1>2. /\ phase[s] = "parallel" /\ collected[s] < NumberOfJobs(s) /\ collector[s] # <<>>
      /\ collector' = [collector EXCEPT ![s] = Tail(@)]
      /\ collected' = [collected EXCEPT ![s] = @ + 1]
      /\ UNCHANGED <<job, hits, blamed, abandoned>>
  BY DEF Collect
<1>3. /\ collector[s] \in Seq(Messages) /\ Len(collector[s]) \in Nat \ {0}
      /\ res = collector[s][1] /\ res \in Messages
      /\ collector'[s] \in Seq(Messages) /\ Len(collector'[s]) = Len(collector[s]) - 1
      /\ \A n \in 1 .. Len(collector'[s]) : collector'[s][n] = collector[s][n + 1]
  <2>1. collector[s] \in Seq(Messages)
    BY <1>1 DEF SInv, SearchType
  <2>2. collector'[s] = Tail(collector[s])
    BY <1>1, <1>2 DEF Shape
  <2>3. Len(collector[s]) \in Nat \ {0}
    <3> HIDE DEF Messages
    <3> QED BY <1>2, <2>1, EmptySeq
  <2>4. /\ Head(collector[s]) \in Messages
        /\ Tail(collector[s]) \in Seq(Messages)
        /\ Len(Tail(collector[s])) = Len(collector[s]) - 1
        /\ \A n \in 1 .. Len(Tail(collector[s])) : Tail(collector[s])[n] = collector[s][n + 1]
    <3> HIDE DEF Messages
    <3> QED BY <1>2, <2>1, HeadTailProperties
  <2>5. Head(collector[s]) = collector[s][1]
    BY <1>2, <2>1
  <2> QED BY <2>1, <2>2, <2>3, <2>4, <2>5
<1>4. /\ collected'[s] = collected[s] + 1 /\ collected'[s] \in 0 .. NumberOfJobs(s)
  BY <1>1, <1>2 DEF Shape, SInv, SearchType
<1>5. /\ res.jobId \in JobIds(s) /\ res.outcome \in Outcomes
      /\ job[s][res.jobId] = res.outcome /\ results[s][res.jobId] = 0
      /\ res.outcome = "cancelled" => s \in abandoned
  <2>1. 1 \in 1 .. Len(collector[s])
    BY <1>3
  <2> HIDE DEF res
  <2> QED BY <1>1, <1>2, <1>3, <2>1 DEF SInv, InParallel
<1>6. CASE /\ res.outcome = "rows"
           /\ results' = [results EXCEPT ![s][res.jobId] = res.jobId]
           /\ UNCHANGED <<phase, failed, runError, cancelled>>
  <2>1. Shape' /\ Others(s)
    BY <1>1, <1>2, <1>6 DEF Shape, Others
  <2>2. /\ results'[s] = [results[s] EXCEPT ![res.jobId] = res.jobId]
        /\ results'[s] \in [JobIds(s) -> 0 .. NumberOfJobs(s)]
        /\ \A j \in JobIds(s) : results'[s][j] = IF j = res.jobId THEN j ELSE results[s][j]
    <3> HIDE DEF res
    <3> QED BY <1>1, <1>5, <1>6 DEF Shape, SInv, SearchType, JobIds
  <2>3. SearchType(s)'
    <3>1. Len(collector'[s]) <= CollectorCapacity(s)
      BY <1>1, <1>3 DEF SInv, SearchType, CollectorCapacity
    <3> HIDE DEF res
    <3> QED BY <1>1, <1>2, <1>3, <1>4, <1>6, <2>2, <3>1
       DEF SInv, SearchType, JobIds, Positions, NumberOfJobs, DatabaseQueries, CollectorCapacity
  <2>4. BeforeReturn(s)' /\ AfterError(s)'
    BY <1>1, <1>2, <1>6 DEF SInv, BeforeReturn, AfterError
  <2>5. BeforeJobs(s)' /\ InSequence(s)' /\ AfterRows(s)' /\ Answered(s)'
    BY <1>2, <1>6 DEF BeforeJobs, InSequence, AfterRows, Answered
  <2>6. RowsAreOwn(s)'
    <3>1. \A j \in JobIds(s) : results[s][j] = 0 \/ (results[s][j] = j /\ job[s][j] = "rows")
      BY <1>1 DEF SInv, RowsAreOwn
    <3> HIDE DEF res
    <3> QED BY <1>2, <1>5, <1>6, <2>2, <3>1
            DEF RowsAreOwn, JobIds, Positions, NumberOfJobs, DatabaseQueries
  <2>7. InParallel(s)'
    <3>1. WithRows(s)' = WithRows(s) \union {res.jobId} /\ res.jobId \notin WithRows(s)
      <4>1. \A j \in JobIds(s) : j # 0
        BY <1>1 DEF JobIds
      <4>2. WithRows(s)' = {j \in JobIds(s) : results'[s][j] # 0}
        BY DEF WithRows, JobIds, Positions, NumberOfJobs, DatabaseQueries
      <4> HIDE DEF res
      <4> QED BY <1>5, <2>2, <4>1, <4>2 DEF WithRows
    <3>2. IsFiniteSet(WithRows(s))
      <4>1. IsFiniteSet(JobIds(s))
        BY <1>1, FS_Interval DEF JobIds
      <4>2. WithRows(s) \in SUBSET JobIds(s)
        BY DEF WithRows
      <4> QED BY <4>1, <4>2, FS_Subset
    <3>3. Cardinality(WithRows(s)') = Cardinality(WithRows(s)) + 1
      <4> HIDE DEF res
      <4> QED BY <3>1, <3>2, FS_AddElement
    <3>4. collected[s] = Cardinality(WithRows(s))
      BY <1>1, <1>2 DEF SInv, InParallel
    <3>5. \A n, k \in 1 .. Len(collector[s]) :
            /\ collector[s][n].jobId \in JobIds(s)
            /\ job[s][collector[s][n].jobId] = collector[s][n].outcome
            /\ results[s][collector[s][n].jobId] = 0
            /\ collector[s][n].outcome = "cancelled" => s \in abandoned
            /\ collector[s][n].jobId = collector[s][k].jobId => n = k
      <4>1. \A n \in 1 .. Len(collector[s]) : collector[s][n] \in Messages
        <5> HIDE DEF Messages
        <5> QED BY <1>3, ElementOfSeq
      <4> QED BY <1>1, <1>2, <4>1 DEF SInv, InParallel
    <3>6. \A n \in 1 .. Len(collector'[s]) :
            /\ collector'[s][n] = collector[s][n + 1]
            /\ n + 1 \in 1 .. Len(collector[s]) /\ n + 1 # 1
            /\ n + 1 \in Int
      BY <1>3
    <3>7. \A n \in 1 .. Len(collector'[s]) :
            /\ job[s][collector'[s][n].jobId] = collector'[s][n].outcome
            /\ collector'[s][n].outcome = "cancelled" => s \in abandoned
            /\ collector'[s][n].jobId \in JobIds(s)
            /\ results[s][collector'[s][n].jobId] = 0
            /\ collector'[s][n].jobId # res.jobId
      <4>1. 1 \in 1 .. Len(collector[s]) /\ res = collector[s][1]
        BY <1>3
      <4> SUFFICES ASSUME NEW n \in 1 .. Len(collector'[s])
                   PROVE  LET m == collector'[s][n]
                          IN  /\ job[s][m.jobId] = m.outcome
                              /\ m.outcome = "cancelled" => s \in abandoned
                              /\ m.jobId \in JobIds(s) /\ results[s][m.jobId] = 0
                              /\ m.jobId # res.jobId
        OBVIOUS
      <4> DEFINE k == n + 1
      <4>2. k \in 1 .. Len(collector[s]) /\ k # 1 /\ collector'[s][n] = collector[s][k]
        BY <3>6
      <4> HIDE DEF res, k
      <4> QED BY <3>5, <4>1, <4>2
    <3>8. \A n \in 1 .. Len(collector'[s]) : results'[s][collector'[s][n].jobId] = 0
      <4> HIDE DEF res
      <4> QED BY <2>2, <3>7
    <3>9. \A n, k \in 1 .. Len(collector'[s]) :
            collector'[s][n].jobId = collector'[s][k].jobId => n = k
      <4> SUFFICES ASSUME NEW n \in 1 .. Len(collector'[s]), NEW k \in 1 .. Len(collector'[s]),
                          collector'[s][n].jobId = collector'[s][k].jobId
                   PROVE  n = k
        OBVIOUS
      <4> DEFINE n1 == n + 1
                 k1 == k + 1
      <4>1. /\ n1 \in 1 .. Len(collector[s]) /\ collector'[s][n] = collector[s][n1]
            /\ k1 \in 1 .. Len(collector[s]) /\ collector'[s][k] = collector[s][k1]
        BY <3>6
      <4>2. n1 = k1
        <5> HIDE DEF n1, k1
        <5> QED BY <3>5, <4>1
      <4> QED BY <1>3, <4>2
    <3> QED BY <1>2, <1>4, <3>3, <3>4, <3>7, <3>8, <3>9 DEF InParallel
  <2>8. SInv(s)'
    BY <2>3, <2>4, <2>5, <2>6, <2>7 DEF SInv
  <2> QED BY <2>1, <2>8, OthersKeep
<1>7. CASE /\ res.outcome \in Failures
           /\ runError' = [runError EXCEPT ![s] = res.outcome]
           /\ failed' = [failed EXCEPT ![s] =
                           IF res.outcome = "panic" THEN @ ELSE @ \union {res.jobId}]
           /\ cancelled' = cancelled \union {s}
           /\ Go(s, "releasing")
           /\ UNCHANGED results
  <2>1. /\ phase'[s] = "releasing" /\ runError'[s] = res.outcome
        /\ failed'[s] = IF res.outcome = "panic" THEN {} ELSE {res.jobId}
    BY <1>1, <1>2, <1>7 DEF Shape, Go, SInv, BeforeReturn
  <2>2. Shape' /\ Others(s)
    <3> HIDE DEF res
    <3> QED BY <1>1, <1>2, <1>7 DEF Shape, Others, Go, Phases
  <2>3. SearchType(s)'
    <3>1. Len(collector'[s]) <= CollectorCapacity(s)
      BY <1>1, <1>3 DEF SInv, SearchType, CollectorCapacity
    <3>2. failed'[s] \subseteq JobIds(s)
      BY <1>5, <2>1
    <3> HIDE DEF res
    <3> QED BY <1>1, <1>2, <1>3, <1>4, <1>7, <3>1, <3>2
       DEF SInv, SearchType, JobIds, Positions, NumberOfJobs, DatabaseQueries, CollectorCapacity
  <2>4. BeforeReturn(s)' /\ BeforeJobs(s)' /\ InSequence(s)' /\ InParallel(s)' /\ Answered(s)'
    BY <1>1, <1>2, <2>1
       DEF SInv, BeforeReturn, BeforeJobs, InSequence, InParallel, Answered
  <2>5. RowsAreOwn(s)'
    BY <1>1, <1>2, <1>7 DEF SInv, RowsAreOwn, JobIds, Positions, NumberOfJobs, DatabaseQueries
  <2>6. AfterError(s)'
    <3> HIDE DEF res
    <3> QED BY <1>2, <1>5, <2>1 DEF AfterError
  <2>7. AfterRows(s)'
    BY <1>7, <2>1 DEF AfterRows, Failures
  <2>8. SInv(s)'
    BY <2>3, <2>4, <2>5, <2>6, <2>7 DEF SInv
  <2> QED BY <2>2, <2>8, OthersKeep
<1> QED BY <1>6, <1>7 DEF Collect

\* As many results as jobs were collected: every job has its rows.
LEMMA CollectedAllStep ==
  ASSUME RInv, NEW s \in Searches, CollectedAll(s)
  PROVE  RInv'
<1>1. NumberOfJobs(s) \in Nat /\ SInv(s) /\ Shape
  BY NumberOfJobsType DEF RInv
<1>2. /\ phase[s] = "parallel" /\ phase'[s] = "releasing" /\ collected[s] = NumberOfJobs(s)
      /\ UNCHANGED <<job, collector, collected, results, failed, runError, hits, blamed,
                     abandoned>>
  BY <1>1 DEF CollectedAll, Go, Shape
<1>3. Shape' /\ Others(s)
  BY <1>1 DEF CollectedAll, Go, Shape, Others, Phases
<1>4. WithRows(s) = JobIds(s)
  <2>1. IsFiniteSet(JobIds(s)) /\ Cardinality(JobIds(s)) = NumberOfJobs(s)
    BY <1>1, FS_Interval DEF JobIds
  <2>2. Cardinality(WithRows(s)) = Cardinality(JobIds(s)) /\ WithRows(s) \in SUBSET JobIds(s)
    BY <1>1, <1>2, <2>1 DEF SInv, InParallel, WithRows
  <2> QED BY <2>1, <2>2, FS_Subset
<1>5. SearchType(s)'
  BY <1>1, <1>2 DEF SInv, SearchType, JobIds, Positions, NumberOfJobs, DatabaseQueries,
                    CollectorCapacity
<1>6. RowsAreOwn(s)' /\ AfterRows(s)'
  BY <1>1, <1>2, <1>4 DEF SInv, RowsAreOwn, AfterRows, WithRows, JobIds, Positions,
                         NumberOfJobs, DatabaseQueries
<1>7. BeforeReturn(s)' /\ AfterError(s)'
  BY <1>1, <1>2 DEF SInv, BeforeReturn, AfterError
<1>8. BeforeJobs(s)' /\ InSequence(s)' /\ InParallel(s)' /\ Answered(s)'
  BY <1>2 DEF BeforeJobs, InSequence, InParallel, Answered
<1>9. SInv(s)'
  BY <1>5, <1>6, <1>7, <1>8 DEF SInv
<1> QED BY <1>3, <1>9, OthersKeep

LEMMA ReleaseJobsStep ==
  ASSUME RInv, NEW s \in Searches, ReleaseJobs(s)
  PROVE  RInv'
<1>1. SInv(s) /\ Shape
  BY DEF RInv
<1>2. /\ phase[s] = "releasing" /\ phase'[s] = "returned" /\ MovesOnly(s)
  BY <1>1 DEF ReleaseJobs, Go, Shape, MovesOnly
<1>3. Shape' /\ Others(s)
  BY <1>1 DEF ReleaseJobs, Go, Shape, Others, Phases
<1>4. SearchType(s)' /\ RowsAreOwn(s)'
  BY <1>1, <1>2 DEF MovesOnly, SInv, SearchType, RowsAreOwn, JobIds, Positions, NumberOfJobs,
                    DatabaseQueries, CollectorCapacity
<1>5. BeforeReturn(s)' /\ AfterError(s)'
  BY <1>1, <1>2 DEF MovesOnly, SInv, BeforeReturn, AfterError
<1>6. AfterRows(s)'
  BY <1>1, <1>2 DEF MovesOnly, SInv, AfterRows, JobIds, Positions, NumberOfJobs, DatabaseQueries
<1>7. BeforeJobs(s)' /\ InSequence(s)' /\ InParallel(s)' /\ Answered(s)'
  BY <1>2 DEF BeforeJobs, InSequence, InParallel, Answered
<1>8. SInv(s)'
  BY <1>4, <1>5, <1>6, <1>7 DEF SInv
<1> QED BY <1>3, <1>8, OthersKeep

LEMMA StartNextJobStep ==
  ASSUME RInv, NEW s \in Searches, StartNextJob(s)
  PROVE  RInv'
<1>1. NumberOfJobs(s) \in Nat /\ SInv(s) /\ Shape
  BY NumberOfJobsType DEF RInv
<1>2. PICK j \in JobIds(s) : j = collected[s] + 1 /\ job' = [job EXCEPT ![s][j] = "running"]
  BY DEF StartNextJob
<1>3. /\ phase[s] = "sequence"
      /\ UNCHANGED <<phase, collector, collected, results, failed, runError, hits, blamed,
                     cancelled, abandoned>>
  BY DEF StartNextJob
<1>4. /\ job'[s] = [job[s] EXCEPT ![j] = "running"]
      /\ job'[s] \in [JobIds(s) -> {"none", "running", "rows"} \union Failures]
      /\ \A k \in JobIds(s) : k # j => job'[s][k] = job[s][k]
  BY <1>1, <1>2 DEF Shape, SInv, SearchType
<1>5. Shape' /\ Others(s)
  BY <1>1, <1>2, <1>3 DEF Shape, Others
<1>6. SearchType(s)'
  BY <1>1, <1>3, <1>4 DEF SInv, SearchType, JobIds, Positions, NumberOfJobs, DatabaseQueries,
                          CollectorCapacity
<1>7. BeforeReturn(s)'
  BY <1>1, <1>3 DEF SInv, BeforeReturn
<1>8. results[s][j] = 0
  BY <1>1, <1>2, <1>3 DEF SInv, SearchType, InSequence
<1>9. RowsAreOwn(s)'
  BY <1>1, <1>3, <1>4, <1>8 DEF SInv, RowsAreOwn, JobIds, Positions, NumberOfJobs, DatabaseQueries
<1>10. \A k \in JobIds(s) : /\ results[s][k] = 0 <=> k > collected[s]
                            /\ job'[s][k] = "running" => k = collected[s] + 1
  BY <1>1, <1>2, <1>3, <1>4 DEF SInv, InSequence
<1>11. InSequence(s)'
  BY <1>1, <1>3, <1>10 DEF SInv, InSequence, JobIds, Positions, NumberOfJobs, DatabaseQueries
<1>12. AfterError(s)'
  BY <1>1, <1>3 DEF SInv, BeforeReturn, AfterError
<1>13. BeforeJobs(s)' /\ InParallel(s)' /\ AfterRows(s)' /\ Answered(s)'
  BY <1>3 DEF BeforeJobs, InParallel, AfterRows, Answered
<1>14. SInv(s)'
  BY <1>6, <1>7, <1>9, <1>11, <1>12, <1>13 DEF SInv
<1> QED BY <1>5, <1>14, OthersKeep

\* The jobs of a sequence end in their order: the last one that ends with rows
\* is the last of all.
LEMMA NextJobEndsStep ==
  ASSUME RInv, NEW s \in Searches, NextJobEnds(s)
  PROVE  RInv'
<1>1. NumberOfJobs(s) \in Nat /\ SInv(s) /\ Shape
  BY NumberOfJobsType DEF RInv
<1>2. PICK j \in JobIds(s), outcome \in JobOutcomes(s) :
       /\ job[s][j] = "running"
       /\ job' = [job EXCEPT ![s][j] = outcome]
       /\ collected' = [collected EXCEPT ![s] = @ + 1]
       /\ \/ /\ outcome = "rows"
             /\ results' = [results EXCEPT ![s][j] = j]
             /\ Go(s, IF j = NumberOfJobs(s) THEN "returned" ELSE "sequence")
             /\ UNCHANGED <<failed, runError>>
          \/ /\ outcome \in {"database", "cancelled"}
             /\ failed' = [failed EXCEPT ![s] = @ \union {j}]
             /\ runError' = [runError EXCEPT ![s] = outcome]
             /\ Go(s, "returned")
             /\ UNCHANGED results
          \/ /\ outcome = "panic"
             /\ Go(s, "panicked")
             /\ UNCHANGED <<results, failed, runError>>
  BY DEF NextJobEnds
<1>3. phase[s] = "sequence" /\ UNCHANGED <<collector, hits, blamed, cancelled, abandoned>>
  BY DEF NextJobEnds
<1>4. /\ job'[s] = [job[s] EXCEPT ![j] = outcome] /\ job'[s][j] = outcome
      /\ outcome \in {"rows", "panic", "database", "cancelled"}
      /\ job'[s] \in [JobIds(s) -> {"none", "running", "rows"} \union Failures]
      /\ \A k \in JobIds(s) : k # j => job'[s][k] = job[s][k]
  BY <1>1, <1>2 DEF Shape, SInv, SearchType, JobOutcomes, Failures
<1>5. /\ j = collected[s] + 1 /\ collected'[s] = j /\ j \in 1 .. NumberOfJobs(s)
      /\ \A k \in JobIds(s) : /\ results[s][k] = 0 <=> k >= j
                              /\ job[s][k] = "running" => k = j
  BY <1>1, <1>2, <1>3 DEF Shape, SInv, SearchType, InSequence, JobIds
<1>6. \A k \in JobIds(s) : /\ k \in Nat
                           /\ results[s][k] = 0 \/ (results[s][k] = k /\ job[s][k] = "rows")
  BY <1>1 DEF SInv, RowsAreOwn, JobIds
<1>7. failed[s] = {} /\ runError[s] = "none" /\ s \notin cancelled /\ blamed[s] = {}
  BY <1>1, <1>3 DEF SInv, BeforeReturn
<1>8. CASE /\ outcome = "rows"
           /\ results' = [results EXCEPT ![s][j] = j]
           /\ Go(s, IF j = NumberOfJobs(s) THEN "returned" ELSE "sequence")
           /\ UNCHANGED <<failed, runError>>
  <2>1. \/ phase'[s] = "sequence"
        \/ phase'[s] = "returned" /\ j = NumberOfJobs(s)
    BY <1>1, <1>8 DEF Shape, Go
  <2>2. /\ results'[s] \in [JobIds(s) -> 0 .. NumberOfJobs(s)]
        /\ \A k \in JobIds(s) : results'[s][k] = IF k = j THEN j ELSE results[s][k]
    BY <1>1, <1>5, <1>8 DEF Shape, SInv, SearchType, JobIds
  <2>3. Shape' /\ Others(s)
    BY <1>1, <1>2, <1>3, <1>8 DEF Shape, Others, Go, Phases
  <2>4. SearchType(s)'
    BY <1>1, <1>3, <1>4, <1>5, <1>8, <2>2
       DEF SInv, SearchType, JobIds, Positions, NumberOfJobs, DatabaseQueries, CollectorCapacity
  <2>5. BeforeReturn(s)' /\ BeforeJobs(s)' /\ InParallel(s)' /\ Answered(s)'
    BY <1>3, <1>7, <1>8, <2>1 DEF BeforeReturn, BeforeJobs, InParallel, Answered
  <2>6. RowsAreOwn(s)'
    BY <1>4, <1>6, <1>8, <2>2 DEF RowsAreOwn, JobIds, Positions, NumberOfJobs, DatabaseQueries
  <2>7. \A k \in JobIds(s) : /\ results'[s][k] = 0 <=> k > j
                             /\ job'[s][k] # "running"
    BY <1>4, <1>5, <1>6, <1>8, <2>2
  <2>8. InSequence(s)'
    <3>1. phase'[s] = "sequence" => collector'[s] = <<>>
      BY <1>1, <1>3 DEF SInv, InSequence
    <3> QED BY <1>5, <2>7, <3>1 DEF InSequence, JobIds, Positions, NumberOfJobs, DatabaseQueries
  <2>9. AfterError(s)'
    BY <1>3, <1>7, <1>8 DEF AfterError
  <2>10. AfterRows(s)'
    <3>1. j = NumberOfJobs(s) => \A k \in JobIds(s) : results'[s][k] = k
      BY <1>1, <1>5, <1>6, <2>2 DEF JobIds
    <3> QED BY <2>1, <3>1 DEF AfterRows, JobIds, Positions, NumberOfJobs, DatabaseQueries
  <2>11. SInv(s)'
    BY <2>4, <2>5, <2>6, <2>8, <2>9, <2>10 DEF SInv
  <2> QED BY <2>3, <2>11, OthersKeep
<1>9. CASE \/ /\ outcome \in {"database", "cancelled"}
              /\ failed' = [failed EXCEPT ![s] = @ \union {j}]
              /\ runError' = [runError EXCEPT ![s] = outcome]
              /\ Go(s, "returned")
              /\ UNCHANGED results
           \/ /\ outcome = "panic"
              /\ Go(s, "panicked")
              /\ UNCHANGED <<results, failed, runError>>
  <2>1. /\ \/ phase'[s] = "returned" /\ runError'[s] = outcome /\ failed'[s] = {j}
                                     /\ outcome \in {"database", "cancelled"}
           \/ phase'[s] = "panicked" /\ runError'[s] = "none" /\ failed'[s] = {}
        /\ UNCHANGED results
    BY <1>1, <1>7, <1>9 DEF Shape, Go
  <2>2. Shape' /\ Others(s)
    BY <1>1, <1>2, <1>3, <1>9 DEF Shape, Others, Go, Phases, Failures
  <2>3. SearchType(s)'
    <3>1. failed'[s] \subseteq JobIds(s)
      BY <2>1
    <3>2. collected'[s] \in 0 .. NumberOfJobs(s)
      BY <1>1, <1>5
    <3>3. results'[s] = results[s] /\ hits'[s] = hits[s] /\ collector'[s] = collector[s]
          /\ blamed'[s] = blamed[s]
      BY <1>3, <2>1
    <3> QED BY <1>1, <1>4, <3>1, <3>2, <3>3
       DEF SInv, SearchType, JobIds, Positions, NumberOfJobs, DatabaseQueries, CollectorCapacity
  <2>4. BeforeReturn(s)' /\ BeforeJobs(s)' /\ InSequence(s)' /\ InParallel(s)' /\ Answered(s)'
    BY <1>3, <1>7, <2>1 DEF BeforeReturn, BeforeJobs, InSequence, InParallel, Answered
  <2>5. RowsAreOwn(s)'
    BY <1>4, <1>5, <1>6, <2>1 DEF RowsAreOwn, JobIds, Positions, NumberOfJobs, DatabaseQueries
  <2>6. AfterError(s)'
    <3>1. outcome = "cancelled" => s \in abandoned
      BY <1>7 DEF JobOutcomes
    <3> QED BY <1>3, <1>4, <2>1, <3>1 DEF AfterError
  <2>7. AfterRows(s)'
    BY <2>1 DEF AfterRows
  <2>8. SInv(s)'
    BY <2>3, <2>4, <2>5, <2>6, <2>7 DEF SInv
  <2> QED BY <2>2, <2>8, OthersKeep
<1> QED BY <1>2, <1>8, <1>9

LEMMA FillHitsStep ==
  ASSUME RInv, NEW s \in Searches, FillHits(s)
  PROVE  RInv'
<1>1. NumberOfJobs(s) \in Nat /\ SInv(s) /\ Shape
  BY NumberOfJobsType DEF RInv
<1> DEFINE answer == [i \in Positions(s) |-> IF i \in DatabaseQueries(s) THEN JobOf(s, i) ELSE 0]
<1>2. /\ phase[s] = "returned" /\ phase'[s] = "done" /\ runError[s] = "none"
      /\ UNCHANGED <<job, collector, collected, results, failed, runError, blamed,
                     cancelled, abandoned>>
  BY <1>1 DEF FillHits, Go, Shape
<1>3. \A i \in DatabaseQueries(s) : /\ JobOf(s, i) \in JobIds(s)
                                    /\ results[s][JobOf(s, i)] = JobOf(s, i)
  BY <1>1, <1>2, JobOfType DEF SInv, AfterRows
<1>4. hits'[s] = answer
  BY <1>1, <1>3 DEF FillHits, Shape
<1>5. Shape' /\ Others(s)
  BY <1>1 DEF FillHits, Go, Shape, Others, Phases
<1>6. answer \in [Positions(s) -> 0 .. NumberOfJobs(s)]
  BY <1>1, <1>3 DEF JobIds
<1>7. SearchType(s)' /\ RowsAreOwn(s)'
  <2> HIDE DEF answer
  <2> QED BY <1>1, <1>2, <1>4, <1>6
             DEF SInv, SearchType, RowsAreOwn, JobIds, Positions, NumberOfJobs, DatabaseQueries,
                 CollectorCapacity
<1>8. BeforeReturn(s)' /\ BeforeJobs(s)' /\ InSequence(s)' /\ InParallel(s)' /\ AfterRows(s)'
  BY <1>2 DEF BeforeReturn, BeforeJobs, InSequence, InParallel, AfterRows
<1>9. AfterError(s)'
  BY <1>1, <1>2 DEF SInv, AfterError
<1>10. Answered(s)'
  <2>1. blamed'[s] = {} /\ runError'[s] = "none"
    BY <1>1, <1>2 DEF SInv, BeforeReturn
  <2> QED BY <1>4, <2>1 DEF Answered, JobOf, Positions, DatabaseQueries
<1>11. SInv(s)'
  BY <1>7, <1>8, <1>9, <1>10 DEF SInv
<1> QED BY <1>5, <1>11, OthersKeep

LEMMA ReportErrorsStep ==
  ASSUME RInv, NEW s \in Searches, ReportErrors(s)
  PROVE  RInv'
<1>1. SInv(s) /\ Shape
  BY DEF RInv
<1>2. /\ phase[s] = "returned" /\ phase'[s] = "done" /\ runError[s] # "none"
      /\ blamed'[s] = {i \in DatabaseQueries(s) : JobOf(s, i) \in failed[s]}
      /\ UNCHANGED <<job, collector, collected, results, failed, runError, hits,
                     cancelled, abandoned>>
  BY <1>1 DEF ReportErrors, Go, Shape
<1>3. Shape' /\ Others(s)
  BY <1>1 DEF ReportErrors, Go, Shape, Others, Phases
<1>4. SearchType(s)' /\ RowsAreOwn(s)'
  BY <1>1, <1>2 DEF SInv, SearchType, RowsAreOwn, JobIds, Positions, NumberOfJobs,
                    DatabaseQueries, CollectorCapacity
<1>5. BeforeReturn(s)' /\ BeforeJobs(s)' /\ InSequence(s)' /\ InParallel(s)' /\ AfterRows(s)'
  BY <1>2 DEF BeforeReturn, BeforeJobs, InSequence, InParallel, AfterRows
<1>6. AfterError(s)'
  BY <1>1, <1>2 DEF SInv, AfterError
<1>7. Answered(s)'
  BY <1>2 DEF Answered, JobOf, Positions, DatabaseQueries
<1>8. SInv(s)'
  BY <1>4, <1>5, <1>6, <1>7 DEF SInv
<1> QED BY <1>3, <1>8, OthersKeep

\* The client goes away: this only justifies more errors.
LEMMA AbandonStep ==
  ASSUME RInv, NEW s \in Searches, Abandon(s)
  PROVE  RInv'
<1>1. SInv(s) /\ Shape
  BY DEF RInv
<1>2. /\ abandoned' = abandoned \union {s}
      /\ UNCHANGED <<phase, job, collector, collected, results, failed, runError, hits, blamed,
                     cancelled>>
  BY DEF Abandon
<1>3. Shape' /\ Others(s)
  BY <1>1, <1>2 DEF Shape, Others
<1>4. SearchType(s)' /\ BeforeReturn(s)' /\ BeforeJobs(s)' /\ RowsAreOwn(s)' /\ InSequence(s)'
  BY <1>1, <1>2 DEF SInv, SearchType, BeforeReturn, BeforeJobs, RowsAreOwn, InSequence, JobIds,
                    Positions, NumberOfJobs, DatabaseQueries, CollectorCapacity
<1>5. InParallel(s)'
  <2>1. WithRows(s)' = WithRows(s)
    BY <1>2 DEF WithRows, JobIds, Positions, NumberOfJobs, DatabaseQueries
  <2> QED BY <1>1, <1>2, <2>1 DEF SInv, InParallel
<1>6. AfterError(s)' /\ AfterRows(s)' /\ Answered(s)'
  BY <1>1, <1>2 DEF SInv, AfterError, AfterRows, Answered, JobOf, JobIds, Positions,
                    NumberOfJobs, DatabaseQueries
<1>7. SInv(s)'
  BY <1>4, <1>5, <1>6 DEF SInv
<1> QED BY <1>3, <1>7, OthersKeep

-----------------------------------------------------------------------------
(* The invariant holds for ever.                                           *)

LEMMA RInvNext ==
  ASSUME RInv, [Next]_vars
  PROVE  RInv'
<1>1. ASSUME NEW s \in Searches, Search(s)
      PROVE  RInv'
  <2>1. RunWithoutCounting(s) \/ CountJobs(s) \/ BackOut(s) => RInv'
    <3>1. ASSUME RunWithoutCounting(s) \/ CountJobs(s) \/ BackOut(s)
          PROVE  /\ phase[s] \in {"idle", "counted"} /\ MovesOnly(s)
                 /\ \/ Go(s, "counted")
                    \/ Go(s, IF NumberOfJobs(s) = 0 THEN "returned" ELSE "sequence")
      BY <3>1 DEF RunWithoutCounting, CountJobs, BackOut, MovesOnly
    <3> QED BY <3>1, DecideStep
  <2>2. LaunchJobs(s) \/ Collect(s) \/ CollectedAll(s) \/ ReleaseJobs(s) => RInv'
    BY LaunchJobsStep, CollectStep, CollectedAllStep, ReleaseJobsStep
  <2>3. StartNextJob(s) \/ NextJobEnds(s) \/ FillHits(s) \/ ReportErrors(s) => RInv'
    BY StartNextJobStep, NextJobEndsStep, FillHitsStep, ReportErrorsStep
  <2> QED BY <1>1, <2>1, <2>2, <2>3 DEF Search
<1>2. ASSUME NEW s \in Searches, NEW j \in JobIds(s), JobEnds(s, j)
      PROVE  RInv'
  BY <1>2, JobEndsStep
<1>3. ASSUME NEW s \in Searches, Abandon(s)
      PROVE  RInv'
  BY <1>3, AbandonStep
<1>4. CASE UNCHANGED vars
  <2>1. Shape'
    BY <1>4 DEF RInv, Shape, vars
  <2>2. \A s \in Searches : Others(s)
    BY <1>4 DEF Others, vars
  <2>3. ASSUME NEW s \in Searches
        PROVE  SInv(s)'
    <3>1. SInv(s)
      BY DEF RInv
    <3>2. SearchType(s)' /\ BeforeReturn(s)' /\ BeforeJobs(s)' /\ RowsAreOwn(s)' /\ InSequence(s)'
      BY <1>4, <3>1 DEF vars, SInv, SearchType, BeforeReturn, BeforeJobs, RowsAreOwn, InSequence,
                        JobIds, Positions, NumberOfJobs, DatabaseQueries, CollectorCapacity
    <3>3. InParallel(s)'
      <4>1. WithRows(s)' = WithRows(s)
        BY <1>4 DEF vars, WithRows, JobIds, Positions, NumberOfJobs, DatabaseQueries
      <4> QED BY <1>4, <3>1, <4>1 DEF vars, SInv, InParallel
    <3>4. AfterError(s)' /\ AfterRows(s)' /\ Answered(s)'
      BY <1>4, <3>1 DEF vars, SInv, AfterError, AfterRows, Answered, JobOf, JobIds, Positions,
                        NumberOfJobs, DatabaseQueries
    <3> QED BY <3>2, <3>3, <3>4 DEF SInv
  <2> QED BY <2>1, <2>3 DEF RInv
<1> QED BY <1>1, <1>2, <1>3, <1>4 DEF Next, Quiet

LEMMA RInvAlways == Spec => []RInv
<1>1. Init => RInv
  BY RInvInit
<1>2. RInv /\ [Next]_vars => RInv'
  BY RInvNext
<1> QED BY <1>1, <1>2, PTL DEF Spec

\* Whatever the plans, however many searches compete for the parallel jobs and
\* in whatever order their goroutines report: a search that returns no error
\* has every query's rows at that query's place.
THEOREM AnswersInPlace == Spec => []AnswerInPlace
<1>1. RInv => AnswerInPlace
  BY DEF RInv, SInv, Answered, AnswerInPlace
<1> QED BY <1>1, RInvAlways, PTL

\* The error a run returns is the one that ended it: an echo of the run's own
\* cancellation is never reported, and the queries blamed are those whose jobs
\* failed with it.
THEOREM ErrorsAreGenuine == Spec => []ErrorIsGenuine
<1>1. ASSUME RInv, NEW s \in Searches
      PROVE  /\ runError[s] = "cancelled" => s \in abandoned
             /\ phase[s] = "done" =>
                  /\ \A i \in blamed[s] : job[s][JobOf(s, i)] = runError[s]
                  /\ blamed[s] = {} => runError[s] \in {"none", "panic"}
  <2>1. AfterError(s) /\ Answered(s) /\ failed[s] \subseteq JobIds(s)
    BY <1>1 DEF RInv, SInv, SearchType
  <2>2. runError[s] \in {"none", "database", "cancelled", "panic"}
    BY <1>1 DEF RInv, Shape, Failures
  <2>3. CASE phase[s] = "done" /\ runError[s] # "none"
    <3>1. blamed[s] = {i \in DatabaseQueries(s) : JobOf(s, i) \in failed[s]}
      BY <2>1, <2>3 DEF Answered
    <3>2. ASSUME failed[s] # {}
          PROVE  blamed[s] # {}
      <4>1. PICK j \in JobIds(s) : j \in failed[s]
        BY <2>1, <3>2
      <4>2. PICK i \in DatabaseQueries(s) : JobOf(s, i) = j
        BY <4>1, JobOfOnto
      <4> QED BY <3>1, <4>1, <4>2
    <3> QED BY <2>1, <2>2, <3>1, <3>2 DEF AfterError
  <2>4. CASE phase[s] = "done" /\ runError[s] = "none"
    BY <2>1, <2>4 DEF AfterError, Answered
  <2> QED BY <2>1, <2>3, <2>4 DEF AfterError
<1>2. RInv => ErrorIsGenuine
  BY <1>1 DEF ErrorIsGenuine
<1> QED BY <1>2, RInvAlways, PTL

\* Every variable keeps its type: the counter of parallel jobs never drops
\* below zero and no channel of results is ever filled beyond its capacity, so
\* that no job waits for a search that has gone.
THEOREM TypesAreKept == Spec => []TypeOK
<1>1. RInv /\ CInv => TypeOK
  BY CounterType DEF RInv, Shape, SInv, SearchType, Outcomes, Phases, CInv, TypeOK
<1> QED BY <1>1, RInvAlways, CInvAlways, PTL
=============================================================================
