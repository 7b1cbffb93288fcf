---------------------------- MODULE ABResultsProofs ----------------------------
(***************************************************************************)
(* Proofs about ABResults for any number of results, collectors and sizes  *)
(* of the channels: which collector the sender uses; about ABTesting:      *)
(* what is compared; and about ResponseDiff, for any values of JSON: which *)
(* differences are found.                                                  *)
(***************************************************************************)
EXTENDS ABResults, ABTesting, ResponseDiff, SequenceTheorems, FiniteSetTheorems,
        WellFoundedInduction, NaturalsInduction, TLAPS

-----------------------------------------------------------------------------
(* The inductive invariant.                                                *)

\* What the coordinator has told the sender last, read or not.
Told == IF control = <<>> THEN sender.use ELSE control[Len(control)]

ResultsType ==
  /\ control \in Seq(Nat)
  /\ sender \in [use : Nat, holds : BOOLEAN]
  /\ coordinator \in [pc : {"create", "use", "select", "disable", "stop"},
                      current : Nat, created : Nat]
  /\ stopped \subseteq 1 .. coordinator.created

\* The coordinator keeps the collector it created last, until it stops it, and
\* has stopped all the others.
KeepsNewest ==
  IF coordinator.pc = "create"
  THEN coordinator.current = None /\ stopped = 1 .. coordinator.created
  ELSE /\ coordinator.current = coordinator.created
       /\ coordinator.created \in Nat \ {0}
       /\ stopped = 1 .. coordinator.created \ {coordinator.current}

\* It withdraws a collector from the sender before it stops it.
WithdrawnBeforeStop ==
  /\ coordinator.pc \in {"create", "stop"} => Told = None
  /\ coordinator.pc = "use" => Told \in {None, coordinator.current}
  /\ coordinator.pc \in {"select", "disable"} => Told = coordinator.current

ResultsInv == ResultsType /\ KeepsNewest /\ WithdrawnBeforeStop

\* Reading a control message does not change which one was the last.
LEMMA LastOfTail ==
  ASSUME NEW q \in Seq(Nat), Len(q) > 1
  PROVE  Tail(q) # <<>> /\ Tail(q)[Len(Tail(q))] = q[Len(q)]
<1>1. Tail(q) \in Seq(Nat) /\ Len(Tail(q)) = Len(q) - 1
  OBVIOUS
<1>2. \A i \in 1 .. Len(Tail(q)) : Tail(q)[i] = q[i + 1]
  BY HeadTailProperties
<1>3. Len(q) \in Nat /\ Len(Tail(q)) \in 1 .. Len(Tail(q)) /\ Len(Tail(q)) + 1 = Len(q)
  BY <1>1
<1>4. Tail(q) # <<>>
  <2>1. Len(Tail(q)) > 0
    OBVIOUS
  <2>2. ~(Len(<<>>) > 0)
    BY EmptySeq
  <2> QED BY <2>1, <2>2
<1> QED BY <1>2, <1>3, <1>4

LEMMA ResultsInvInit == ResultsInit => ResultsInv
BY DEF ResultsInit, ResultsInv, ResultsType, KeepsNewest, WithdrawnBeforeStop, Told, None

LEMMA TakeControlStep ==
  ASSUME ResultsInv, TakeControl
  PROVE  ResultsInv'
<1>1. /\ control \in Seq(Nat) /\ control # <<>> /\ control' = Tail(control)
      /\ sender' = [sender EXCEPT !.use = Head(control)]
      /\ UNCHANGED <<coordinator, stopped>>
  BY DEF ResultsInv, ResultsType, TakeControl
<1>2. control' \in Seq(Nat) /\ Head(control) \in Nat /\ Len(control) \in Nat \ {0}
  BY <1>1
<1>3. Told' = Told
  <2>1. CASE Len(control) <= 1
    <3>1. control' = <<>> /\ Head(control) = control[Len(control)]
      BY <1>1, <2>1
    <3> QED BY <1>1, <3>1 DEF Told, ResultsInv, ResultsType
  <2>2. CASE Len(control) > 1
    <3>1. control' # <<>> /\ control'[Len(control')] = control[Len(control)]
      BY <1>1, <2>2, LastOfTail
    <3>2. control # <<>>
      BY <1>1
    <3> QED BY <3>1, <3>2 DEF Told
  <2>3. Len(control) <= 1 \/ Len(control) > 1
    BY <1>1, EmptySeq
  <2> QED BY <2>1, <2>2, <2>3
<1>4. ResultsType'
  BY <1>1, <1>2 DEF ResultsInv, ResultsType
<1> QED BY <1>1, <1>3, <1>4 DEF ResultsInv, KeepsNewest, WithdrawnBeforeStop

\* A message of the coordinator is the last the sender has been told.
LEMMA UseStep ==
  ASSUME ResultsInv, NEW pc, NEW c \in Nat, NEW next, Use(pc, c, next)
  PROVE  /\ control' \in Seq(Nat) /\ Told' = c
         /\ coordinator' = [coordinator EXCEPT !.pc = next]
         /\ UNCHANGED <<sender, stopped>>
<1>1. control \in Seq(Nat) /\ control' = Append(control, c)
  BY DEF ResultsInv, ResultsType, Use
<1>2. control' \in Seq(Nat) /\ control' # <<>> /\ control'[Len(control')] = c
  BY <1>1
<1> QED BY <1>2 DEF Told, Use

\* The steps of the collectors, and those of the sender that do not touch what
\* it was told.
LEMMA OtherStep ==
  ASSUME ResultsInv, UNCHANGED <<control, coordinator, stopped, sender.use>>,
         sender' \in [use : Nat, holds : BOOLEAN]
  PROVE  ResultsInv'
<1>1. Told' = Told
  BY DEF Told
<1>2. ResultsType'
  BY DEF ResultsInv, ResultsType
<1> QED BY <1>1, <1>2 DEF ResultsInv, KeepsNewest, WithdrawnBeforeStop

LEMMA ResultsInvNext ==
  ASSUME ResultsInv, [ResultsNext]_resultsVars
  PROVE  ResultsInv'
<1> USE DEF None
<1>1. ASSUME Send \/ TakeResult \/ HandOverResult
      PROVE  ResultsInv'
  BY <1>1, OtherStep DEF Send, TakeResult, HandOverResult, ResultsInv, ResultsType
<1>2. ASSUME NEW c \in Collectors, WorkerStep(c) \/ CountError(c) \/ HealthPanics(c)
                              \/ HealthEnds(c) \/ HealthTick(c)
      PROVE  ResultsInv'
  <2>1. UNCHANGED <<control, coordinator, stopped, sender>>
    BY <1>2 DEF WorkerStep, Take, Process, ReportError, ProcessPanics, WorkerEnds, WorkerGoes,
                CountError, HealthPanics, HealthEnds, HealthTick, HealthGoes, senderVars
  <2> QED BY <2>1, OtherStep DEF ResultsInv, ResultsType
<1>3. ASSUME NEW c \in Collectors, ReceiveHealth(c)
      PROVE  ResultsInv'
  <2>1. /\ coordinator.pc = "select" /\ UNCHANGED <<control, sender, stopped>>
        /\ coordinator' = [coordinator EXCEPT !.pc = IF errorCount[c] THEN "disable" ELSE "use"]
    BY <1>3 DEF ReceiveHealth, senderVars
  <2>2. Told' = Told
    BY <2>1 DEF Told
  <2> QED BY <2>1, <2>2 DEF ResultsInv, ResultsType, KeepsNewest, WithdrawnBeforeStop
<1>4. ASSUME UseCurrent
      PROVE  ResultsInv'
  <2>1. /\ control' \in Seq(Nat) /\ Told' = coordinator.current
        /\ coordinator' = [coordinator EXCEPT !.pc = "select"]
        /\ UNCHANGED <<sender, stopped>>
    BY <1>4, UseStep DEF UseCurrent, ResultsInv, ResultsType
  <2>2. coordinator.pc = "use"
    BY <1>4 DEF UseCurrent, Use
  <2> QED BY <2>1, <2>2 DEF ResultsInv, ResultsType, KeepsNewest, WithdrawnBeforeStop
<1>5. ASSUME UseNone
      PROVE  ResultsInv'
  <2>1. /\ control' \in Seq(Nat) /\ Told' = None
        /\ coordinator' = [coordinator EXCEPT !.pc = "stop"]
        /\ UNCHANGED <<sender, stopped>>
    BY <1>5, UseStep DEF UseNone, ResultsInv, ResultsType
  <2>2. coordinator.pc = "disable"
    BY <1>5 DEF UseNone, Use
  <2> QED BY <2>1, <2>2 DEF ResultsInv, ResultsType, KeepsNewest, WithdrawnBeforeStop
<1>6. ASSUME Create
      PROVE  ResultsInv'
  <2>1. /\ coordinator.pc = "create" /\ UNCHANGED <<control, sender, stopped>>
        /\ coordinator' = [pc |-> "use", current |-> coordinator.created + 1,
                           created |-> coordinator.created + 1]
    BY <1>6 DEF Create, senderVars
  <2>2. Told' = Told /\ Told = None
    BY <2>1 DEF Told, ResultsInv, WithdrawnBeforeStop
  <2> QED BY <2>1, <2>2 DEF ResultsInv, ResultsType, KeepsNewest, WithdrawnBeforeStop
<1>7. ASSUME Stop
      PROVE  ResultsInv'
  <2>1. /\ coordinator.pc = "stop" /\ UNCHANGED <<control, sender>>
        /\ stopped' = stopped \union {coordinator.current}
        /\ coordinator' = [coordinator EXCEPT !.pc = "create", !.current = None]
    BY <1>7 DEF Stop, senderVars
  <2>2. Told' = Told /\ Told = None
    BY <2>1 DEF Told, ResultsInv, WithdrawnBeforeStop
  <2>3. coordinator.current = coordinator.created /\ coordinator.created \in Nat \ {0}
    BY <2>1 DEF ResultsInv, KeepsNewest
  <2>4. ResultsType'
    <3>1. stopped' \subseteq 1 .. coordinator.created
      BY <2>1, <2>3 DEF ResultsInv, ResultsType
    <3> QED BY <2>1, <3>1 DEF ResultsInv, ResultsType
  <2> QED BY <2>1, <2>2, <2>4 DEF ResultsInv, ResultsType, KeepsNewest, WithdrawnBeforeStop
<1>8. CASE UNCHANGED resultsVars
  BY <1>8, OtherStep DEF resultsVars, senderVars, ResultsInv, ResultsType
<1> QED
  BY <1>1, <1>2, <1>3, <1>4, <1>5, <1>6, <1>7, <1>8, TakeControlStep
     DEF ResultsNext, SenderStep, CoordinatorStep, HealthStep

\* However late the collectors report their health, however many of them are
\* replaced or die in a panic, and however far the sender lags behind: the last
\* it was told is never a stopped collector, it is the coordinator's own
\* whenever that waits for reports, and all the others have been stopped.
THEOREM SenderAlwaysFollows == ResultsSpec => []SenderFollows
<1>1. ResultsInv => SenderFollows
  BY DEF ResultsInv, ResultsType, KeepsNewest, WithdrawnBeforeStop, Told, SenderFollows, None
<1>2. ResultsInit => ResultsInv
  BY ResultsInvInit
<1>3. ResultsInv /\ [ResultsNext]_resultsVars => ResultsInv'
  BY ResultsInvNext
<1> QED BY <1>1, <1>2, <1>3, PTL DEF ResultsSpec

-----------------------------------------------------------------------------
(* The two plans of a search.                                              *)

Ends      == {"ok", "failed", "cancelled"}
PlanReports == [of : Plans, is : Ends \union {"partial"}]
Collected == Ends \union {"partial", "nothing"}

PlansType ==
  /\ search \in [clickhouse : Plans, async : BOOLEAN, keep : BOOLEAN]
  /\ plan \in [Plans -> {"executing", "late", "done"}] /\ asks \subseteq Plans
  /\ call \in [Plans -> {"running"} \union Ends]
  /\ reports \in Seq(PlanReports)
  /\ collector \in [pc : {"waiting", "sent", "timed out"}, main : Collected, alternative : Collected]

\* What a plan may have reported: how its call ended, or a partial answer.
MayReport(s, c, p, is) == is = c[p] \/ (s.async /\ is = "partial")

\* What is in the channel is the one report of a plan that is done.
Reported(s, c, done, has, rs, i) ==
  LET p == rs[i].of
  IN  /\ done[p] = "done" /\ has[p] = "nothing" /\ MayReport(s, c, p, rs[i].is)
      /\ \A j \in 1 .. Len(rs) : rs[j].of = p => j = i

InChannel(s, c, done, has, rs) == \A i \in 1 .. Len(rs) : Reported(s, c, done, has, rs, i)

\* What the collector has is the one report of a plan that is done.
InCollector(s, c, done, has) ==
  \A p \in Plans : has[p] # "nothing" => done[p] = "done" /\ MayReport(s, c, p, has[p])

PlansInv ==
  /\ PlansType
  /\ InChannel(search, call, plan, collector, reports) /\ InCollector(search, call, plan, collector)
  /\ \A p \in asks : search.async
  /\ collector.pc = "sent" => Compared

LEMMA PlansInvInit == PlansInit => PlansInv
<1> SUFFICES ASSUME PlansInit
             PROVE  PlansInv
  OBVIOUS
<1>1. PlansType
  BY DEF PlansInit, PlansType, Collected
<1>2. reports = <<>> /\ Len(reports) = 0
  BY DEF PlansInit
<1>3. \A p \in Plans : collector[p] = "nothing" /\ plan[p] = "executing"
  BY DEF PlansInit, Plans
<1>4. asks = {} /\ collector.pc = "waiting"
  BY DEF PlansInit
<1> QED BY <1>1, <1>2, <1>3, <1>4 DEF PlansInv, InChannel, InCollector

\* The sum of ComparesBoth: two reports in the channel are of both plans.
LEMMA AtMostTwo ==
  ASSUME PlansInv
  PROVE  Len(reports) + (IF collector.main = "nothing" THEN 0 ELSE 1)
           + (IF collector.alternative = "nothing" THEN 0 ELSE 1) <= 2
<1> DEFINE n == Len(reports)
<1>1. n \in Nat /\ \A i \in 1 .. n : reports[i].of \in {"main", "alternative"}
  <2>1. n \in Nat /\ reports \in [1 .. n -> PlanReports]
    BY LenProperties DEF PlansInv, PlansType
  <2>2. \A r \in PlanReports : r.of \in {"main", "alternative"}
    BY DEF PlanReports, Plans
  <2> QED BY <2>1, <2>2
<1>2. \A i, j \in 1 .. n : reports[i].of = reports[j].of => i = j
  BY DEF PlansInv, InChannel, Reported
<1>3. \A i \in 1 .. n : /\ reports[i].of = "main" => collector.main = "nothing"
                        /\ reports[i].of = "alternative" => collector.alternative = "nothing"
  BY DEF PlansInv, InChannel, Reported
<1> HIDE DEF n
<1>4. n < 3
  <2> SUFFICES ASSUME n >= 3
               PROVE  FALSE
    BY <1>1
  <2>1. 1 \in 1 .. n /\ 2 \in 1 .. n /\ 3 \in 1 .. n
    BY <1>1
  <2> QED BY <1>1, <1>2, <2>1
<1>5. CASE n = 2
  <2>1. 1 \in 1 .. n /\ 2 \in 1 .. n
    BY <1>5
  <2>2. reports[1].of # reports[2].of
    BY <1>2, <2>1
  <2>3. collector.main = "nothing" /\ collector.alternative = "nothing"
    BY <1>1, <1>3, <2>1, <2>2
  <2> QED BY <1>5, <2>3 DEF n
<1>6. CASE n = 1
  <2>1. 1 \in 1 .. n
    BY <1>6
  <2>2. collector.main = "nothing" \/ collector.alternative = "nothing"
    BY <1>1, <1>3, <2>1
  <2> QED BY <1>6, <2>2 DEF n
<1>7. CASE n = 0
  BY <1>7 DEF n
<1>8. n = 0 \/ n = 1 \/ n = 2
  BY <1>1, <1>4
<1> QED BY <1>5, <1>6, <1>7, <1>8

LEMMA PlansInvIsEnough == PlansInv => ComparesBoth
<1> SUFFICES ASSUME PlansInv
             PROVE  ComparesBoth
  OBVIOUS
<1>1. ASSUME collector.pc = "sent", NEW p \in Plans
      PROVE  plan[p] = "done" /\ (collector[p] = call[p] \/ (search.async /\ collector[p] = "partial"))
  BY <1>1 DEF PlansInv, InCollector, MayReport, Compared, Plans
<1> QED BY <1>1, AtMostTwo DEF ComparesBoth

\* A plan that is done for the first time reports.
LEMMA ReportStep ==
  ASSUME PlansInv, NEW p \in Plans, plan[p] # "done", NEW is \in Ends \union {"partial"},
         MayReport(search, call, p, is), reports' = Append(reports, [of |-> p, is |-> is]),
         plan' = [plan EXCEPT ![p] = "done"], UNCHANGED <<search, asks, call, collector>>
  PROVE  PlansInv'
<1> DEFINE n == Len(reports)
           new == [of |-> p, is |-> is]
<1>1. PlansType
  BY DEF PlansInv
<1>2. new \in PlanReports
  BY DEF PlanReports
<1>3. /\ n \in Nat /\ reports' \in Seq(PlanReports) /\ Len(reports') = n + 1 /\ reports'[n + 1] = new
      /\ \A i \in 1 .. n : reports'[i] = reports[i] /\ reports[i].of \in Plans
  <2>1. n \in Nat /\ reports \in [1 .. n -> PlanReports]
    BY <1>1, LenProperties DEF PlansType
  <2>2. \A x \in PlanReports : x.of \in Plans
    BY DEF PlanReports
  <2>3. reports \in Seq(PlanReports) /\ reports' = Append(reports, new)
    BY <1>1 DEF PlansType
  <2> HIDE DEF new
  <2> QED BY <1>2, <2>1, <2>2, <2>3, AppendProperties
<1>4. new.of = p /\ new.is = is
  OBVIOUS
<1>5. /\ \A q \in Plans : plan'[q] = IF q = p THEN "done" ELSE plan[q]
      /\ plan' \in [Plans -> {"executing", "late", "done"}]
  BY <1>1 DEF PlansType
<1>6. /\ search' = search /\ asks' = asks /\ call' = call /\ collector' = collector
  OBVIOUS
<1>7. PlansType'
  BY <1>1, <1>3, <1>5, <1>6 DEF PlansType
<1>8. \A i \in 1 .. n : reports[i].of # p
  BY DEF PlansInv, InChannel, Reported
<1>9. collector[p] = "nothing"
  BY DEF PlansInv, InCollector
<1>10. InChannel(search, call, plan', collector, reports')
  <2> HIDE DEF n, new
  <2> SUFFICES ASSUME NEW i \in 1 .. n + 1
               PROVE  Reported(search, call, plan', collector, reports', i)
    BY <1>3 DEF InChannel
  <2>1. CASE i = n + 1
    <3>1. \A j \in 1 .. n + 1 : reports'[j].of = p => j = i
      BY <1>3, <1>8, <2>1
    <3>2. reports'[i] = new /\ plan'[p] = "done"
      BY <1>3, <1>5, <2>1
    <3> QED BY <1>3, <1>4, <1>9, <3>1, <3>2 DEF Reported
  <2>2. CASE i # n + 1
    <3>1. i \in 1 .. n
      BY <1>3, <2>2
    <3> DEFINE q == reports[i].of
    <3>2. /\ q \in Plans /\ q # p /\ plan[q] = "done" /\ collector[q] = "nothing"
          /\ MayReport(search, call, q, reports[i].is) /\ \A j \in 1 .. n : reports[j].of = q => j = i
      BY <1>3, <1>8, <3>1 DEF PlansInv, InChannel, Reported, n
    <3>3. \A j \in 1 .. n + 1 : reports'[j].of = q => j = i
      BY <1>3, <1>4, <3>2
    <3>4. reports'[i] = reports[i] /\ plan'[q] = "done"
      BY <1>3, <1>5, <3>1, <3>2
    <3> QED BY <1>3, <3>2, <3>3, <3>4 DEF Reported
  <2> QED BY <2>1, <2>2
<1>11. InCollector(search, call, plan', collector)
  BY <1>5 DEF PlansInv, InCollector
<1>12. (\A q \in asks : search.async) /\ (collector.pc = "sent" => Compared)
  BY DEF PlansInv
<1> QED BY <1>6, <1>7, <1>10, <1>11, <1>12 DEF PlansInv, Compared

LEMMA ReporterIsPlan ==
  ASSUME PlansType
  PROVE  \A i \in 1 .. Len(reports) : /\ reports[i].of \in Plans /\ reports[i].is \in Collected
                                     /\ reports[i].is # "nothing"
<1>1. reports \in [1 .. Len(reports) -> PlanReports]
  BY LenProperties DEF PlansType
<1>2. \A r \in PlanReports : r.of \in Plans /\ r.is \in Ends \union {"partial"}
  BY DEF PlanReports
<1> QED BY <1>1, <1>2 DEF Collected, Ends

\* Steps that only move a plan that is not done, or leave the plans alone.
LEMMA OtherPlanStep ==
  ASSUME PlansInv, UNCHANGED <<search, call, reports, collector>>, asks' \subseteq Plans,
         \A p \in asks' : search.async,
         plan' \in [Plans -> {"executing", "late", "done"}],
         \A p \in Plans : plan[p] = "done" => plan'[p] = "done"
  PROVE  PlansInv'
<1>1. PlansType'
  BY DEF PlansInv, PlansType
<1>2. InChannel(search, call, plan', collector, reports)
  <2>1. PlansType
    BY DEF PlansInv
  <2> QED BY <2>1, ReporterIsPlan DEF PlansInv, InChannel, Reported
<1>3. InCollector(search, call, plan', collector)
  BY DEF PlansInv, InCollector
<1>4. collector.pc = "sent" => Compared
  BY DEF PlansInv
<1> QED BY <1>1, <1>2, <1>3, <1>4 DEF PlansInv, Compared

\* The call of a plan ends: it has not reported, or a partial answer.
LEMMA CallStep ==
  ASSUME PlansInv, NEW p \in Plans, call[p] = "running", NEW end \in Ends,
         call' = [call EXCEPT ![p] = end],
         UNCHANGED <<search, plan, asks, reports, collector>>
  PROVE  PlansInv'
<1>1. PlansType /\ PlansType'
  BY DEF PlansInv, PlansType
<1>2. \A q \in Plans : \A is \in Collected :
         MayReport(search, call, q, is) => MayReport(search, call', q, is)
  <2>1. "running" \notin Collected
    BY DEF Collected, Ends
  <2> QED BY <1>1, <2>1 DEF PlansType, MayReport
<1>3. InChannel(search, call', plan, collector, reports)
  BY <1>1, <1>2, ReporterIsPlan DEF PlansInv, InChannel, Reported
<1>4. InCollector(search, call', plan, collector)
  <2>1. \A q \in Plans : collector[q] \in Collected
    BY <1>1 DEF PlansType, Plans
  <2> QED BY <1>2, <2>1 DEF PlansInv, InCollector
<1>5. (\A q \in asks : search.async) /\ (collector.pc = "sent" => Compared)
  BY DEF PlansInv
<1> QED BY <1>1, <1>3, <1>4, <1>5 DEF PlansInv, Compared

\* The collector takes the report of a plan it has nothing of.
LEMMA CollectStep ==
  ASSUME PlansInv, CollectReport
  PROVE  PlansInv'
<1> DEFINE n == Len(reports)
           p == reports[1].of
           is == reports[1].is
<1>1. PlansType /\ reports # <<>> /\ ~ Compared
  BY DEF PlansInv, CollectReport
<1>2. /\ n \in Nat \ {0} /\ reports' \in Seq(PlanReports) /\ Len(reports') = n - 1
      /\ \A i \in 1 .. n - 1 : reports'[i] = reports[i + 1]
      /\ Head(reports) = reports[1]
  <2>1. reports' = Tail(reports)
    BY DEF CollectReport
  <2>2. reports \in Seq(PlanReports) /\ n \in Nat /\ n # 0
    BY <1>1, LenProperties, EmptySeq DEF PlansType
  <2> QED BY <1>1, <2>1, <2>2, HeadTailProperties
<1>3. /\ search' = search /\ plan' = plan /\ asks' = asks /\ call' = call
      /\ collector' = [collector EXCEPT ![p] = is]
  BY <1>2 DEF CollectReport
<1>4. 1 \in 1 .. n
  BY <1>2
<1> HIDE DEF n
<1>5. p \in Plans /\ is \in Collected
  BY <1>1, <1>4, ReporterIsPlan DEF n
<1>6. /\ plan[p] = "done" /\ collector[p] = "nothing" /\ MayReport(search, call, p, is)
      /\ \A j \in 1 .. n : reports[j].of = p => j = 1
  BY <1>4 DEF PlansInv, InChannel, Reported, n
<1> HIDE DEF p, is
<1>7. /\ collector' \in [pc : {"waiting", "sent", "timed out"}, main : Collected, alternative : Collected]
      /\ collector'[p] = is /\ collector'.pc = collector.pc
      /\ \A q \in Plans : q # p => collector'[q] = collector[q]
  <2>1. collector \in [pc : {"waiting", "sent", "timed out"}, main : Collected, alternative : Collected]
    BY <1>1 DEF PlansType
  <2>2. CASE p = "main"
    BY <1>3, <1>5, <2>1, <2>2 DEF Plans
  <2>3. CASE p = "alternative"
    BY <1>3, <1>5, <2>1, <2>3 DEF Plans
  <2> QED BY <1>5, <2>2, <2>3 DEF Plans
<1>8. PlansType'
  BY <1>1, <1>2, <1>3, <1>7 DEF PlansType
<1>9. InChannel(search, call, plan, collector', reports')
  <2> SUFFICES ASSUME NEW i \in 1 .. n - 1
               PROVE  Reported(search, call, plan, collector', reports', i)
    BY <1>2 DEF InChannel
  <2>1. i + 1 \in 1 .. n /\ reports'[i] = reports[i + 1]
    BY <1>2
  <2> DEFINE q == reports[i + 1].of
  <2>2. /\ q \in Plans /\ plan[q] = "done" /\ collector[q] = "nothing"
        /\ MayReport(search, call, q, reports[i + 1].is)
        /\ \A j \in 1 .. n : reports[j].of = q => j = i + 1
    BY <1>1, <2>1, ReporterIsPlan DEF PlansInv, InChannel, Reported, n
  <2>3. q # p
    BY <1>2, <1>6, <2>1
  <2>4. collector'[q] = "nothing"
    BY <1>7, <2>2, <2>3
  <2>5. \A j \in 1 .. n - 1 : reports'[j].of = q => j = i
    BY <1>2, <2>2
  <2> QED BY <1>2, <2>1, <2>2, <2>4, <2>5 DEF Reported
<1>10. InCollector(search, call, plan, collector')
  <2> SUFFICES ASSUME NEW q \in Plans, collector'[q] # "nothing"
               PROVE  plan[q] = "done" /\ MayReport(search, call, q, collector'[q])
    BY DEF InCollector
  <2>1. CASE q = p
    BY <1>6, <1>7, <2>1
  <2>2. CASE q # p
    BY <1>7, <2>2 DEF PlansInv, InCollector
  <2> QED BY <2>1, <2>2
<1>11. collector'.pc # "sent"
  BY <1>7 DEF CollectReport
<1>12. \A q \in asks : search.async
  BY DEF PlansInv
<1> QED BY <1>3, <1>8, <1>9, <1>10, <1>11, <1>12 DEF PlansInv

\* The collector ends, with both or without.
LEMMA EndStep ==
  ASSUME PlansInv, NEW pc \in {"sent", "timed out"}, pc = "sent" => Compared,
         collector' = [collector EXCEPT !.pc = pc],
         UNCHANGED <<search, plan, asks, call, reports>>
  PROVE  PlansInv'
<1>1. PlansType
  BY DEF PlansInv
<1>2. /\ collector'.pc = pc /\ collector'.main = collector.main
      /\ collector'.alternative = collector.alternative
      /\ collector' \in [pc : {"waiting", "sent", "timed out"}, main : Collected, alternative : Collected]
  BY <1>1 DEF PlansType
<1>3. PlansType'
  BY <1>1, <1>2 DEF PlansType
<1>4. \A p \in Plans : collector'[p] = collector[p]
  BY <1>2 DEF Plans
<1>5. InChannel(search, call, plan, collector', reports)
  BY <1>1, <1>4, ReporterIsPlan DEF PlansInv, InChannel, Reported
<1>6. InCollector(search, call, plan, collector')
  BY <1>4 DEF PlansInv, InCollector
<1>7. collector'.pc = "sent" => Compared'
  BY <1>2 DEF Compared
<1>8. \A p \in asks : search.async
  BY DEF PlansInv
<1> QED BY <1>3, <1>5, <1>6, <1>7, <1>8 DEF PlansInv

LEMMA PlansInvNext == PlansInv /\ [PlansNext]_planVars => PlansInv'
<1> SUFFICES ASSUME PlansInv, [PlansNext]_planVars
             PROVE  PlansInv'
  OBVIOUS
<1>1. PlansType /\ \A p \in asks : search.async
  BY DEF PlansInv
<1>2. ASSUME NEW p \in Plans, CallEnds(p) \/ CallCancelled(p)
      PROVE  PlansInv'
  <2>1. PICK end \in Ends : call' = [call EXCEPT ![p] = end]
    BY <1>2 DEF CallEnds, CallCancelled, Ends
  <2> QED BY <1>2, <2>1, CallStep DEF CallEnds, CallCancelled
<1>3. ASSUME NEW p \in Plans, TakeSync(p) \/ TakeAsync(p)
      PROVE  PlansInv'
  <2>1. /\ plan[p] # "done" /\ reports' = Append(reports, [of |-> p, is |-> call[p]])
        /\ plan' = [plan EXCEPT ![p] = "done"] /\ UNCHANGED <<search, asks, call, collector>>
        /\ call[p] # "running"
    BY <1>3 DEF TakeSync, TakeAsync, Finishes
  <2>2. call[p] \in Ends \union {"partial"} /\ MayReport(search, call, p, call[p])
    BY <1>1, <2>1 DEF PlansType, MayReport
  <2> QED BY <2>1, <2>2, ReportStep
<1>4. ASSUME NEW p \in Plans, TakeLate(p)
      PROVE  PlansInv'
  <2>1. PICK is \in {call[p]} \union (IF p \in asks THEN {"partial"} ELSE {}) : Finishes(p, is)
    BY <1>4 DEF TakeLate
  <2>2. /\ plan[p] # "done" /\ reports' = Append(reports, [of |-> p, is |-> is])
        /\ plan' = [plan EXCEPT ![p] = "done"] /\ UNCHANGED <<search, asks, call, collector>>
        /\ call[p] # "running"
    BY <1>4, <2>1 DEF TakeLate, Finishes
  <2>3. is \in Ends \union {"partial"} /\ MayReport(search, call, p, is)
    <3>1. CASE is = call[p]
      BY <1>1, <2>2, <3>1 DEF PlansType, MayReport
    <3>2. CASE p \in asks /\ is = "partial"
      BY <1>1, <3>2 DEF MayReport
    <3> QED BY <2>1, <3>1, <3>2
  <2> QED BY <2>2, <2>3, ReportStep
<1>5. ASSUME NEW p \in Plans, TimerFires(p) \/ AnswerPartial(p) \/ GiveUp(p)
      PROVE  PlansInv'
  <2>1. /\ UNCHANGED <<search, call, reports, collector>> /\ asks' \subseteq Plans
        /\ \A q \in asks' : search.async
    BY <1>1, <1>5 DEF PlansType, TimerFires, AnswerPartial, GiveUp
  <2>2. /\ plan' \in [Plans -> {"executing", "late", "done"}]
        /\ \A q \in Plans : plan[q] = "done" => plan'[q] = "done"
    BY <1>1, <1>5 DEF PlansType, TimerFires, AnswerPartial, GiveUp
  <2> QED BY <2>1, <2>2, OtherPlanStep
<1>6. CASE Respond \/ Disconnect \/ Poll \/ UNCHANGED planVars
  <2>1. UNCHANGED <<search, plan, asks, call, reports, collector>>
    BY <1>6 DEF Respond, Disconnect, Poll, planVars
  <2> QED BY <1>1, <2>1, OtherPlanStep DEF PlansType
<1>7. CASE CollectReport
  BY <1>7, CollectStep
<1>8. CASE SendCompared
  BY <1>8, EndStep DEF SendCompared
<1>9. CASE Timeout
  BY <1>9, EndStep DEF Timeout
<1> QED BY <1>2, <1>3, <1>4, <1>5, <1>6, <1>7, <1>8, <1>9 DEF PlansNext, PlanStep, CollectorStep

\* Whichever plan is on ClickHouse, however the calls, the timers, the client and
\* the collector interleave: what is compared is how each of the two plans ended,
\* in its place (or the partial answer of an async search), and there is always
\* room for a plan's report in the channel.
THEOREM BothAreCompared == PlansSpec => []ComparesBoth
BY PlansInvInit, PlansInvNext, PlansInvIsEnough, PTL DEF PlansSpec
-----------------------------------------------------------------------------
(* Of ResponseDiff: numbers.                                               *)

\* A set of numbers that is not empty has a least one: what stands for induction here.
LEMMA LeastNatural ==
  ASSUME NEW T \in SUBSET Nat, T # {}
  PROVE  \E n \in T : \A k \in T : n <= k
<1> DEFINE Less == {p \in Nat \X Nat : p[1] < p[2]}
<1>1. OpToRel(<, Nat) = Less
  BY DEF OpToRel
<1>2. IsWellFoundedOn(Less, Nat)
  BY <1>1, NatLessThanWellFounded
<1> HIDE DEF Less
<1>3. PICK n \in T : \A y \in T : ~ (<<y, n>> \in Less)
  BY <1>2, WFMin
<1>4. \A y \in T : ~ (y < n)
  BY <1>3 DEF Less
<1> QED BY <1>4

-----------------------------------------------------------------------------
(* Paths, as sequences of whatever steps there are.                        *)

IsPath(p) == p \in Seq({p[k] : k \in DOMAIN p})

LEMMA PathIs ==
  ASSUME NEW p, IsPath(p)
  PROVE  Len(p) \in Nat /\ DOMAIN p = 1 .. Len(p)
BY LenProperties DEF IsPath

LEMMA NoStepsIsPath == IsPath(<<>>) /\ Len(<<>>) = 0
BY DEF IsPath

\* The beginning of a path is a path.
LEMMA PrefixIs ==
  ASSUME NEW p, IsPath(p), NEW n \in 0 .. Len(p)
  PROVE  /\ IsPath(Prefix(p, n)) /\ Len(Prefix(p, n)) = n
         /\ \A k \in 1 .. n : Prefix(p, n)[k] = p[k]
         /\ \A k \in 0 .. n : Prefix(Prefix(p, n), k) = Prefix(p, k)
<1> DEFINE S == {p[k] : k \in DOMAIN p}
<1>0. p \in Seq(S) /\ Len(p) \in Nat /\ n \in Nat /\ DOMAIN p = 1 .. Len(p)
  BY PathIs DEF IsPath
<1> DEFINE q == Prefix(p, n)
<1> HIDE DEF S
<1>1. \A k \in 0 .. Len(p) : /\ Prefix(p, k) \in Seq(S) /\ Len(Prefix(p, k)) = k
                              /\ \A j \in 1 .. k : Prefix(p, k)[j] = p[j]
  <2> TAKE k \in 0 .. Len(p)
  <2>1. /\ \A i \in 1 .. k : i \in 1 .. Len(p)
        /\ 1 \in 1 .. Len(p) + 1 /\ k \in 0 .. Len(p)
    BY <1>0
  <2>2. SubSeq(p, 1, k) \in Seq(S)
    BY <1>0, <2>1, SubSeqProperties
  <2>3. Len(SubSeq(p, 1, k)) = k /\ \A j \in 1 .. k : SubSeq(p, 1, k)[j] = p[j]
    BY <1>0, <2>1, SubSeqProperties
  <2> QED BY <2>2, <2>3 DEF Prefix
<1>2. q \in Seq(S) /\ Len(q) = n /\ \A j \in 1 .. n : q[j] = p[j]
  BY <1>1
<1>3. IsPath(q)
  <2>1. DOMAIN q = 1 .. n
    BY <1>2
  <2> HIDE DEF q
  <2>2. q \in Seq({q[k] : k \in DOMAIN q})
    BY <1>0, <1>2, <2>1, SeqDef
  <2> QED BY <2>2 DEF IsPath
<1>4. \A k \in 0 .. n : Prefix(q, k) = Prefix(p, k)
  <2> TAKE k \in 0 .. n
  <2>1. SubSeq(q, 1, k) = [i \in 1 .. k |-> q[i]]
    BY <1>0, <1>2 
  <2>2. SubSeq(p, 1, k) = [i \in 1 .. k |-> p[i]]
    BY <1>0
  <2>3. \A i \in 1 .. k : q[i] = p[i]
    BY <1>2
  <2> QED BY <2>1, <2>2, <2>3 DEF Prefix
<1> QED BY <1>2, <1>3, <1>4

LEMMA WholeIsPrefix ==
  ASSUME NEW p, IsPath(p)
  PROVE  Prefix(p, Len(p)) = p /\ Prefix(p, 0) = <<>>
<1>1. Len(p) \in Nat
  BY PathIs
<1>2. SubSeq(p, 1, Len(p)) = p
  BY <1>1, SeqDef DEF IsPath
<1>3. SubSeq(p, 1, 0) = <<>>
  BY DEF IsPath
<1> QED BY <1>2, <1>3 DEF Prefix

\* A path and a step are a path.
LEMMA AppendIs ==
  ASSUME NEW p, IsPath(p), NEW s
  PROVE  /\ IsPath(Append(p, s)) /\ Len(Append(p, s)) = Len(p) + 1
         /\ Append(p, s)[Len(p) + 1] = s /\ \A k \in 1 .. Len(p) : Append(p, s)[k] = p[k]
         /\ \A k \in 0 .. Len(p) : Prefix(Append(p, s), k) = Prefix(p, k)
<1> DEFINE S == {p[k] : k \in DOMAIN p} \union {s}
           q == Append(p, s)
<1>0. p \in Seq(S) /\ Len(p) \in Nat /\ s \in S
  <2>1. DOMAIN p = 1 .. Len(p) /\ Len(p) \in Nat
    BY PathIs
  <2>2. \A k \in DOMAIN p : p[k] \in S
    OBVIOUS
  <2>3. p = [k \in 1 .. Len(p) |-> p[k]]
    BY <2>1 DEF IsPath
  <2> QED BY <2>1, <2>2, <2>3, SeqDef
<1> HIDE DEF S
<1>1. q \in Seq(S) /\ Len(q) = Len(p) + 1 /\ q[Len(p) + 1] = s /\ \A k \in 1 .. Len(p) : q[k] = p[k]
  BY <1>0, AppendProperties
<1>2. IsPath(q)
  <2>1. DOMAIN q = 1 .. Len(q) /\ Len(q) \in Nat
    BY <1>0, <1>1
  <2> HIDE DEF q
  <2>2. q = [k \in 1 .. Len(q) |-> q[k]]
    BY <1>1, <2>1
  <2> QED BY <2>1, <2>2, SeqDef DEF IsPath
<1>3. \A k \in 0 .. Len(p) : Prefix(q, k) = Prefix(p, k)
  <2> TAKE k \in 0 .. Len(p)
  <2>1. SubSeq(q, 1, k) = [i \in 1 .. k |-> q[i]]
    BY <1>0, <1>1
  <2>2. SubSeq(p, 1, k) = [i \in 1 .. k |-> p[i]]
    BY <1>0
  <2>3. \A i \in 1 .. k : q[i] = p[i]
    BY <1>0, <1>1
  <2> QED BY <2>1, <2>2, <2>3 DEF Prefix
<1> QED BY <1>1, <1>2, <1>3

\* A path that is not empty is its last prefix and a step.
LEMMA LastStep ==
  ASSUME NEW p, IsPath(p), NEW k \in 1 .. Len(p)
  PROVE  Prefix(p, k) = Append(Prefix(p, k - 1), p[k])
<1>1. Len(p) \in Nat /\ k - 1 \in 0 .. Len(p) /\ k \in 0 .. Len(p)
  BY PathIs
<1> DEFINE q == Prefix(p, k - 1)
           a == Append(q, p[k])
<1>2. IsPath(q) /\ Len(q) = k - 1 /\ \A i \in 1 .. k - 1 : q[i] = p[i]
  BY <1>1, PrefixIs
<1>3. IsPath(a) /\ Len(a) = (k - 1) + 1 /\ a[(k - 1) + 1] = p[k] /\ \A i \in 1 .. k - 1 : a[i] = q[i]
  BY <1>2, AppendIs
<1> HIDE DEF a, q
<1>4. IsPath(Prefix(p, k)) /\ Len(Prefix(p, k)) = k /\ \A i \in 1 .. k : Prefix(p, k)[i] = p[i]
  BY <1>1, PrefixIs
<1>5. \A i \in 1 .. k : a[i] = p[i]
  BY <1>1, <1>2, <1>3
<1>6. DOMAIN a = 1 .. k /\ DOMAIN Prefix(p, k) = 1 .. k
  BY <1>1, <1>3, <1>4, PathIs
<1>7. a = [i \in 1 .. k |-> p[i]]
  BY <1>3, <1>5, <1>6 DEF IsPath
<1>8. Prefix(p, k) = [i \in 1 .. k |-> p[i]]
  BY <1>4, <1>6 DEF IsPath
<1> QED BY <1>7, <1>8 DEF a, q

-----------------------------------------------------------------------------
(* The value at a path.                                                    *)

\* The values on the way, down to the k-th step.
IsWalk(at, v, p, k) ==
  at = [n \in 0 .. k |-> IF n = 0 THEN v ELSE Child(at[n - 1], p[n])]

\* The recursive function by which At is defined exists,
LEMMA WalkExists ==
  ASSUME NEW v, NEW p, NEW k \in Nat
  PROVE  \E at : IsWalk(at, v, p, k)
<1> DEFINE bad == {i \in Nat : ~ \E at : IsWalk(at, v, p, i)}
<1> SUFFICES ASSUME bad # {}
             PROVE  FALSE
  OBVIOUS
<1>1. PICK n \in bad : \A i \in bad : n <= i
  <2> HIDE DEF bad
  <2>1. bad \in SUBSET Nat
    BY DEF bad
  <2> QED BY <2>1, LeastNatural
<1>2. CASE n = 0
  <2> DEFINE at == [i \in 0 .. 0 |-> v]
  <2>1. IsWalk(at, v, p, 0)
    BY DEF IsWalk
  <2> QED BY <1>2, <2>1
<1>3. CASE n # 0
  <2>1. n - 1 \in Nat /\ n - 1 \notin bad
    BY <1>1, <1>3
  <2>2. PICK at : IsWalk(at, v, p, n - 1)
    BY <2>1
  <2> DEFINE more == [i \in 0 .. n |-> IF i = n THEN Child(at[n - 1], p[n]) ELSE at[i]]
  <2>3. \A i \in 0 .. (n - 1) : at[i] = IF i = 0 THEN v ELSE Child(at[i - 1], p[i])
    BY <2>1, <2>2 DEF IsWalk
  <2>4. \A i \in 0 .. n : more[i] = IF i = 0 THEN v ELSE Child(more[i - 1], p[i])
    BY <1>3, <2>1, <2>3
  <2>5. IsWalk(more, v, p, n)
    BY <2>4 DEF IsWalk
  <2> QED BY <2>5
<1> QED BY <1>2, <1>3

SameSteps(p, q, m) == \A i \in 1 .. m : p[i] = q[i]

\* and is the same along the steps that two paths share.
LEMMA WalksAgree ==
  ASSUME NEW v, NEW p, NEW q, NEW k \in Nat, NEW l \in Nat, NEW m \in Nat, m <= k, m <= l,
         SameSteps(p, q, m),
         NEW a, IsWalk(a, v, p, k), NEW b, IsWalk(b, v, q, l)
  PROVE  \A i \in 0 .. m : a[i] = b[i]
<1> DEFINE bad == {i \in Nat : i <= m /\ a[i] # b[i]}
<1> SUFFICES ASSUME bad # {}
             PROVE  FALSE
  OBVIOUS
<1>1. PICK n \in bad : \A i \in bad : n <= i
  <2> HIDE DEF bad
  <2>1. bad \in SUBSET Nat
    BY DEF bad
  <2> QED BY <2>1, LeastNatural
<1>2. a[n] = (IF n = 0 THEN v ELSE Child(a[n - 1], p[n]))
  BY DEF IsWalk
<1>3. b[n] = (IF n = 0 THEN v ELSE Child(b[n - 1], q[n]))
  BY DEF IsWalk
<1>4. n # 0 => n - 1 \in Nat /\ n - 1 \notin bad /\ p[n] = q[n]
  BY <1>1 DEF SameSteps
<1> QED BY <1>2, <1>3, <1>4

LEMMA AtIs ==
  ASSUME NEW v, NEW p, Len(p) \in Nat
  PROVE  \E at : IsWalk(at, v, p, Len(p)) /\ At(v, p) = at[Len(p)]
<1> DEFINE at == CHOOSE a : IsWalk(a, v, p, Len(p))
<1>1. IsWalk(at, v, p, Len(p))
  BY WalkExists
<1>2. At(v, p) = at[Len(p)]
  BY DEF At, IsWalk
<1> QED BY <1>1, <1>2

LEMMA AtEmpty ==
  ASSUME NEW v
  PROVE  At(v, <<>>) = v
<1>1. Len(<<>>) = 0
  OBVIOUS
<1>2. PICK at : IsWalk(at, v, <<>>, 0) /\ At(v, <<>>) = at[0]
  BY <1>1, AtIs
<1> QED BY <1>2 DEF IsWalk

\* One step more.
LEMMA AtStep ==
  ASSUME NEW v, NEW p, IsPath(p), NEW k \in 1 .. Len(p)
  PROVE  At(v, Prefix(p, k)) = Child(At(v, Prefix(p, k - 1)), p[k])
<1> DEFINE q == Prefix(p, k)
           r == Prefix(p, k - 1)
<1>1. Len(p) \in Nat /\ k \in 0 .. Len(p) /\ k - 1 \in 0 .. Len(p) /\ k \in Nat /\ k - 1 \in Nat
  BY PathIs
<1>2. Len(q) = k /\ Len(r) = k - 1
  BY <1>1, PrefixIs
<1>3. q[k] = p[k] /\ \A i \in 1 .. k - 1 : r[i] = q[i]
  BY <1>1, PrefixIs
<1> HIDE DEF q, r
<1>4. PICK a : IsWalk(a, v, q, k) /\ At(v, q) = a[k]
  BY <1>1, <1>2, AtIs
<1>5. PICK b : IsWalk(b, v, r, k - 1) /\ At(v, r) = b[k - 1]
  BY <1>1, <1>2, AtIs
<1>6. b[k - 1] = a[k - 1]
  <2>1. PICK m \in Nat : m = k - 1
    BY <1>1
  <2>2. m <= k /\ m <= m /\ m \in 0 .. m /\ IsWalk(b, v, r, m) /\ SameSteps(q, r, m)
    BY <1>1, <1>3, <1>5, <2>1 DEF SameSteps
  <2>3. \A i \in 0 .. m : a[i] = b[i]
    BY <1>1, <1>4, <2>2, WalksAgree
  <2> QED BY <2>1, <2>2, <2>3
<1>7. a[k] = Child(a[k - 1], q[k])
  BY <1>1, <1>4 DEF IsWalk
<1> QED BY <1>3, <1>4, <1>5, <1>6, <1>7 DEF q, r

LEMMA AtAppend ==
  ASSUME NEW v, NEW p, IsPath(p), NEW s
  PROVE  At(v, Append(p, s)) = Child(At(v, p), s)
<1> DEFINE q == Append(p, s)
           n == Len(p) + 1
<1>1. Len(p) \in Nat /\ n \in 1 .. Len(q) /\ n - 1 = Len(p) /\ IsPath(q) /\ Len(q) = n /\ q[n] = s
  BY PathIs, AppendIs
<1>2. Prefix(q, n - 1) = p
  BY <1>1, AppendIs, WholeIsPrefix
<1>3. Prefix(q, n) = q
  BY <1>1, WholeIsPrefix
<1> HIDE DEF n, q
<1>4. At(v, Prefix(q, n)) = Child(At(v, Prefix(q, n - 1)), q[n])
  BY <1>1, AtStep
<1> QED BY <1>1, <1>2, <1>3, <1>4 DEF q

\* Below nil there is nothing.
LEMMA NullStays ==
  ASSUME NEW v, NEW p, IsPath(p), NEW k \in 0 .. Len(p), At(v, Prefix(p, k)) = Null
  PROVE  At(v, p) = Null
<1> DEFINE bad == {i \in Nat : k <= i /\ i <= Len(p) /\ At(v, Prefix(p, i)) # Null}
<1>0. Len(p) \in Nat /\ k \in Nat
  BY PathIs
<1>1. bad = {}
  <2> SUFFICES ASSUME bad # {}
               PROVE  FALSE
    OBVIOUS
  <2>1. PICK n \in bad : \A i \in bad : n <= i
    <3> HIDE DEF bad
    <3>1. bad \in SUBSET Nat
      BY DEF bad
    <3> QED BY <3>1, LeastNatural
  <2>2. n # k /\ n \in 1 .. Len(p) /\ n - 1 \in Nat /\ k <= n - 1 /\ n - 1 <= Len(p)
    BY <1>0, <2>1
  <2>3. n - 1 \notin bad
    BY <2>1, <2>2
  <2>4. At(v, Prefix(p, n - 1)) = Null
    BY <2>2, <2>3
  <2>5. At(v, Prefix(p, n)) = Child(Null, p[n])
    BY <2>2, <2>4, AtStep
  <2>6. Child(Null, p[n]) = Null
    BY DEF Child, Steps, IsObject, Null
  <2> QED BY <2>1, <2>5, <2>6
<1>2. At(v, Prefix(p, Len(p))) = Null
  <2>1. Len(p) \notin bad
    BY <1>1
  <2> QED BY <1>0, <2>1
<1> QED BY <1>2, WholeIsPrefix

-----------------------------------------------------------------------------
(* The paths of a value.                                                   *)

\* Every step is one of the value above it.
Has(v, p) == \A k \in 1 .. Len(p) : p[k] \in Steps(At(v, Prefix(p, k - 1)))

IsLevels(f, v, k) ==
  f = [n \in 0 .. k |->
         IF n = 0 THEN {<<>>}
         ELSE UNION {{Append(p, s) : s \in Steps(At(v, p))} : p \in f[n - 1]}]

\* The recursive function by which Paths is defined exists.
LEMMA LevelsExist ==
  ASSUME NEW v, NEW k \in Nat
  PROVE  \E f : IsLevels(f, v, k)
<1> DEFINE bad == {i \in Nat : ~ \E f : IsLevels(f, v, i)}
           Next(S) == UNION {{Append(p, s) : s \in Steps(At(v, p))} : p \in S}
<1> SUFFICES ASSUME bad # {}
             PROVE  FALSE
  OBVIOUS
<1>1. PICK n \in bad : \A i \in bad : n <= i
  <2> HIDE DEF bad
  <2>1. bad \in SUBSET Nat
    BY DEF bad
  <2> QED BY <2>1, LeastNatural
<1>2. CASE n = 0
  <2> DEFINE f == [i \in 0 .. 0 |-> {<<>>}]
  <2>1. IsLevels(f, v, 0)
    BY DEF IsLevels
  <2> QED BY <1>2, <2>1
<1>3. CASE n # 0
  <2>1. n - 1 \in Nat /\ n - 1 \notin bad
    BY <1>1, <1>3
  <2>2. PICK f : IsLevels(f, v, n - 1)
    BY <2>1
  <2> DEFINE more == [i \in 0 .. n |-> IF i = n THEN Next(f[n - 1]) ELSE f[i]]
  <2>3. \A i \in 0 .. (n - 1) : f[i] = IF i = 0 THEN {<<>>} ELSE Next(f[i - 1])
    BY <2>1, <2>2 DEF IsLevels
  <2>a. more = [j \in 0 .. n |-> more[j]]
    OBVIOUS
  <2> HIDE DEF Next
  <2>4. \A i \in 0 .. n : more[i] = IF i = 0 THEN {<<>>} ELSE Next(more[i - 1])
    BY <1>3, <2>1, <2>3
  <2> HIDE DEF more
  <2>5. more = [i \in 0 .. n |-> IF i = 0 THEN {<<>>} ELSE Next(more[i - 1])]
    BY <2>4, <2>a
  <2>6. IsLevels(more, v, n)
    BY <2>5 DEF IsLevels, Next
  <2> QED BY <2>6
<1> QED BY <1>2, <1>3

\* A path of the n-th level has n steps, each of the value above it.
LEMMA LevelsHave ==
  ASSUME NEW v, NEW k \in Nat, NEW f, IsLevels(f, v, k)
  PROVE  \A n \in 0 .. k : \A p : p \in f[n] <=> IsPath(p) /\ Len(p) = n /\ Has(v, p)
<1> DEFINE Right(n) == \A p : p \in f[n] <=> IsPath(p) /\ Len(p) = n /\ Has(v, p)
           bad == {i \in Nat : i <= k /\ ~ Right(i)}
<1> SUFFICES ASSUME bad # {}
             PROVE  FALSE
  OBVIOUS
<1>1. PICK n \in bad : \A i \in bad : n <= i
  <2> HIDE DEF bad
  <2>1. bad \in SUBSET Nat
    BY DEF bad
  <2> QED BY <2>1, LeastNatural
<1>2. CASE n = 0
  <2>1. f[0] = {<<>>}
    BY DEF IsLevels
  <2>2. \A p : IsPath(p) /\ Len(p) = 0 => p = <<>>
    BY WholeIsPrefix
  <2>3. Has(v, <<>>)
    BY NoStepsIsPath DEF Has
  <2>4. Right(0)
    BY <2>1, <2>2, <2>3, NoStepsIsPath
  <2> QED BY <1>1, <1>2, <2>4
<1>3. CASE n # 0
  <2>1. n - 1 \in Nat /\ n - 1 \notin bad /\ n \in 0 .. k /\ n \in Nat
    BY <1>1, <1>3
  <2>2. Right(n - 1)
    BY <1>1, <2>1
  <2>3. f[n] = UNION {{Append(p, s) : s \in Steps(At(v, p))} : p \in f[n - 1]}
    BY <1>3, <2>1 DEF IsLevels
  <2>4. ASSUME NEW p, p \in f[n]
        PROVE  IsPath(p) /\ Len(p) = n /\ Has(v, p)
    <3>1. PICK q \in f[n - 1] : \E s \in Steps(At(v, q)) : p = Append(q, s)
      BY <2>3, <2>4
    <3>2. PICK s \in Steps(At(v, q)) : p = Append(q, s)
      BY <3>1
    <3>3. IsPath(q) /\ Len(q) = n - 1 /\ Has(v, q)
      BY <2>2
    <3>4. /\ IsPath(p) /\ Len(p) = (n - 1) + 1 /\ p[(n - 1) + 1] = s
          /\ \A i \in 1 .. n - 1 : p[i] = q[i]
          /\ \A i \in 0 .. n - 1 : Prefix(p, i) = Prefix(q, i)
      BY <3>2, <3>3, AppendIs
    <3>5. Prefix(p, n - 1) = q
      BY <2>1, <3>3, <3>4, WholeIsPrefix
    <3>6. \A i \in 1 .. n : p[i] \in Steps(At(v, Prefix(p, i - 1)))
      <4> TAKE i \in 1 .. n
      <4>1. CASE i = n
        BY <2>1, <3>2, <3>4, <3>5, <4>1
      <4>2. CASE i # n
        <5>1. i \in 1 .. n - 1 /\ i - 1 \in 0 .. n - 1
          BY <2>1, <4>2
        <5>2. q[i] \in Steps(At(v, Prefix(q, i - 1)))
          BY <3>3, <5>1 DEF Has
        <5> QED BY <3>4, <5>1, <5>2
      <4> QED BY <4>1, <4>2
    <3> QED BY <2>1, <3>4, <3>6 DEF Has
  <2>5. ASSUME NEW p, IsPath(p), Len(p) = n, Has(v, p)
        PROVE  p \in f[n]
    <3> DEFINE q == Prefix(p, n - 1)
    <3>1. n \in 1 .. Len(p) /\ n - 1 \in 0 .. Len(p)
      BY <1>3, <2>1, <2>5
    <3>2. p = Append(q, p[n])
      BY <2>5, <3>1, LastStep, WholeIsPrefix
    <3>3. p[n] \in Steps(At(v, q))
      BY <2>5, <3>1 DEF Has
    <3>4. /\ IsPath(q) /\ Len(q) = n - 1 /\ \A i \in 1 .. n - 1 : q[i] = p[i]
          /\ \A i \in 0 .. n - 1 : Prefix(q, i) = Prefix(p, i)
      BY <2>5, <3>1, PrefixIs
    <3> HIDE DEF q
    <3>5. \A i \in 1 .. n - 1 : q[i] \in Steps(At(v, Prefix(q, i - 1)))
      <4> TAKE i \in 1 .. n - 1
      <4>1. i \in 1 .. Len(p) /\ i - 1 \in 0 .. n - 1
        BY <2>1, <2>5
      <4>2. p[i] \in Steps(At(v, Prefix(p, i - 1)))
        BY <2>5, <4>1 DEF Has
      <4> QED BY <3>4, <4>1, <4>2
    <3>6. q \in f[n - 1]
      BY <2>2, <3>4, <3>5 DEF Has
    <3> QED BY <2>3, <3>2, <3>3, <3>6
  <2>6. Right(n)
    BY <2>4, <2>5
  <2> QED BY <1>1, <2>6
<1> QED BY <1>2, <1>3

\* Paths are all sequences of steps that are not longer than values are deep.
LEMMA PathsAre ==
  ASSUME NEW v, NEW p, MaxNesting \in Nat
  PROVE  p \in Paths(v) <=> IsPath(p) /\ Len(p) <= MaxNesting /\ Has(v, p)
<1> DEFINE f == CHOOSE g : IsLevels(g, v, MaxNesting)
<1>1. IsLevels(f, v, MaxNesting)
  BY LevelsExist
<1>2. Paths(v) = UNION {f[n] : n \in 0 .. MaxNesting}
  BY DEF Paths, IsLevels
<1>3. \A n \in 0 .. MaxNesting : p \in f[n] <=> IsPath(p) /\ Len(p) = n /\ Has(v, p)
  <2> HIDE DEF f
  <2> QED BY <1>1, LevelsHave
<1>4. IsPath(p) /\ Len(p) <= MaxNesting => Len(p) \in 0 .. MaxNesting
  BY PathIs
<1> QED BY <1>2, <1>3, <1>4

-----------------------------------------------------------------------------
(* The responses.                                                          *)

IsArray(elems) == elems \in Seq({elems[i] : i \in DOMAIN elems})

Typed(v) == v.is = "list" => IsArray(v.elems)

\* What is below a response is a value that much less nested.
LEMMA ValuesBelow ==
  ASSUME NEW v \in Values[MaxNesting], NEW p, IsPath(p), Has(v, p)
  PROVE  Len(p) <= MaxNesting /\ At(v, p) \in Values[MaxNesting - Len(p)]
<1> DEFINE Right(k) == k <= MaxNesting /\ At(v, Prefix(p, k)) \in Values[MaxNesting - k]
           bad == {k \in Nat : k <= Len(p) /\ ~ Right(k)}
<1>0. Len(p) \in Nat /\ MaxNesting \in Nat
  BY PathIs, ResponseDiffAssumption
<1>1. bad = {}
  <2> SUFFICES ASSUME bad # {}
               PROVE  FALSE
    OBVIOUS
  <2>1. PICK n \in bad : \A i \in bad : n <= i
    <3> HIDE DEF bad
    <3>1. bad \in SUBSET Nat
      BY DEF bad
    <3> QED BY <3>1, LeastNatural
  <2>2. CASE n = 0
    <3>1. At(v, Prefix(p, 0)) = v
      BY WholeIsPrefix, AtEmpty
    <3> QED BY <1>0, <2>1, <2>2, <3>1
  <2>3. CASE n # 0
    <3>1. n - 1 \in Nat /\ n - 1 \notin bad /\ n \in 1 .. Len(p) /\ n - 1 <= Len(p)
      BY <1>0, <2>1, <2>3
    <3>2. Right(n - 1)
      BY <3>1
    <3> DEFINE w == At(v, Prefix(p, n - 1))
               m == MaxNesting - (n - 1)
    <3>3. w \in Values[m] /\ m \in 0 .. MaxNesting
      BY <1>0, <3>1, <3>2
    <3>4. p[n] \in Steps(w)
      BY <3>1 DEF Has
    <3>5. At(v, Prefix(p, n)) = Child(w, p[n])
      BY <3>1, AtStep
    <3> HIDE DEF w, m
    <3>6. m > 0 /\ Child(w, p[n]) \in Values[m - 1]
      BY <3>3, <3>4, ResponseDiffAssumption
    <3>7. m - 1 = MaxNesting - n /\ (m > 0 => n <= MaxNesting)
      BY <1>0, <3>1 DEF m
    <3> QED BY <2>1, <3>5, <3>6, <3>7
  <2> QED BY <2>2, <2>3
<1>2. Right(Len(p))
  <2>1. Len(p) \notin bad
    BY <1>1
  <2> HIDE DEF Right
  <2> QED BY <1>0, <2>1
<1> QED BY <1>2, WholeIsPrefix

\* Of a response every path is among Paths.
LEMMA PathsOfResponse ==
  ASSUME NEW v \in Values[MaxNesting], NEW p
  PROVE  p \in Paths(v) <=> IsPath(p) /\ Has(v, p)
BY PathsAre, ValuesBelow, ResponseDiffAssumption

\* At any path, existing or not, there is nil or a value.
LEMMA AtIsTyped ==
  ASSUME NEW v \in Values[MaxNesting], NEW p, IsPath(p)
  PROVE  Typed(At(v, p))
<1> DEFINE Fine(w) == w = Null \/ \E m \in 0 .. MaxNesting : w \in Values[m]
           bad == {k \in Nat : k <= Len(p) /\ ~ Fine(At(v, Prefix(p, k)))}
<1>0. Len(p) \in Nat /\ MaxNesting \in Nat
  BY PathIs, ResponseDiffAssumption
<1>a. Fine(v)
  BY <1>0
<1>b. ASSUME NEW w, Fine(w), NEW s
      PROVE  Fine(Child(w, s))
  <2>1. CASE s \notin Steps(w)
    BY <2>1 DEF Child
  <2>2. CASE s \in Steps(w)
    <3>1. w # Null
      BY <2>2 DEF Steps, IsObject, Null
    <3>2. PICK m \in 0 .. MaxNesting : w \in Values[m]
      BY <1>b, <3>1
    <3>3. m > 0 /\ Child(w, s) \in Values[m - 1]
      BY <2>2, <3>2, ResponseDiffAssumption
    <3>4. m - 1 \in 0 .. MaxNesting
      BY <1>0, <3>3
    <3> QED BY <3>3, <3>4
  <2> QED BY <2>1, <2>2
<1> HIDE DEF Fine
<1>1. bad = {}
  <2> SUFFICES ASSUME bad # {}
               PROVE  FALSE
    OBVIOUS
  <2>1. PICK n \in bad : \A i \in bad : n <= i
    <3> HIDE DEF bad
    <3>1. bad \in SUBSET Nat
      BY DEF bad
    <3> QED BY <3>1, LeastNatural
  <2>2. n # 0
    BY <1>a, <2>1, WholeIsPrefix, AtEmpty
  <2>3. n - 1 \in Nat /\ n - 1 \notin bad /\ n \in 1 .. Len(p) /\ n - 1 <= Len(p)
    BY <1>0, <2>1, <2>2
  <2>4. Fine(At(v, Prefix(p, n - 1)))
    BY <2>3
  <2>5. Fine(At(v, Prefix(p, n)))
    BY <1>b, <2>3, <2>4, AtStep
  <2> QED BY <2>1, <2>5
<1>2. Fine(At(v, p))
  <2>1. Len(p) \notin bad
    BY <1>1
  <2> QED BY <1>0, <2>1, WholeIsPrefix
<1>3. ASSUME NEW w, Fine(w)
      PROVE  Typed(w)
  BY <1>3, ResponseDiffAssumption DEF Fine, Typed, IsArray, Null
<1> QED BY <1>2, <1>3

\* A response without its wrapper is a value, too.
LEMMA UnifiedIsResponse ==
  ASSUME NEW r \in Reports
  PROVE  Unified(r).a.body \in Values[MaxNesting] /\ Unified(r).b.body \in Values[MaxNesting]
<1> DEFINE OneAnswer == [error : BOOLEAN, body : Values[MaxNesting]]
<1>0. MaxNesting \in Nat /\ r \in [a : OneAnswer, b : OneAnswer, opaque : OpaqueIds]
  BY ResponseDiffAssumption
<1>1. ASSUME NEW v \in Values[MaxNesting], IsObject(v)
      PROVE  Unwrapped(v) \in Values[MaxNesting]
  <2>1. CASE "response" \in DOMAIN v.fields
    <3>1. "response" \in Steps(v) /\ Child(v, "response") = v.fields["response"]
      BY <1>1, <2>1 DEF Steps, Child
    <3>a. MaxNesting \in 0 .. MaxNesting
      BY <1>0
    <3>2. MaxNesting > 0 /\ Child(v, "response") \in Values[MaxNesting - 1]
      BY <1>1, <3>a, <3>1, ResponseDiffAssumption
    <3>3. Values[MaxNesting - 1] \subseteq Values[MaxNesting]
      BY <1>0, <3>2, ResponseDiffAssumption
    <3> QED BY <2>1, <3>1, <3>2, <3>3 DEF Unwrapped
  <2>2. CASE "response" \notin DOMAIN v.fields
    BY <2>2 DEF Unwrapped
  <2> QED BY <2>1, <2>2
<1> QED BY <1>0, <1>1 DEF Unified

-----------------------------------------------------------------------------
(* What compare adds itself, and what differs.                             *)

LEMMA ArrayIs ==
  ASSUME NEW elems, IsArray(elems)
  PROVE  Len(elems) \in Nat /\ DOMAIN elems = 1 .. Len(elems)
BY LenProperties DEF IsArray

\* Lengths that differ are said to differ.
LEMMA LengthsDiffer ==
  ASSUME NEW xs, NEW ys, IsArray(xs), IsArray(ys)
  PROVE  LengthMismatch(xs, ys) # {} <=> Len(xs) # Len(ys)
<1>1. Len(xs) \in Nat /\ Len(ys) \in Nat
  BY ArrayIs
<1> DEFINE d == Distance(Len(xs), Len(ys))
<1>2. d \in Nat /\ (d = 0 <=> Len(xs) = Len(ys))
  BY <1>1 DEF Distance
<1> HIDE DEF d
<1>3. d > 1 \/ d = 1 \/ d = 0
  BY <1>2
<1>4. LengthMismatch(xs, ys) =
        CASE d > 1 -> {"invalid_array_length"}
          [] d = 1 -> {"invalid_array_length_off_by_one"}
          [] OTHER -> {}
  BY DEF LengthMismatch, d
<1>5. CASE d > 1
  BY <1>2, <1>4, <1>5
<1>6. CASE d = 1
  BY <1>2, <1>4, <1>6
<1>7. CASE d = 0
  <2>1. LengthMismatch(xs, ys) = {}
    BY <1>4, <1>7
  <2> QED BY <1>2, <1>7, <2>1
<1> QED BY <1>3, <1>5, <1>6, <1>7

\* Keys that are all different are as many as the elements.
LEMMA KeysAreAsMany ==
  ASSUME NEW xs, IsArray(xs), HaveKeys(xs)
  PROVE  Cardinality(KeySet(xs)) = Len(xs)
<1> DEFINE f == KeysOf(xs)
           S == 1 .. Len(xs)
<1>1. Len(xs) \in Nat /\ DOMAIN xs = S
  BY ArrayIs
<1>2. f = [i \in S |-> AsKey(xs[i].fields["key"])]
  BY <1>1 DEF KeysOf
<1>3. KeySet(xs) = {f[i] : i \in S}
  BY <1>1 DEF KeySet
<1>4. \A i, j \in S : f[i] = f[j] => i = j
  BY <1>1, <1>2 DEF HaveKeys
<1> HIDE DEF f
<1>5. f \in Bijection(S, KeySet(xs))
  BY <1>2, <1>3, <1>4 DEF Bijection, Injection, Surjection, IsInjective
<1>6. IsFiniteSet(S) /\ Cardinality(S) = Len(xs)
  <2>1. PICK n \in Nat : n = Len(xs)
    BY <1>1
  <2>2. 1 \in Int /\ n \in Int
    OBVIOUS
  <2>3. IsFiniteSet(1 .. n) /\ Cardinality(1 .. n) = IF 1 > n THEN 0 ELSE n - 1 + 1
    BY <2>2, FS_Interval
  <2>4. (IF 1 > n THEN 0 ELSE n - 1 + 1) = n
    BY <2>1
  <2> QED BY <2>1, <2>3, <2>4
<1> QED BY <1>5, <1>6, FS_Bijection DEF ExistsBijection

\* What is wrong with keys is that they differ, or that their order does.
LEMMA KeysDiffer ==
  ASSUME NEW xs, NEW ys, IsArray(xs), IsArray(ys), xs # <<>>, KeyMismatch(xs, ys) # {}
  PROVE  HaveKeys(xs) /\ HaveKeys(ys) /\ KeysOf(xs) # KeysOf(ys)
<1> DEFINE common == KeySet(xs) \intersect KeySet(ys)
<1>1. HaveKeys(xs) /\ HaveKeys(ys)
  BY DEF KeyMismatch
<1>2. SUFFICES ASSUME KeysOf(xs) = KeysOf(ys)
               PROVE  FALSE
  BY <1>1
<1>3. KeySet(xs) = KeySet(ys)
  <2>1. DOMAIN KeysOf(xs) = DOMAIN xs /\ DOMAIN KeysOf(ys) = DOMAIN ys
    BY DEF KeysOf
  <2> QED BY <1>2, <2>1 DEF KeySet
<1>4. common = KeySet(xs)
  BY <1>3
<1>5. Cardinality(common) = Len(xs)
  BY <1>1, <1>4, KeysAreAsMany
<1>6. common # {}
  <2>1. Len(xs) \in Nat /\ DOMAIN xs = 1 .. Len(xs)
    BY ArrayIs
  <2>2. Len(xs) # 0
    BY <2>1, EmptySeq DEF IsArray
  <2>3. 1 \in DOMAIN xs
    BY <2>1, <2>2
  <2> QED BY <1>4, <2>3 DEF KeySet
<1> HIDE DEF common
<1>7. KeyMismatch(xs, ys) = {}
  BY <1>1, <1>2, <1>5, <1>6 DEF KeyMismatch, common
<1> QED BY <1>7

\* Kinds are compared first, and of these kinds nothing else is.
LEMMA ScalarsOfOneKind ==
  ASSUME NEW x, NEW y
  PROVE  /\ x.is # y.is => ScalarMismatch(x, y) = {"invalid_type"}
         /\ x.is = y.is /\ x.is \in {"object", "list", "null"} => ScalarMismatch(x, y) = {}
<1>1. CASE x.is # y.is
  BY <1>1 DEF ScalarMismatch
<1>2. CASE x.is = y.is /\ x.is \in {"object", "list", "null"}
  BY <1>2 DEF ScalarMismatch
<1> QED BY <1>1, <1>2

\* What is wrong is a difference, or keys in another order.
LEMMA MismatchIsDifference ==
  ASSUME NEW path, NEW x, NEW y, Typed(x), Typed(y), TypesOf(path, x, y) # {}
  PROVE  Different(x, y) \/ OtherKeys(x, y)
<1>1. CASE x = Null \/ y = Null
  <2>1. x # y
    BY <1>1 DEF TypesOf
  <2>2. (x = Null) # (y = Null)
    BY <1>1, <2>1
  <2> QED BY <2>2 DEF Different
<1>2. CASE ~(x = Null \/ y = Null) /\ IsObject(x) /\ IsObject(y)
  BY <1>2 DEF TypesOf, ObjectMismatch, Different
<1>3. CASE /\ ~(x = Null \/ y = Null) /\ ~(IsObject(x) /\ IsObject(y))
           /\ x.is = "list" /\ y.is = "list"
  <2>1. IsArray(x.elems) /\ IsArray(y.elems)
    BY <1>3 DEF Typed
  <2>2. ArrayMismatch(path, x.elems, y.elems) # {}
    BY <1>3 DEF TypesOf
  <2>3. CASE Len(x.elems) # Len(y.elems)
    BY <1>3, <2>3 DEF Different
  <2>4. CASE Len(x.elems) = Len(y.elems)
    <3>1. x.elems # <<>> /\ KeyMismatch(x.elems, y.elems) # {}
      BY <2>1, <2>2, <2>4, LengthsDiffer DEF ArrayMismatch
    <3> QED BY <1>3, <2>1, <3>1, KeysDiffer DEF OtherKeys
  <2> QED BY <2>3, <2>4
<1>4. CASE /\ ~(x = Null \/ y = Null) /\ ~(IsObject(x) /\ IsObject(y))
           /\ ~(x.is = "list" /\ y.is = "list")
  BY <1>4 DEF TypesOf, Different
<1> QED BY <1>1, <1>2, <1>3, <1>4

\* What is different is found to be.
LEMMA DifferenceIsMismatch ==
  ASSUME NEW path, NEW x, NEW y, Typed(x), Typed(y), Different(x, y)
  PROVE  TypesOf(path, x, y) # {}
<1>0. Null.is = "null"
  BY DEF Null
<1>1. CASE x = Null \/ y = Null
  <2>1. x # y
    <3> SUFFICES ASSUME x = y
                 PROVE  FALSE
      OBVIOUS
    <3>1. x = Null /\ y = Null /\ x.is = "null" /\ y.is = "null"
      BY <1>0, <1>1
    <3>2. ScalarMismatch(x, y) = {}
      BY <3>1, ScalarsOfOneKind
    <3> QED BY <3>1, <3>2 DEF Different, IsObject
  <2> QED BY <1>1, <2>1 DEF TypesOf
<1>2. CASE ~(x = Null \/ y = Null) /\ IsObject(x) /\ IsObject(y)
  <2>1. ScalarMismatch(x, y) = {} /\ x.is = y.is /\ x.is # "list"
    BY <1>2, ScalarsOfOneKind DEF IsObject
  <2>2. DOMAIN x.fields \intersect DOMAIN y.fields = {}
    BY <1>2, <2>1 DEF Different
  <2> QED BY <1>2, <2>2 DEF TypesOf, ObjectMismatch
<1>3. CASE /\ ~(x = Null \/ y = Null) /\ ~(IsObject(x) /\ IsObject(y))
           /\ x.is = "list" /\ y.is = "list"
  <2>1. IsArray(x.elems) /\ IsArray(y.elems)
    BY <1>3 DEF Typed
  <2>2. ScalarMismatch(x, y) = {}
    BY <1>3, ScalarsOfOneKind
  <2>3. Len(x.elems) # Len(y.elems)
    BY <1>3, <2>2 DEF Different
  <2>4. LengthMismatch(x.elems, y.elems) # {}
    BY <2>1, <2>3, LengthsDiffer
  <2> QED BY <1>3, <2>4 DEF TypesOf, ArrayMismatch
<1>4. CASE /\ ~(x = Null \/ y = Null) /\ ~(IsObject(x) /\ IsObject(y))
           /\ ~(x.is = "list" /\ y.is = "list")
  <2>1. ScalarMismatch(x, y) # {}
    <3>1. CASE x.is # y.is
      BY <3>1, ScalarsOfOneKind
    <3>2. CASE x.is = y.is
      BY <1>4, <3>2 DEF Different
    <3> QED BY <3>1, <3>2
  <2> QED BY <1>4, <2>1 DEF TypesOf
<1> QED BY <1>1, <1>2, <1>3, <1>4

-----------------------------------------------------------------------------
(* What is found, for the log of results.                                  *)

Counted(p) == \A k \in 0 .. Len(p) : ~Ignored(Prefix(p, k))

\* A path that begins with a path of a value and ends early is one, too.
LEMMA HasPrefix ==
  ASSUME NEW v, NEW p, IsPath(p), Has(v, p), NEW n \in 0 .. Len(p)
  PROVE  Has(v, Prefix(p, n))
<1> DEFINE q == Prefix(p, n)
<1>1. Len(p) \in Nat /\ Len(q) = n /\ n \in Nat
  BY PathIs, PrefixIs
<1>2. (\A k \in 1 .. n : q[k] = p[k]) /\ \A k \in 0 .. n : Prefix(q, k) = Prefix(p, k)
  BY PrefixIs
<1> HIDE DEF q
<1>3. ASSUME NEW k \in 1 .. n
      PROVE  q[k] \in Steps(At(v, Prefix(q, k - 1)))
  <2>1. k \in 1 .. Len(p) /\ k - 1 \in 0 .. n
    BY <1>1
  <2>2. p[k] \in Steps(At(v, Prefix(p, k - 1)))
    BY <2>1 DEF Has
  <2> QED BY <1>2, <2>1, <2>2
<1> QED BY <1>1, <1>3 DEF Has, q

\* Whatever is compared and not ignored is not below anything ignored.
LEMMA ComparedCounts ==
  ASSUME NEW x \in Values[MaxNesting], NEW y \in Values[MaxNesting],
         NEW p \in ComparedAt(x, y), ~Ignored(p)
  PROVE  IsPath(p) /\ Counted(p)
<1>1. IsPath(p)
  BY PathsOfResponse DEF ComparedAt
<1>2. Len(p) \in Nat
  BY <1>1, PathIs
<1>3. ASSUME NEW k \in 0 .. Len(p)
      PROVE  ~Ignored(Prefix(p, k))
  <2>1. CASE k = Len(p)
    BY <1>1, <2>1, WholeIsPrefix
  <2>2. CASE k # Len(p)
    <3>1. k + 1 \in 1 .. Len(p) /\ (k + 1) - 1 = k
      BY <1>2, <2>2
    <3> DEFINE q == Prefix(p, k)
    <3>2. p[k + 1] \in GoesInto(q, At(x, q), At(y, q))
      BY <3>1 DEF ComparedAt
    <3> QED BY <3>2 DEF GoesInto
  <2> QED BY <2>1, <2>2
<1> QED BY <1>1, <1>3 DEF Counted

\* A difference that counts is found, or something is wrong above it.
LEMMA DifferenceIsCompared ==
  ASSUME NEW x \in Values[MaxNesting], NEW y \in Values[MaxNesting],
         NEW p \in Paths(x) \union Paths(y), Counted(p), Different(At(x, p), At(y, p))
  PROVE  \E k \in 0 .. Len(p) :
           LET q == Prefix(p, k) IN q \in ComparedAt(x, y) /\ TypesOf(q, At(x, q), At(y, q)) # {}
<1>1. IsPath(p) /\ (Has(x, p) \/ Has(y, p))
  BY PathsOfResponse
<1>2. Len(p) \in Nat
  BY <1>1, PathIs
<1> DEFINE bad == {k \in Nat : k <= Len(p) /\ Prefix(p, k) \notin ComparedAt(x, y)}
<1>3. CASE bad = {}
  <2>1. Len(p) \in 0 .. Len(p) /\ Len(p) \notin bad
    BY <1>2, <1>3
  <2>2. Prefix(p, Len(p)) = p
    BY <1>1, WholeIsPrefix
  <2>3. p \in ComparedAt(x, y)
    BY <1>2, <2>1, <2>2
  <2>4. Typed(At(x, p)) /\ Typed(At(y, p))
    BY <1>1, AtIsTyped
  <2>5. TypesOf(p, At(x, p), At(y, p)) # {}
    BY <2>4, DifferenceIsMismatch
  <2> QED BY <2>1, <2>2, <2>3, <2>5
<1>4. CASE bad # {}
  <2>1. PICK n \in bad : \A i \in bad : n <= i
    <3> HIDE DEF bad
    <3>1. bad \in SUBSET Nat
      BY DEF bad
    <3> QED BY <1>4, <3>1, LeastNatural
  <2> DEFINE q == Prefix(p, n)
             r == Prefix(p, n - 1)
  <2>2. n \in 0 .. Len(p) /\ n \in Nat
    BY <1>2, <2>1
  <2>3. /\ IsPath(q) /\ Len(q) = n /\ (\A k \in 1 .. n : q[k] = p[k])
        /\ \A k \in 0 .. n : Prefix(q, k) = Prefix(p, k)
    BY <1>1, <2>2, PrefixIs
  <2>4. q \in Paths(x) \union Paths(y)
    <3>1. Has(x, q) \/ Has(y, q)
      BY <1>1, <2>2, HasPrefix
    <3> QED BY <2>3, <3>1, PathsOfResponse
  <2>5. n # 0
    <3> SUFFICES ASSUME n = 0
                 PROVE  q \in ComparedAt(x, y)
      BY <2>1
    <3> QED BY <2>3, <2>4 DEF ComparedAt
  <2>6. n - 1 \in Nat /\ n - 1 <= Len(p) /\ n - 1 \notin bad /\ n - 1 \in 0 .. Len(p)
        /\ n \in 1 .. Len(p)
    BY <1>2, <2>1, <2>2, <2>5
  <2>7. r \in ComparedAt(x, y)
    BY <2>6
  <2>8. /\ Len(r) = n - 1 /\ (\A k \in 1 .. n - 1 : r[k] = p[k])
        /\ \A k \in 0 .. n - 1 : Prefix(r, k) = Prefix(p, k)
    BY <1>1, <2>6, PrefixIs
  <2>9. p[n] \notin GoesInto(r, At(x, r), At(y, r))
    <3> SUFFICES ASSUME p[n] \in GoesInto(r, At(x, r), At(y, r))
                 PROVE  q \in ComparedAt(x, y)
      BY <2>1
    <3> HIDE DEF q, r
    <3>1. ASSUME NEW k \in 1 .. n
          PROVE  LET above == Prefix(q, k - 1)
                 IN  q[k] \in GoesInto(above, At(x, above), At(y, above))
      <4>0. k - 1 \in 0 .. n
        BY <2>2
      <4>1. q[k] = p[k] /\ Prefix(q, k - 1) = Prefix(p, k - 1)
        BY <2>3, <4>0
      <4>2. CASE k = n
        BY <4>1, <4>2 DEF r
      <4>3. CASE k # n
        <5>1. k \in 1 .. n - 1 /\ k - 1 \in 0 .. n - 1
          BY <2>2, <4>3
        <5>2. r[k] = p[k] /\ Prefix(r, k - 1) = Prefix(p, k - 1)
          BY <2>8, <5>1
        <5>3. r[k] \in GoesInto(Prefix(r, k - 1), At(x, Prefix(r, k - 1)), At(y, Prefix(r, k - 1)))
          BY <2>7, <2>8, <5>1 DEF ComparedAt
        <5> QED BY <4>1, <5>2, <5>3
      <4> QED BY <4>2, <4>3
    <3> QED BY <2>3, <2>4, <3>1 DEF ComparedAt
  <2>10. p[n] \in Steps(At(x, r)) \union Steps(At(y, r))
    BY <1>1, <2>6 DEF Has
  <2>11. ~Ignored(r)
    BY <2>6 DEF Counted
  <2>12. TypesOf(r, At(x, r), At(y, r)) # {}
    <3> HIDE DEF r
    <3> QED BY <2>9, <2>10, <2>11 DEF GoesInto
  <2> QED BY <2>6, <2>7, <2>12
<1> QED BY <1>3, <1>4

\* Prefix is meant as IsPrefix.
LEMMA PrefixIsPrefix ==
  ASSUME NEW p, IsPath(p), NEW k \in 0 .. Len(p)
  PROVE  IsPrefix(Prefix(p, k), p)
<1>1. Len(p) \in Nat /\ Len(Prefix(p, k)) = k
  BY PathIs, PrefixIs
<1>2. Prefix(Prefix(p, k), k) = Prefix(p, k)
  BY <1>1, PrefixIs
<1>3. k <= Len(p)
  BY <1>1
<1> QED BY <1>1, <1>2, <1>3 DEF IsPrefix, Prefix

\* What Diff finds, of two responses.
LEMMA DiffIsRight ==
  ASSUME NEW x \in Values[MaxNesting], NEW y \in Values[MaxNesting]
  PROVE  /\ \A m \in Diff(x, y) :
              /\ Counted(m.path)
              /\ \/ Different(At(x, m.path), At(y, m.path))
                 \/ OtherKeys(At(x, m.path), At(y, m.path))
         /\ \A p \in Paths(x) \union Paths(y) :
              Counted(p) /\ Different(At(x, p), At(y, p))
                => \E m \in Diff(x, y) : IsPrefix(m.path, p)
<1>1. ASSUME NEW m \in Diff(x, y)
      PROVE  /\ Counted(m.path)
             /\ \/ Different(At(x, m.path), At(y, m.path))
                \/ OtherKeys(At(x, m.path), At(y, m.path))
  <2>1. PICK p \in ComparedAt(x, y) : ~Ignored(p) /\ m \in Mismatch(p, TypesOf(p, At(x, p), At(y, p)))
    BY DEF Diff
  <2>2. m.path = p /\ TypesOf(p, At(x, p), At(y, p)) # {}
    BY <2>1 DEF Mismatch
  <2>3. IsPath(p) /\ Counted(p)
    BY <2>1, ComparedCounts
  <2>4. Typed(At(x, p)) /\ Typed(At(y, p))
    BY <2>3, AtIsTyped
  <2> QED BY <2>2, <2>3, <2>4, MismatchIsDifference
<1>2. ASSUME NEW p \in Paths(x) \union Paths(y), Counted(p), Different(At(x, p), At(y, p))
      PROVE  \E m \in Diff(x, y) : IsPrefix(m.path, p)
  <2>1. PICK k \in 0 .. Len(p) :
          Prefix(p, k) \in ComparedAt(x, y)
            /\ TypesOf(Prefix(p, k), At(x, Prefix(p, k)), At(y, Prefix(p, k))) # {}
    BY <1>2, DifferenceIsCompared
  <2> DEFINE q == Prefix(p, k)
  <2>2. PICK t \in TypesOf(q, At(x, q), At(y, q)) : TRUE
    BY <2>1
  <2>3. IsPath(p)
    BY PathsOfResponse
  <2>4. ~Ignored(q)
    BY <1>2 DEF Counted
  <2>5. [path |-> q, type |-> t] \in Diff(x, y)
    <3> HIDE DEF q
    <3>1. [path |-> q, type |-> t] \in Mismatch(q, TypesOf(q, At(x, q), At(y, q)))
      BY DEF Mismatch
    <3> QED BY <2>1, <2>4, <3>1 DEF Diff, q
  <2>6. IsPrefix(q, p)
    BY <2>3, PrefixIsPrefix
  <2> HIDE DEF q
  <2>7. [path |-> q, type |-> t].path = q
    OBVIOUS
  <2> QED BY <2>5, <2>6, <2>7
<1> QED BY <1>1, <1>2

-----------------------------------------------------------------------------
(* What is found, for the console.                                         *)

\* One step more.
LEMMA HasMore ==
  ASSUME NEW v, NEW p, IsPath(p), NEW s
  PROVE  Has(v, Append(p, s)) <=> Has(v, p) /\ s \in Steps(At(v, p))
<1> DEFINE q == Append(p, s)
<1>1. /\ IsPath(q) /\ Len(q) = Len(p) + 1 /\ q[Len(p) + 1] = s /\ \A k \in 1 .. Len(p) : q[k] = p[k]
      /\ \A k \in 0 .. Len(p) : Prefix(q, k) = Prefix(p, k)
  BY AppendIs
<1>2. Len(p) \in Nat /\ Prefix(p, Len(p)) = p
  BY PathIs, WholeIsPrefix
<1> HIDE DEF q
<1>3. ASSUME Has(v, q)
      PROVE  Has(v, p) /\ s \in Steps(At(v, p))
  <2>1. ASSUME NEW k \in 1 .. Len(p)
        PROVE  p[k] \in Steps(At(v, Prefix(p, k - 1)))
    <3>1. k \in 1 .. Len(q) /\ k - 1 \in 0 .. Len(p)
      BY <1>1, <1>2
    <3>2. q[k] \in Steps(At(v, Prefix(q, k - 1)))
      BY <1>3, <3>1 DEF Has
    <3> QED BY <1>1, <3>1, <3>2
  <2>2. s \in Steps(At(v, p))
    <3>1. Len(p) + 1 \in 1 .. Len(q) /\ (Len(p) + 1) - 1 = Len(p) /\ Len(p) \in 0 .. Len(p)
      BY <1>1, <1>2
    <3>2. q[Len(p) + 1] \in Steps(At(v, Prefix(q, Len(p))))
      BY <1>3, <3>1 DEF Has
    <3> QED BY <1>1, <1>2, <3>1, <3>2
  <2> QED BY <2>1, <2>2 DEF Has
<1>4. ASSUME Has(v, p), s \in Steps(At(v, p))
      PROVE  Has(v, q)
  <2>1. ASSUME NEW k \in 1 .. Len(q)
        PROVE  q[k] \in Steps(At(v, Prefix(q, k - 1)))
    <3>1. k - 1 \in 0 .. Len(p)
      BY <1>1, <1>2
    <3>2. CASE k = Len(p) + 1
      <4>1. k - 1 = Len(p) /\ q[k] = s
        BY <1>1, <1>2, <3>2
      <4> QED BY <1>1, <1>2, <1>4, <3>1, <4>1
    <3>3. CASE k # Len(p) + 1
      <4>1. k \in 1 .. Len(p)
        BY <1>1, <1>2, <3>3
      <4>2. p[k] \in Steps(At(v, Prefix(p, k - 1)))
        BY <1>4, <4>1 DEF Has
      <4> QED BY <1>1, <3>1, <4>1, <4>2
    <3> QED BY <3>2, <3>3
  <2> QED BY <2>1 DEF Has
<1> QED BY <1>3, <1>4 DEF q

\* Both have the path, and the same kinds of values on the way to it.
Shared(x, y, p) ==
  /\ IsPath(p) /\ Has(x, p) /\ Has(y, p)
  /\ \A k \in 0 .. Len(p) : At(x, Prefix(p, k)).is = At(y, Prefix(p, k)).is

\* What descendRec comes to is in both.
LEMMA DescendedIsShared ==
  ASSUME NEW x \in Values[MaxNesting], NEW y \in Values[MaxNesting], x.is = y.is,
         NEW p \in Descended(x, y)
  PROVE  Shared(x, y, p)
<1>1. IsPath(p) /\ Has(x, p)
  BY PathsOfResponse DEF Descended
<1>2. Len(p) \in Nat
  BY <1>1, PathIs
<1>3. \A k \in 1 .. Len(p) : Descends(At(x, Prefix(p, k - 1)), At(y, Prefix(p, k - 1)), p[k])
  BY DEF Descended
<1>4. Has(y, p)
  BY <1>3 DEF Has, Descends
<1>5. ASSUME NEW k \in 0 .. Len(p)
      PROVE  At(x, Prefix(p, k)).is = At(y, Prefix(p, k)).is
  <2>1. CASE k = 0
    <3>1. Prefix(p, k) = <<>>
      BY <1>1, <2>1, WholeIsPrefix
    <3>2. At(x, <<>>) = x /\ At(y, <<>>) = y
      BY AtEmpty
    <3> QED BY <3>1, <3>2
  <2>2. CASE k # 0
    <3>1. k \in 1 .. Len(p)
      BY <1>2, <2>2
    <3>2. /\ At(x, Prefix(p, k)) = Child(At(x, Prefix(p, k - 1)), p[k])
          /\ At(y, Prefix(p, k)) = Child(At(y, Prefix(p, k - 1)), p[k])
      BY <1>1, <3>1, AtStep
    <3> QED BY <1>3, <3>1, <3>2 DEF Descends
  <2> QED BY <2>1, <2>2
<1> QED BY <1>1, <1>4, <1>5 DEF Shared

\* descendRec comes to what both have, unless it is within an array of arrays.
LEMMA SharedIsDescended ==
  ASSUME NEW x \in Values[MaxNesting], NEW y \in Values[MaxNesting],
         NEW p, Shared(x, y, p), Steps(At(x, p)) \union Steps(At(y, p)) # {},
         \A k \in 1 .. Len(p) :
           ~(At(x, Prefix(p, k - 1)).is = "list" /\ At(x, Prefix(p, k)).is = "list")
  PROVE  p \in Descended(x, y)
<1>1. IsPath(p) /\ Has(x, p) /\ Has(y, p)
  BY DEF Shared
<1>2. Len(p) \in Nat /\ p \in Paths(x)
  BY <1>1, PathIs, PathsOfResponse
<1>3. ASSUME NEW v, Steps(v) # {}
      PROVE  v.is \in {"object", "list"}
  BY <1>3 DEF Steps, IsObject
<1>4. ASSUME NEW k \in 1 .. Len(p)
      PROVE  Descends(At(x, Prefix(p, k - 1)), At(y, Prefix(p, k - 1)), p[k])
  <2> DEFINE above == Prefix(p, k - 1)
             q == Prefix(p, k)
  <2>1. k \in 0 .. Len(p)
    BY <1>2
  <2>2. p[k] \in Steps(At(x, above)) /\ p[k] \in Steps(At(y, above))
    BY <1>1 DEF Has
  <2>3. At(x, q) = Child(At(x, above), p[k]) /\ At(y, q) = Child(At(y, above), p[k])
    BY <1>1, AtStep
  <2>4. At(x, q).is = At(y, q).is
    BY <2>1 DEF Shared
  <2>5. At(x, q).is \in {"object", "list"}
    <3>1. CASE k = Len(p)
      <4>1. q = p
        BY <1>1, <3>1, WholeIsPrefix
      <4> HIDE DEF q
      <4>2. At(x, q).is \in {"object", "list"} \/ At(y, q).is \in {"object", "list"}
        BY <1>3, <4>1
      <4> QED BY <2>4, <4>2
    <3>2. CASE k # Len(p)
      <4>1. k + 1 \in 1 .. Len(p) /\ (k + 1) - 1 = k
        BY <1>2, <3>2
      <4>2. p[k + 1] \in Steps(At(x, q))
        BY <1>1, <4>1 DEF Has
      <4> HIDE DEF q
      <4> QED BY <1>3, <4>2
    <3> QED BY <3>1, <3>2
  <2>6. At(x, above).is \in {"object", "list"}
    BY <1>3, <2>2
  <2>7. ~(At(x, above).is = "list" /\ At(x, q).is = "list")
    OBVIOUS
  <2> HIDE DEF above, q
  <2>8. Descends(At(x, above), At(y, above), p[k])
    BY <2>2, <2>3, <2>4, <2>5, <2>6, <2>7 DEF Descends, IsObject
  <2> QED BY <2>8 DEF above
<1> QED BY <1>2, <1>4 DEF Descended

\* What is found is a path of one answer, or a clash.
LEMMA SurplusIsThere ==
  ASSUME NEW x \in Values[MaxNesting], NEW y \in Values[MaxNesting], x.is = y.is,
         NEW f \in MapDifference(x, y)
  PROVE  \/ Lacks(x, y, f.path) /\ f.side = "x"
         \/ Lacks(y, x, f.path) /\ f.side = "y"
         \/ Clash(x, y, f.path)
<1>1. PICK p \in Descended(x, y) :
        \E s \in Steps(At(x, p)) \union Steps(At(y, p)) :
          f \in [side : SidesOf(At(x, p), At(y, p), s), path : {Append(p, s)}]
  BY DEF MapDifference
<1>2. PICK s \in Steps(At(x, p)) \union Steps(At(y, p)) :
        f \in [side : SidesOf(At(x, p), At(y, p), s), path : {Append(p, s)}]
  BY <1>1
<1> DEFINE q == Append(p, s)
           v == At(x, p)
           w == At(y, p)
<1>3. f.path = q /\ f.side \in SidesOf(v, w, s)
  BY <1>2
<1>4. Shared(x, y, p)
  BY DescendedIsShared
<1>5. IsPath(p) /\ Has(x, p) /\ Has(y, p) /\ Len(p) \in Nat
  BY <1>4, PathIs DEF Shared
<1>6. IsPath(q) /\ Len(q) - 1 = Len(p) /\ \A k \in 0 .. Len(p) : Prefix(q, k) = Prefix(p, k)
  BY <1>5, AppendIs
<1>7. (Has(x, q) <=> s \in Steps(v)) /\ (Has(y, q) <=> s \in Steps(w))
  BY <1>5, HasMore
<1>8. At(x, q) = Child(v, s) /\ At(y, q) = Child(w, s)
  BY <1>5, AtAppend
<1>9. ASSUME NEW k \in 0 .. Len(q) - 1
      PROVE  /\ Prefix(q, k) \in Paths(x) /\ Prefix(q, k) \in Paths(y)
             /\ At(x, Prefix(q, k)).is = At(y, Prefix(q, k)).is
  <2>1. k \in 0 .. Len(p) /\ Prefix(q, k) = Prefix(p, k)
    BY <1>6
  <2>2. IsPath(Prefix(p, k)) /\ Has(x, Prefix(p, k)) /\ Has(y, Prefix(p, k))
    BY <1>5, <2>1, PrefixIs, HasPrefix
  <2> QED BY <1>4, <2>1, <2>2, PathsOfResponse DEF Shared
<1>10. (q \in Paths(x) <=> s \in Steps(v)) /\ (q \in Paths(y) <=> s \in Steps(w))
  BY <1>6, <1>7, PathsOfResponse
<1> HIDE DEF q, v, w
<1>11. CASE s \notin Steps(w)
  <2>1. s \in Steps(v)
    BY <1>11 DEF v, w
  <2>2. f.side = "x"
    BY <1>3, <1>11 DEF SidesOf
  <2> QED BY <1>3, <1>9, <1>10, <1>11, <2>1, <2>2 DEF Lacks
<1>12. CASE s \in Steps(w) /\ s \notin Steps(v)
  <2>1. f.side = "y"
    BY <1>3, <1>12 DEF SidesOf
  <2> QED BY <1>3, <1>9, <1>10, <1>12, <2>1 DEF Lacks
<1>13. CASE s \in Steps(w) /\ s \in Steps(v)
  <2>1. Child(v, s).is # Child(w, s).is
        /\ {Child(v, s).is, Child(w, s).is} \intersect {"object", "list"} # {}
    BY <1>3, <1>13 DEF SidesOf, IsObject
  <2> QED BY <1>3, <1>8, <1>10, <1>13, <2>1 DEF Clash
<1> QED BY <1>11, <1>12, <1>13

\* What one answer lacks is a step below what both have.
LEMMA LackedIsBelowShared ==
  ASSUME NEW v \in Values[MaxNesting], NEW w \in Values[MaxNesting],
         NEW p, Lacks(v, w, p), ~WithinArrays(v, p)
  PROVE  LET q == Prefix(p, Len(p) - 1)
             s == p[Len(p)]
         IN  /\ Shared(v, w, q) /\ p = Append(q, s)
             /\ s \in Steps(At(v, q)) /\ s \notin Steps(At(w, q))
             /\ \A k \in 1 .. Len(q) :
                  ~(At(v, Prefix(q, k - 1)).is = "list" /\ At(v, Prefix(q, k)).is = "list")
<1> DEFINE n == Len(p)
           q == Prefix(p, n - 1)
           s == p[n]
<1>1. IsPath(p) /\ Has(v, p) /\ ~Has(w, p) /\ n \in Nat
  BY PathsOfResponse, PathIs DEF Lacks
<1>2. n # 0
  BY <1>1 DEF Has
<1>3. n \in 1 .. Len(p) /\ n - 1 \in 0 .. Len(p) /\ n - 1 \in 0 .. n - 1
  BY <1>1, <1>2
<1>4. IsPath(q) /\ Len(q) = n - 1 /\ \A k \in 0 .. n - 1 : Prefix(q, k) = Prefix(p, k)
  BY <1>1, <1>3, PrefixIs
<1>5. p = Append(q, s)
  BY <1>1, <1>3, LastStep, WholeIsPrefix
<1>6. q \in Paths(w)
  BY <1>3 DEF Lacks
<1>7. Has(w, q)
  BY <1>6, PathsOfResponse
<1> HIDE DEF q, s
<1>8. Has(v, q) /\ s \in Steps(At(v, q)) /\ s \notin Steps(At(w, q))
  BY <1>1, <1>4, <1>5, <1>7, HasMore
<1>9. \A k \in 0 .. Len(q) : At(v, Prefix(q, k)).is = At(w, Prefix(q, k)).is
  BY <1>4 DEF Lacks
<1>10. ASSUME NEW k \in 1 .. Len(q)
       PROVE  ~(At(v, Prefix(q, k - 1)).is = "list" /\ At(v, Prefix(q, k)).is = "list")
  <2>1. k \in 1 .. Len(p) - 1 /\ k \in 0 .. n - 1 /\ k - 1 \in 0 .. n - 1
    BY <1>1, <1>4
  <2>2. Prefix(q, k) = Prefix(p, k) /\ Prefix(q, k - 1) = Prefix(p, k - 1)
    BY <1>4, <2>1
  <2> QED BY <2>1, <2>2 DEF WithinArrays
<1>11. Shared(v, w, q)
  BY <1>4, <1>7, <1>8, <1>9 DEF Shared
<1> QED BY <1>5, <1>8, <1>10, <1>11 DEF q, s

\* What one answer lacks is found, on the right side.
LEMMA LackedIsFound ==
  ASSUME NEW x \in Values[MaxNesting], NEW y \in Values[MaxNesting], NEW p
  PROVE  /\ Lacks(x, y, p) /\ ~WithinArrays(x, p) => [side |-> "x", path |-> p] \in MapDifference(x, y)
         /\ Lacks(y, x, p) /\ ~WithinArrays(y, p) => [side |-> "y", path |-> p] \in MapDifference(x, y)
<1> DEFINE q == Prefix(p, Len(p) - 1)
           s == p[Len(p)]
<1>0. ASSUME NEW side \in SidesOf(At(x, q), At(y, q), s), q \in Descended(x, y), p = Append(q, s),
             s \in Steps(At(x, q)) \union Steps(At(y, q))
      PROVE  [side |-> side, path |-> p] \in MapDifference(x, y)
  <2> HIDE DEF q, s
  <2>1. [side |-> side, path |-> p] \in [side : SidesOf(At(x, q), At(y, q), s), path : {Append(q, s)}]
    BY <1>0
  <2> QED BY <1>0, <2>1 DEF MapDifference
<1>1. ASSUME Lacks(x, y, p), ~WithinArrays(x, p)
      PROVE  [side |-> "x", path |-> p] \in MapDifference(x, y)
  <2>1. /\ Shared(x, y, q) /\ p = Append(q, s)
        /\ s \in Steps(At(x, q)) /\ s \notin Steps(At(y, q))
        /\ \A k \in 1 .. Len(q) :
             ~(At(x, Prefix(q, k - 1)).is = "list" /\ At(x, Prefix(q, k)).is = "list")
    BY <1>1, LackedIsBelowShared
  <2> HIDE DEF q, s
  <2>2. Steps(At(x, q)) \union Steps(At(y, q)) # {}
    BY <2>1
  <2>3. q \in Descended(x, y)
    BY <2>1, <2>2, SharedIsDescended
  <2>4. "x" \in SidesOf(At(x, q), At(y, q), s)
    BY <2>1 DEF SidesOf
  <2> QED BY <1>0, <2>1, <2>3, <2>4
<1>2. ASSUME Lacks(y, x, p), ~WithinArrays(y, p)
      PROVE  [side |-> "y", path |-> p] \in MapDifference(x, y)
  <2>1. /\ Shared(y, x, q) /\ p = Append(q, s)
        /\ s \in Steps(At(y, q)) /\ s \notin Steps(At(x, q))
        /\ \A k \in 1 .. Len(q) :
             ~(At(y, Prefix(q, k - 1)).is = "list" /\ At(y, Prefix(q, k)).is = "list")
    BY <1>2, LackedIsBelowShared
  <2> HIDE DEF q, s
  <2>2. Steps(At(x, q)) \union Steps(At(y, q)) # {} /\ Shared(x, y, q)
    BY <2>1 DEF Shared
  <2>3. \A k \in 1 .. Len(q) :
          ~(At(x, Prefix(q, k - 1)).is = "list" /\ At(x, Prefix(q, k)).is = "list")
    <3> TAKE k \in 1 .. Len(q)
    <3>1. k \in 0 .. Len(q) /\ k - 1 \in 0 .. Len(q)
      BY <2>1, PathIs DEF Shared
    <3> QED BY <2>1, <3>1 DEF Shared
  <2>4. q \in Descended(x, y)
    BY <2>2, <2>3, SharedIsDescended
  <2>5. "y" \in SidesOf(At(x, q), At(y, q), s)
    BY <2>1 DEF SidesOf
  <2> QED BY <1>0, <2>1, <2>4, <2>5
<1> QED BY <1>1, <1>2

-----------------------------------------------------------------------------
(* The behaviours.                                                         *)

\* What is written and what is shown is of the answers compared.
DiffInv ==
  /\ report \in Reports
  /\ line.is = "written" =>
       line.ok = Verdict(Unified(report)).ok /\ line.mismatches = Verdict(Unified(report)).mismatches
  /\ surplus.is = "found" =>
       /\ IsObject(report.a.body) /\ IsObject(report.b.body)
       /\ surplus.fields = MapDifference(report.a.body, report.b.body)

LEMMA DiffInitHolds ==
  ASSUME DiffInit
  PROVE  DiffInv
BY DEF DiffInit, DiffInv, NoLine

LEMMA DiffStepHolds ==
  ASSUME DiffInv, [DiffNext]_diffVars
  PROVE  DiffInv'
<1>1. CASE ProcessResult
  <2> DEFINE r == Unified(report)
  <2>0. report' = report /\ surplus' = surplus
    BY <1>1 DEF ProcessResult
  <2>1. PICK v \in {Verdict(r)} : \E top \in TopTypes(v.mismatches) \union {"none"} :
          line' \in {[is |-> "written", ok |-> v.ok, read |-> v.read,
                      mismatches |-> v.mismatches, top |-> top,
                      responses |-> Redacted([a |-> r.a, b |-> r.b], v.ok),
                      kibana |-> KibanaIds(report.opaque)],
                     [is |-> "failed"]}
    BY <1>1 DEF ProcessResult
  <2> HIDE DEF r
  <2>2. line'.is = "written" => line'.ok = v.ok /\ line'.mismatches = v.mismatches
    BY <2>1
  <2>3. v = Verdict(r)
    BY <2>1
  <2> QED BY <2>0, <2>2, <2>3 DEF DiffInv, r
<1>2. CASE FindSurplus
  <2>0. report' = report /\ line' = line
    BY <1>2 DEF FindSurplus
  <2>1. CASE ~IsObject(report.a.body) \/ ~IsObject(report.b.body)
    <3>1. surplus' = [is |-> "failed"]
      BY <1>2, <2>1 DEF FindSurplus
    <3> QED BY <2>0, <3>1 DEF DiffInv
  <2>2. CASE IsObject(report.a.body) /\ IsObject(report.b.body)
    <3>1. surplus' = [is |-> "found", fields |-> MapDifference(report.a.body, report.b.body)]
      BY <1>2, <2>2 DEF FindSurplus
    <3> QED BY <2>0, <2>2, <3>1 DEF DiffInv
  <2> QED BY <2>1, <2>2
<1>3. CASE UNCHANGED diffVars
  BY <1>3 DEF diffVars, DiffInv
<1> QED BY <1>1, <1>2, <1>3 DEF DiffNext

\* What is written is right,
LEMMA FoundForTheLog ==
  ASSUME DiffInv
  PROVE  DifferencesAreReported
<1> DEFINE r == Unified(report)
           x == r.a.body
           y == r.b.body
<1>0. x \in Values[MaxNesting] /\ y \in Values[MaxNesting]
  BY UnifiedIsResponse DEF DiffInv
<1> SUFFICES ASSUME line.is = "written"
             PROVE  DifferencesAreReported
  BY DEF DifferencesAreReported
<1>1. line.ok = Verdict(r).ok /\ line.mismatches = Verdict(r).mismatches
  BY DEF DiffInv
<1> HIDE DEF r
<1>2. CASE r.a.error \/ r.b.error \/ ~IsObject(x) \/ ~IsObject(y)
  <2>1. Verdict(r).ok = FALSE
    BY <1>2 DEF Verdict
  <2> QED BY <1>1, <1>2, <2>1 DEF DifferencesAreReported, r
<1>3. CASE ~(r.a.error \/ r.b.error \/ ~IsObject(x) \/ ~IsObject(y))
  <2>1. Verdict(r).ok = (Diff(x, y) = {}) /\ Verdict(r).mismatches = Diff(x, y)
    BY <1>3 DEF Verdict
  <2>2. (line.ok <=> line.mismatches = {}) /\ line.mismatches = Diff(x, y)
    BY <1>1, <2>1
  <2>3. /\ \A m \in line.mismatches :
             \/ Counted(m.path) /\ Different(At(x, m.path), At(y, m.path))
             \/ Counted(m.path) /\ OtherKeys(At(x, m.path), At(y, m.path))
        /\ \A p \in Paths(x) \union Paths(y) :
             Counted(p) /\ Different(At(x, p), At(y, p))
               => \E m \in line.mismatches : IsPrefix(m.path, p)
    <3> HIDE DEF x, y
    <3> QED BY <1>0, <2>2, DiffIsRight
  <2> QED BY <1>3, <2>2, <2>3 DEF DifferencesAreReported, Counted, r
<1> QED BY <1>2, <1>3

\* and what is shown.
LEMMA FoundForTheConsole ==
  ASSUME DiffInv
  PROVE  SurplusIsExact
<1> DEFINE x == report.a.body
           y == report.b.body
<1> SUFFICES ASSUME surplus.is = "found"
             PROVE  SurplusIsExact
  BY DEF SurplusIsExact
<1>1. x \in Values[MaxNesting] /\ y \in Values[MaxNesting]
  BY ResponseDiffAssumption DEF DiffInv
<1>2. IsObject(x) /\ IsObject(y) /\ surplus.fields = MapDifference(x, y)
  BY DEF DiffInv
<1>3. x.is = y.is
  BY <1>2 DEF IsObject
<1> HIDE DEF x, y
<1>4. \A p \in Paths(x) \union Paths(y) :
        /\ Lacks(x, y, p) /\ ~WithinArrays(x, p) => [side |-> "x", path |-> p] \in surplus.fields
        /\ Lacks(y, x, p) /\ ~WithinArrays(y, p) => [side |-> "y", path |-> p] \in surplus.fields
  BY <1>1, <1>2, LackedIsFound
<1>5. \A s \in surplus.fields :
        \/ Lacks(x, y, s.path) /\ s.side = "x"
        \/ Lacks(y, x, s.path) /\ s.side = "y"
        \/ Clash(x, y, s.path)
  BY <1>1, <1>2, <1>3, SurplusIsThere
<1> QED BY <1>4, <1>5 DEF SurplusIsExact, x, y

\* Of any two answers the differences are found, whatever values they are: those the
\* log of results reports (JSONDiff.Diff, diffTransformer), and the paths that only one
\* of them has (JsonDifference).
THEOREM DifferencesAreAlwaysFound == DiffSpec => []DifferencesAreFound
<1>1. DiffInit => DiffInv
  BY DiffInitHolds
<1>2. DiffInv /\ [DiffNext]_diffVars => DiffInv'
  BY DiffStepHolds
<1>3. DiffInv => DifferencesAreFound
  BY FoundForTheLog, FoundForTheConsole DEF DifferencesAreFound
<1> QED BY <1>1, <1>2, <1>3, PTL DEF DiffSpec

=============================================================================
