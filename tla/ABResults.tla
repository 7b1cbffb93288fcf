------------------------------- MODULE ABResults -------------------------------
(***************************************************************************)
(* The way of an A/B result to its collector: quesma/ab_testing/sender     *)
(* (coordinator.go, sender.go) and quesma/ab_testing/collector             *)
(* (collector.go).                                                         *)
(*                                                                         *)
(* Four kinds of goroutines wait on each other through bounded channels:   *)
(* the coordinator creates and replaces collectors, the sender hands over  *)
(* results, and every collector has one goroutine that processes results   *)
(* and one that reports its health.  Collectors are numbered in the order  *)
(* of their creation; of a result only its place is kept.                  *)
(***************************************************************************)
EXTENDS Naturals, Sequences, FiniteSets

CONSTANTS Results,         \* how many results are sent
          Collectors,      \* 1 .. n, as many as may be created
          QueueCap,        \* sender.queue and sender.controlQueue: 10 each
          ReceiveCap,      \* receiveQueue of a collector: 1000
          ErrorCap,        \* processorErrorQueue of a collector: 100
          MaxTicks         \* bound on the ticks of the collectors' health

None == 0

ASSUME ABResultsAssumption ==
  /\ Results \in Nat
  /\ Collectors = 1 .. Cardinality(Collectors) /\ Collectors # {}
  /\ QueueCap \in Nat \ {0} /\ ReceiveCap \in Nat \ {0} /\ ErrorCap \in Nat \ {0}

VARIABLES
  sending,     \* results in Send
  queue,       \* results in sender.queue
  control,     \* sender.controlQueue: collectors, None for nil
  sender,      \* [use |-> its collector, holds |-> a result it is to hand over]
  coordinator, \* [pc, current |-> inMemoryCollector, created |-> how many]
  stopped,     \* collectors the coordinator has stopped
  died,        \* collectors one of whose goroutines panicked
  received,    \* results in the receiveQueue of each collector
  working,     \* its first goroutine: "select", "process", "report", "ended"
  errors,      \* messages in its processorErrorQueue
  errorCount,  \* whether its second goroutine has counted an error
  health,      \* its second goroutine: "select", "sending", "ended"
  ticks        \* its ticks so far, all collectors together

collectorVars == <<received, working, errors, errorCount, health, ticks>>
senderVars    == <<queue, control, sender>>
resultsVars   == <<sending, senderVars, coordinator, stopped, died, collectorVars>>

\* Collectors whose context is cancelled: cancelFunc is called by Stop and, when
\* a goroutine panics, by LogAndHandlePanic; of the latter nobody is told.
Cancelled == stopped \union died

\* Start: the sender runs; the coordinator creates the first collector.
ResultsInit ==
  /\ sending = Results /\ queue = 0 /\ control = <<>>
  /\ sender = [use |-> None, holds |-> FALSE]
  /\ coordinator = [pc |-> "create", current |-> None, created |-> 0]
  /\ stopped = {} /\ died = {}
  /\ received = [c \in Collectors |-> 0]
  /\ working = [c \in Collectors |-> "none"]
  /\ errors = [c \in Collectors |-> 0]
  /\ errorCount = [c \in Collectors |-> FALSE]
  /\ health = [c \in Collectors |-> "none"] /\ ticks = 0

-----------------------------------------------------------------------------
(* sender.go                                                               *)

\* Send blocks while the queue is full.
Send ==
  /\ sending > 0 /\ queue < QueueCap
  /\ queue' = queue + 1 /\ sending' = sending - 1
  /\ UNCHANGED <<control, sender, coordinator, stopped, died, collectorVars>>

TakeControl ==
  /\ ~sender.holds /\ control # <<>>
  /\ sender' = [sender EXCEPT !.use = Head(control)]
  /\ control' = Tail(control)
  /\ UNCHANGED <<sending, queue, coordinator, stopped, died, collectorVars>>

\* Without a collector a result is dropped.
TakeResult ==
  /\ ~sender.holds /\ queue > 0
  /\ queue' = queue - 1
  /\ sender' = [sender EXCEPT !.holds = sender.use # None]
  /\ UNCHANGED <<sending, control, coordinator, stopped, died, collectorVars>>

\* Collect blocks while the collector's queue is full.
HandOverResult ==
  /\ sender.holds /\ received[sender.use] < ReceiveCap
  /\ received' = [received EXCEPT ![sender.use] = @ + 1]
  /\ sender' = [sender EXCEPT !.holds = FALSE]
  /\ UNCHANGED <<sending, queue, control, coordinator, stopped, died, working, errors,
                 errorCount, health, ticks>>

-----------------------------------------------------------------------------
(* coordinator.go: receiveHealthStatusesLoop                               *)

\* newInMemoryProcessor: a new collector with its two goroutines.
Create ==
  LET c == coordinator.created + 1
  IN  /\ coordinator.pc = "create" /\ c \in Collectors
      /\ coordinator' = [pc |-> "use", current |-> c, created |-> c]
      /\ working' = [working EXCEPT ![c] = "select"]
      /\ health' = [health EXCEPT ![c] = "select"]
      /\ UNCHANGED <<sending, senderVars, stopped, died, received, errors, errorCount, ticks>>

\* senderUseCollector blocks while the control queue is full.
Use(pc, collector, next) ==
  /\ coordinator.pc = pc /\ Len(control) < QueueCap
  /\ control' = Append(control, collector)
  /\ coordinator' = [coordinator EXCEPT !.pc = next]
  /\ UNCHANGED <<sending, queue, sender, stopped, died, collectorVars>>

UseCurrent == Use("use", coordinator.current, "select")
UseNone    == Use("disable", None, "stop")

\* A message of whichever collector is sending.
ReceiveHealth(c) ==
  /\ coordinator.pc = "select" /\ health[c] = "sending"
  /\ coordinator' = [coordinator EXCEPT !.pc = IF errorCount[c] THEN "disable" ELSE "use"]
  /\ health' = [health EXCEPT ![c] = "select"]
  /\ UNCHANGED <<sending, senderVars, stopped, died, received, working, errors, errorCount, ticks>>

\* Mutant: the collector that is stopped is not forgotten.
StopOnly ==
  /\ coordinator.pc = "stop"
  /\ stopped' = stopped \union {coordinator.current}
  /\ coordinator' = [coordinator EXCEPT !.pc = "select"]
  /\ UNCHANGED <<sending, senderVars, died, collectorVars>>

Stop ==
  /\ coordinator.pc = "stop"
  /\ stopped' = stopped \union {coordinator.current}
  /\ coordinator' = [coordinator EXCEPT !.pc = "create", !.current = None]
  /\ UNCHANGED <<sending, senderVars, died, collectorVars>>

-----------------------------------------------------------------------------
(* collector.go                                                            *)

WorkerGoes(c, pc) ==
  /\ working' = [working EXCEPT ![c] = pc]
  /\ UNCHANGED <<sending, senderVars, coordinator, stopped, errorCount, health, ticks>>

\* receiveIncomingResults: of several ready cases any may be taken.
Take(c) ==
  /\ working[c] = "select" /\ received[c] > 0
  /\ received' = [received EXCEPT ![c] = @ - 1]
  /\ WorkerGoes(c, "process") /\ UNCHANGED <<errors, died>>

WorkerEnds(c) ==
  /\ working[c] = "select" /\ c \in Cancelled
  /\ WorkerGoes(c, "ended") /\ UNCHANGED <<received, errors, died>>

\* processResult: the processors end with the result ingested or dropped, or
\* one of them fails ...
Process(c) ==
  /\ working[c] = "process"
  /\ \E pc \in {"select", "report"} : WorkerGoes(c, pc)
  /\ UNCHANGED <<received, errors, died>>

\* ... and its error is reported, which blocks while that queue is full ...
ReportError(c) ==
  /\ working[c] = "report" /\ errors[c] < ErrorCap
  /\ errors' = [errors EXCEPT ![c] = @ + 1]
  /\ WorkerGoes(c, "select") /\ UNCHANGED <<received, died>>

\* ... or panics, as internalIngestFanout does without an ingest processor:
\* LogAndHandlePanic cancels the context of the collector.
ProcessPanics(c) ==
  /\ working[c] = "process"
  /\ died' = died \union {c}
  /\ WorkerGoes(c, "ended") /\ UNCHANGED <<received, errors>>

HealthGoes(c, pc) ==
  /\ health[c] = "select"
  /\ health' = [health EXCEPT ![c] = pc]
  /\ UNCHANGED <<sending, senderVars, coordinator, stopped, received, working>>

\* An error is taken from the queue, and counted.
TakeError(c) ==
  /\ errors[c] > 0
  /\ errors' = [errors EXCEPT ![c] = @ - 1]
  /\ errorCount' = [errorCount EXCEPT ![c] = TRUE]
  /\ UNCHANGED ticks

\* Mutant: with an error the goroutine ends.
CountErrorAndEnd(c) ==
  TakeError(c) /\ HealthGoes(c, "ended") /\ UNCHANGED died

\* receiveHealthAndErrorsLoop: with an error it sends its health.
CountError(c) ==
  TakeError(c) /\ HealthGoes(c, "sending") /\ UNCHANGED died

\* It panics over an error: its handler is that of the other goroutine.
HealthPanics(c) ==
  /\ died' = died \union {c}
  /\ TakeError(c) /\ HealthGoes(c, "ended")

\* After ten seconds in which nothing else was ready.
HealthTick(c) ==
  /\ errors[c] = 0 /\ c \notin Cancelled
  /\ ticks < MaxTicks /\ ticks' = ticks + 1
  /\ HealthGoes(c, "sending") /\ UNCHANGED <<errors, errorCount, died>>

HealthEnds(c) ==
  /\ c \in Cancelled
  /\ HealthGoes(c, "ended") /\ UNCHANGED <<errors, errorCount, ticks, died>>

-----------------------------------------------------------------------------
SenderStep      == TakeControl \/ TakeResult \/ HandOverResult
CoordinatorStep == Create \/ UseCurrent \/ UseNone \/ Stop
WorkerStep(c)   == \/ Take(c) \/ Process(c) \/ ReportError(c) \/ ProcessPanics(c)
                   \/ WorkerEnds(c)
HealthStep(c)   == CountError(c) \/ HealthPanics(c) \/ HealthEnds(c) \/ ReceiveHealth(c)

ResultsNext ==
  \/ Send \/ SenderStep \/ CoordinatorStep
  \/ \E c \in Collectors : WorkerStep(c) \/ HealthStep(c) \/ HealthTick(c)

\* Goroutines run.  A select chooses at random among its ready cases, so that
\* ticks do not keep it from the others; here they are bounded instead, and
\* nothing else repeats itself.
ResultsFairness == WF_resultsVars(ResultsNext)

ResultsSpec == ResultsInit /\ [][ResultsNext]_resultsVars /\ ResultsFairness

-----------------------------------------------------------------------------
(* Properties.                                                             *)

\* The sender follows the coordinator, and no collector is left behind: once the
\* sender has read its control messages it uses the collector the coordinator
\* keeps, never one that was stopped, whatever late messages of the collectors
\* stopped before said; and every other collector has been stopped.  That it
\* is alive is not promised: of a panic the coordinator learns nothing, and the
\* sender goes on with a collector that died (receiveHealthStatusesLoop).
SenderFollows ==
  LET told == IF control = <<>> THEN sender.use ELSE control[Len(control)]
  IN  /\ told \notin stopped
      /\ coordinator.pc = "select" => told = coordinator.current /\ told # None
      /\ \A c \in 1 .. coordinator.created : c = coordinator.current \/ c \in stopped

\* The sender holds a result for a collector that was stopped, or died, with a
\* full queue.  Nobody reads it any more: its first goroutine has ended, or
\* reports an error to the second one, which has.
Stuck ==
  /\ sender.holds /\ sender.use \in Cancelled /\ received[sender.use] = ReceiveCap
  /\ \/ working[sender.use] = "ended"
     \/ /\ working[sender.use] = "report" /\ errors[sender.use] = ErrorCap
        /\ health[sender.use] = "ended"

\* All four wait for each other: every channel on the way round is full.
Circle == /\ sender.holds /\ received[sender.use] = ReceiveCap
          /\ working[sender.use] = "report" /\ errors[sender.use] = ErrorCap
          /\ health[sender.use] = "sending" /\ Len(control) = QueueCap
          /\ coordinator.pc \in {"use", "disable"}

\* The bound on collectors: the coordinator cannot go on.
Exhausted == coordinator.pc = "create" /\ coordinator.created = Cardinality(Collectors)

\* In the end Send has returned and results are handed over, however often
\* processors fail and collectors are replaced, unless the sender is stuck in
\* one of these two ways.
ResultsTaken == (sending + queue = 0 /\ ~sender.holds) \/ Stuck \/ Circle \/ Exhausted
=============================================================================
