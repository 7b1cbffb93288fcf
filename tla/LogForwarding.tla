----------------------------- MODULE LogForwarding -----------------------------
(***************************************************************************)
(* Shipping logs to a remote drain: quesma/logger (log_sender.go,          *)
(* logForwarder.go).                                                       *)
(*                                                                         *)
(* Every goroutine that logs puts its message into one bounded channel;    *)
(* the forwarder's goroutine eats them into a buffer and posts that when   *)
(* it is full or old.  It reports its own failures with the same logger,   *)
(* that is, into its own channel.  Messages are numbered as they are       *)
(* written; how old the buffer is, is any choice.                          *)
(***************************************************************************)
EXTENDS Naturals, Sequences

CONSTANTS MaxMessages,    \* how many messages others write
          Sizes,          \* lengths of messages
          InitialSize,    \* initialBufferSize: 32 KiB
          MaxSize,        \* bound on what append makes of its capacity
          ChannelSize,    \* bufferSizeChannel: 1024
          MaxFailures,    \* bound on the posts that fail
          MaxFlushes      \* bound on the messages of TriggerFlush

\* A message that is cut still leaves room for the mark.
ASSUME LogForwardingAssumption ==
  /\ MaxSize \in Nat /\ Sizes \subseteq (1 .. MaxSize) /\ InitialSize \in 2 .. MaxSize
  /\ ChannelSize \in Nat \ {0} /\ {MaxMessages, MaxFailures, MaxFlushes} \subseteq Nat

VARIABLES
  logCh,       \* messages [n |-> number, size |-> length]; those of TriggerFlush are empty
  buffer,      \* LogBuffer, message by message
  capacity,    \* cap(LogBuffer)
  forwarder,   \* "select", "report" (its own failure), "last report", "done"
  written,     \* messages so far
  failures, flushes,
  acknowledged, delivered, dropped  \* history: numbers of messages

forwardVars == <<logCh, buffer, capacity, forwarder, written, failures, flushes,
                 acknowledged, delivered, dropped>>

NoMessage == [n |-> 0, size |-> 0]

ForwardingInit ==
  /\ logCh = <<>> /\ buffer = <<>> /\ capacity = InitialSize
  /\ forwarder = "select" /\ written = 0 /\ failures = 0 /\ flushes = 0
  /\ acknowledged = {} /\ delivered = {} /\ dropped = {}

Length(b)   == LET upTo[i \in 0 .. Len(b)] == IF i = 0 THEN 0 ELSE upTo[i - 1] + b[i].size
               IN  upTo[Len(b)]
Numbers(b)  == {b[i].n : i \in DOMAIN b}
Add(b, m)   == IF m = NoMessage THEN b ELSE Append(b, m)
Room        == Len(logCh) < ChannelSize
Writes(size)  == /\ Room
               /\ logCh' = Append(logCh, [n |-> written + 1, size |-> size])
               /\ written' = written + 1

-----------------------------------------------------------------------------
(* logForwarder.go                                                         *)

\* Write blocks while the channel is full, and with it whoever logs.
Write ==
  /\ written < MaxMessages + failures
  /\ \E size \in Sizes : Writes(size)
  /\ UNCHANGED <<buffer, capacity, forwarder, failures, flushes, acknowledged,
                 delivered, dropped>>

TriggerFlush ==
  /\ flushes < MaxFlushes /\ Room
  /\ logCh' = Append(logCh, NoMessage) /\ flushes' = flushes + 1
  /\ UNCHANGED <<buffer, capacity, forwarder, written, failures, acknowledged,
                 delivered, dropped>>

\* Mutant: the goroutine ends with the error.
ReportAndReturn ==
  /\ forwarder = "report"
  /\ Writes(1) /\ forwarder' = "ended"
  /\ UNCHANGED <<buffer, capacity, failures, flushes, acknowledged, delivered, dropped>>

\* Run: its own error is written like any other message.
ReportFailure ==
  /\ forwarder \in {"report", "last report"}
  /\ Writes(1) /\ forwarder' = IF forwarder = "report" THEN "select" ELSE "done"
  /\ UNCHANGED <<buffer, capacity, failures, flushes, acknowledged, delivered, dropped>>

-----------------------------------------------------------------------------
(* log_sender.go                                                           *)

\* Go's append, which may take a larger capacity than it needs.
Grows(b) ==
  /\ buffer' = b
  /\ IF Length(b) <= capacity THEN UNCHANGED capacity ELSE capacity' \in Length(b) .. MaxSize

\* sendLogs is acknowledged with 200.
Sent(b) ==
  /\ acknowledged' = acknowledged \union Numbers(b)
  /\ delivered' = delivered \union Numbers(b)
  /\ UNCHANGED <<failures, dropped>>

\* It fails, which does not say whether the drain has the logs.
Fails(b) ==
  /\ b # <<>> /\ failures < MaxFailures /\ failures' = failures + 1
  /\ delivered' \in {delivered, delivered \union Numbers(b)}
  /\ UNCHANGED acknowledged

\* Run takes a message from the channel.
TakeMessage(m) ==
  /\ forwarder = "select" /\ logCh # <<>> /\ m = Head(logCh)
  /\ logCh' = Tail(logCh) /\ UNCHANGED <<written, flushes>>

\* bufferLengthCondition
HasRoomFor(m) == Length(buffer) + m.size < capacity

\* EatLogMessage: the message is buffered, while the buffer is young ...
Buffer(m) ==
  /\ HasRoomFor(m)
  /\ buffer' = Add(buffer, m)
  /\ UNCHANGED <<capacity, forwarder, failures, acknowledged, delivered, dropped>>

\* ... or added to what is sent, cut if it is too long for the empty buffer,
StillFits(m) == buffer = <<>> \/ Length(buffer) + m.size <= capacity

ToSend(m) ==
  IF ~StillFits(m) THEN buffer
  ELSE IF HasRoomFor(m) \/ buffer # <<>> THEN Add(buffer, m)
  ELSE <<[m EXCEPT !.size = capacity]>>

\* Mutant: the message is written to the new buffer in any case.
KeepAlways(b, m) == Add(b, m)

\* ... or written to the buffer after that was sent or dropped.
Keep(b, m) == IF StillFits(m) THEN b ELSE Add(b, m)

SendAndKeep(m) == Sent(ToSend(m)) /\ Grows(Keep(<<>>, m)) /\ UNCHANGED forwarder

\* The sampler of the logger may suppress the report of a failure.
ThenReport == forwarder' \in {"report", "select"}

\* A buffer that was full is dropped when sending fails.
FailAndDrop(m) ==
  /\ ~HasRoomFor(m)
  /\ Fails(ToSend(m)) /\ ThenReport
  /\ dropped' = dropped \union Numbers(ToSend(m))
  /\ Grows(Keep(<<>>, m))

\* Another is sent again later.
FailAndRetry(m) ==
  /\ HasRoomFor(m)
  /\ Fails(ToSend(m)) /\ ThenReport
  /\ buffer' = ToSend(m)
  /\ UNCHANGED <<capacity, dropped>>

EatLogMessage ==
  \E m \in {NoMessage} \union {logCh[i] : i \in DOMAIN logCh} :
    /\ TakeMessage(m)
    /\ Buffer(m) \/ SendAndKeep(m) \/ FailAndDrop(m) \/ FailAndRetry(m)

\* FlushLogs at the shutdown, whatever is left in the channel: the process ends
\* when that is done, or its failure reported.
FlushLogs ==
  /\ forwarder = "select"
  /\ \/ Sent(buffer) /\ buffer' = <<>> /\ forwarder' = "done"
     \/ Fails(buffer) /\ forwarder' \in {"last report", "done"} /\ UNCHANGED <<buffer, dropped>>
  /\ UNCHANGED <<logCh, capacity, written, flushes>>

ForwardingNext == Write \/ TriggerFlush \/ EatLogMessage \/ ReportFailure \/ FlushLogs

\* Nobody has to shut down, or to flush.
ForwardingProgress == Write \/ EatLogMessage \/ ReportFailure

ForwardingFairness == WF_forwardVars(ForwardingProgress)

ForwardingSpec == ForwardingInit /\ [][ForwardingNext]_forwardVars /\ ForwardingFairness

-----------------------------------------------------------------------------
(* Properties.                                                             *)

\* Every message is somewhere: in the channel or the buffer, once and in the
\* order of writing, or delivered, or dropped after a failure; what was
\* acknowledged is not sent again, and the buffer does not exceed its capacity.
LogsAreAccountedFor ==
  LET pending == buffer \o logCh
  IN  /\ \A i, j \in DOMAIN pending :
           i < j /\ pending[i] # NoMessage /\ pending[j] # NoMessage =>
             pending[i].n < pending[j].n
      /\ 1 .. written \subseteq Numbers(pending) \union delivered \union dropped
      /\ Numbers(pending) \intersect acknowledged = {}
      /\ Length(buffer) <= capacity /\ Len(logCh) <= ChannelSize

\* The forwarder waits for room in the channel that it alone empties.
BlocksItself == forwarder \in {"report", "last report"} /\ ~Room

\* In the end whoever logs went on, unless the process ends or the forwarder blocks itself.
LogsWritten == written >= MaxMessages \/ forwarder = "done" \/ BlocksItself
=============================================================================
