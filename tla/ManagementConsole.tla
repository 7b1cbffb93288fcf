--------------------------- MODULE ManagementConsole ---------------------------
(***************************************************************************)
(* What the management console remembers of each request:                  *)
(* quesma/ui/management_console.go and dashboard_healthcheck.go.           *)
(*                                                                         *)
(* One goroutine receives what requests push and every line of the log,    *)
(* another compares the two answers of a request; both log, that is, they  *)
(* write into the channel that only the first one reads.  Pages read under *)
(* the mutex that the first one holds while it hands over to the second.   *)
(***************************************************************************)
EXTENDS Naturals, Sequences, FiniteSets, SequencesExt

CONSTANTS Ids,          \* requests
          Pushes,       \* what requests push, each once: [kind, id]
          MaxLast,      \* maxLastMessages: 10000
          MaxLogs,      \* maxLogMessagePerRequest: 1000
          PushCap,      \* queryDebugPrimarySource, queryDebugSecondarySource: 10 each
          LogCap,       \* the log channel: 50000
          MatcherCap,   \* responseMatcherChannel: 5
          Debug         \* whether the level of the logger is Debug

Kinds == {"primary", "secondary", "log"}
NoId  == "none"

ASSUME ManagementConsoleAssumption ==
  /\ \A p \in Pushes : /\ p.kind \in Kinds
                       /\ (p.id \in Ids \/ (p.kind = "log" /\ p.id = NoId))
  /\ Debug \in BOOLEAN
  /\ {MaxLast, MaxLogs, PushCap, LogCap, MatcherCap} \subseteq Nat \ {0}

VARIABLES
  pushing,    \* pushes that requests are still to make
  channel,    \* kind -> ids; the log has NoId for lines without a request
  processor,  \* processChannelMessage: [pc, kind, id]
  info,       \* debugInfoMessages: id -> [primary, secondary, logs]
  last,       \* debugLastMessages
  matching,   \* responseMatcherChannel
  comparer,   \* comparePipelines: "receive", or the id it logs about
  reader,     \* a page: "waits" for the mutex or "read"
  compared    \* history: id -> how often it was compared

consoleVars == <<pushing, channel, processor, info, last, matching, comparer, reader, compared>>

Ready   == [pc |-> "select", kind |-> "none", id |-> NoId]
Unknown == [primary |-> FALSE, secondary |-> FALSE, logs |-> 0]
Cap(k)  == IF k = "log" THEN LogCap ELSE PushCap

ConsoleInit ==
  /\ pushing = Pushes /\ channel = [k \in Kinds |-> <<>>]
  /\ processor = Ready /\ info = [i \in {} |-> Unknown] /\ last = <<>>
  /\ matching = <<>> /\ comparer = "receive" /\ reader = "waits"
  /\ compared = [i \in Ids |-> 0]

-----------------------------------------------------------------------------
Puts(k, id) == /\ Len(channel[k]) < Cap(k)
               /\ channel' = [channel EXCEPT ![k] = Append(@, id)]

\* PushPrimaryInfo, PushSecondaryInfo, and a line of the log.
Push(p) ==
  /\ p \in pushing
  /\ Puts(p.kind, p.id) /\ pushing' = pushing \ {p}
  /\ UNCHANGED <<processor, info, last, matching, comparer, reader, compared>>

-----------------------------------------------------------------------------
(* processChannelMessage                                                   *)

\* Of several channels with a message any may be taken.
Receive(k) ==
  /\ processor.pc = "select" /\ channel[k] # <<>>
  /\ channel' = [channel EXCEPT ![k] = Tail(@)]
  /\ processor' = [pc |-> IF k # "log" /\ Debug THEN "debug" ELSE "process",
                   kind |-> k, id |-> Head(channel[k])]
  /\ UNCHANGED <<pushing, info, last, matching, comparer, reader, compared>>

\* "Received debug info", a line without a request's id.
LogReceived ==
  /\ processor.pc = "debug"
  /\ Puts("log", NoId) /\ processor' = [processor EXCEPT !.pc = "process"]
  /\ UNCHANGED <<pushing, info, last, matching, comparer, reader, compared>>

\* What is known of the request once the message is added; of its log, one
\* line above the limit says that it was reached.
Updated(value) ==
  IF processor.kind = "log"
  THEN [value EXCEPT !.logs = IF @ <= MaxLogs THEN @ + 1 ELSE @]
  ELSE [value EXCEPT ![processor.kind] = TRUE]

Complete(value) == value.primary /\ value.secondary

\* Mutant: the oldest request is dropped from the list alone.
ForgetInList(messages, ids) == [messages |-> messages, ids |-> Tail(ids)]

Forget(messages, ids) ==
  [messages |-> [i \in DOMAIN messages \ {Head(ids)} |-> messages[i]], ids |-> Tail(ids)]

\* addNewMessageId
AddNew(messages, ids) ==
  IF Len(ids) > MaxLast THEN Forget(messages, ids) ELSE [messages |-> messages, ids |-> ids]

\* The message is of a request not known before ...
ProcessNew ==
  LET new == AddNew([i \in DOMAIN info \union {processor.id} |->
                       IF i = processor.id THEN Updated(Unknown) ELSE info[i]],
                    Append(last, processor.id))
  IN  /\ processor.pc = "process" /\ processor.id \notin DOMAIN info \union {NoId}
      /\ info' = new.messages /\ last' = new.ids
      /\ processor' = Ready
      /\ UNCHANGED <<pushing, channel, matching, comparer, reader, compared>>

\* ... or of one that is: if both answers are there now, they are compared.
ProcessKnown ==
  /\ processor.pc = "process" /\ processor.id \in DOMAIN info
  /\ info' = [info EXCEPT ![processor.id] = Updated(@)]
  /\ processor' = IF processor.kind # "log" /\ Complete(info'[processor.id])
                  THEN [processor EXCEPT !.pc = "match"] ELSE Ready
  /\ UNCHANGED <<pushing, channel, last, matching, comparer, reader, compared>>

\* A line without a request's id.
Skip ==
  /\ processor.pc = "process" /\ processor.id = NoId
  /\ processor' = Ready
  /\ UNCHANGED <<pushing, channel, info, last, matching, comparer, reader, compared>>

\* The mutex is held while the matcher's channel is full.
HandOver ==
  /\ processor.pc = "match" /\ Len(matching) < MatcherCap
  /\ matching' = Append(matching, processor.id)
  /\ processor' = Ready
  /\ UNCHANGED <<pushing, channel, info, last, comparer, reader, compared>>

-----------------------------------------------------------------------------
(* comparePipelines: responses that differ are logged, with the request's  *)
(* id; Error lines at every level, others when it is Debug.                *)

Compare ==
  /\ comparer = "receive" /\ matching # <<>>
  /\ matching' = Tail(matching)
  /\ compared' = [compared EXCEPT ![Head(matching)] = @ + 1]
  /\ comparer' \in {"receive", Head(matching)}
  /\ UNCHANGED <<pushing, channel, processor, info, last, reader>>

LogDifference ==
  /\ comparer # "receive"
  /\ Puts("log", comparer) /\ comparer' = "receive"
  /\ UNCHANGED <<pushing, processor, info, last, matching, reader, compared>>

\* Pages of live_tail.go and live_tail_drilldown.go.
ReadPage ==
  /\ reader = "waits" /\ processor.pc # "match"
  /\ reader' = "read"
  /\ UNCHANGED <<pushing, channel, processor, info, last, matching, comparer, compared>>

ProcessorStep ==
  \/ \E k \in Kinds : Receive(k)
  \/ LogReceived \/ ProcessNew \/ ProcessKnown \/ Skip \/ HandOver

ConsoleNext ==
  \/ \E p \in Pushes : Push(p)
  \/ ProcessorStep \/ Compare \/ LogDifference \/ ReadPage

ConsoleFairness == WF_consoleVars(ConsoleNext)

ConsoleSpec == ConsoleInit /\ [][ConsoleNext]_consoleVars /\ ConsoleFairness

-----------------------------------------------------------------------------
(* Properties.                                                             *)

\* The requests remembered are those of the list, once each and no more than
\* the limit; one with both answers has been compared, or is about to be.
ConsoleRemembers ==
  /\ DOMAIN info = Range(last) /\ IsInjective(last) /\ Len(last) <= MaxLast
  /\ \A i \in DOMAIN info :
       Complete(info[i]) => \/ compared[i] > 0 \/ i \in Range(matching)
                            \/ processor.pc = "match" /\ processor.id = i

\* Who waits for room in the channel that only the processor empties: the
\* processor, or the comparer while the processor waits for the comparer.
WaitsForItself ==
  /\ Len(channel["log"]) = LogCap
  /\ \/ processor.pc = "debug"
     \/ processor.pc = "match" /\ Len(matching) = MatcherCap /\ comparer # "receive"

\* In the end requests got rid of what they push, and pages were shown, unless the two
\* goroutines wait in a circle.
ConsolePassed == (pushing = {} /\ reader = "read") \/ WaitsForItself
=============================================================================
