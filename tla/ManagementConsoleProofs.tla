------------------------ MODULE ManagementConsoleProofs ------------------------
(***************************************************************************)
(* Proofs about ManagementConsole for any requests, limits and sizes of    *)
(* the channels: the requests it remembers and compares.                   *)
(***************************************************************************)
EXTENDS ManagementConsole, SequenceTheorems, TLAPS

-----------------------------------------------------------------------------
(* Lemmas about the elements of a sequence.                                *)

\* Its elements are those at its positions.
LEMMA RangeIs ==
  ASSUME NEW S, NEW q \in Seq(S)
  PROVE  /\ DOMAIN q = 1 .. Len(q) /\ Len(q) \in Nat
         /\ \A x : x \in Range(q) <=> \E n \in 1 .. Len(q) : q[n] = x
         /\ Range(q) \subseteq S
BY DEF Range

LEMMA AppendElements ==
  ASSUME NEW S, NEW q \in Seq(S), NEW x \in S
  PROVE  /\ Append(q, x) \in Seq(S) /\ Len(Append(q, x)) = Len(q) + 1
         /\ Range(Append(q, x)) = Range(q) \union {x}
         /\ IsInjective(q) /\ x \notin Range(q) => IsInjective(Append(q, x))
<1> DEFINE r == Append(q, x)
<1>1. /\ r \in Seq(S) /\ Len(r) = Len(q) + 1 /\ r[Len(q) + 1] = x
      /\ \A n \in 1 .. Len(q) : r[n] = q[n]
  OBVIOUS
<1>2. Len(q) \in Nat /\ DOMAIN q = 1 .. Len(q) /\ DOMAIN r = 1 .. Len(q) + 1
  BY <1>1, LenProperties
<1> HIDE DEF r
<1>3. \A n \in DOMAIN r : (n \in DOMAIN q /\ r[n] = q[n]) \/ (n = Len(q) + 1 /\ r[n] = x)
  BY <1>1, <1>2
<1>4. Range(r) = Range(q) \union {x}
  <2>1. Range(r) \subseteq Range(q) \union {x}
    BY <1>3 DEF Range
  <2>2. Range(q) \subseteq Range(r) /\ x \in Range(r)
    BY <1>1, <1>2 DEF Range
  <2> QED BY <2>1, <2>2
<1>5. ASSUME IsInjective(q), x \notin Range(q)
      PROVE  IsInjective(r)
  BY <1>3, <1>5 DEF IsInjective, Range
<1> QED BY <1>1, <1>4, <1>5 DEF r

LEMMA TailElements ==
  ASSUME NEW S, NEW q \in Seq(S), q # <<>>
  PROVE  /\ Head(q) \in S /\ Tail(q) \in Seq(S) /\ Len(Tail(q)) = Len(q) - 1
         /\ Range(q) = {Head(q)} \union Range(Tail(q))
         /\ IsInjective(q) => IsInjective(Tail(q)) /\ Head(q) \notin Range(Tail(q))
<1> DEFINE r == Tail(q)
           h == Head(q)
<1>1. /\ h \in S /\ r \in Seq(S) /\ Len(r) = Len(q) - 1
      /\ \A n \in 1 .. Len(r) : r[n] = q[n + 1]
  BY HeadTailProperties
<1>2. h = q[1] /\ Len(q) \in Nat /\ Len(q) >= 1 /\ DOMAIN q = 1 .. Len(q)
  BY LenProperties, EmptySeq
<1>3. Len(r) \in Nat /\ DOMAIN r = 1 .. Len(r)
  BY <1>1, LenProperties
<1> HIDE DEF r, h
<1>4. \A n \in DOMAIN r : n + 1 \in DOMAIN q /\ n + 1 # 1 /\ q[n + 1] = r[n]
  BY <1>1, <1>2, <1>3
<1>5. \A n \in DOMAIN q : n = 1 \/ (n - 1 \in DOMAIN r /\ q[n] = r[n - 1])
  <2> TAKE n \in DOMAIN q
  <2>1. n \in 1 .. Len(q)
    BY <1>2
  <2>2. CASE n # 1
    <3>1. n - 1 \in 1 .. Len(r) /\ (n - 1) + 1 = n
      BY <1>1, <1>2, <2>1, <2>2
    <3> QED BY <1>1, <1>3, <3>1
  <2> QED BY <2>2
<1>6. Range(q) = {h} \union Range(r)
  <2>1. Range(q) \subseteq {h} \union Range(r)
    BY <1>2, <1>5 DEF Range
  <2>2. Range(r) \subseteq Range(q)
    BY <1>4 DEF Range
  <2>3. h \in Range(q)
    BY <1>2 DEF Range
  <2> QED BY <2>1, <2>2, <2>3
<1>7. ASSUME IsInjective(q)
      PROVE  IsInjective(r) /\ h \notin Range(r)
  <2>1. ASSUME NEW a \in DOMAIN r, NEW b \in DOMAIN r, r[a] = r[b]
        PROVE  a = b
    <3>1. a + 1 = b + 1
      BY <1>4, <1>7, <2>1 DEF IsInjective
    <3> QED BY <1>3, <3>1
  <2>2. ASSUME NEW a \in DOMAIN r, r[a] = h
        PROVE  FALSE
    <3>1. a + 1 \in DOMAIN q /\ 1 \in DOMAIN q /\ q[a + 1] = q[1] /\ a + 1 # 1
      BY <1>2, <1>4, <2>2
    <3> QED BY <1>7, <3>1 DEF IsInjective
  <2> QED BY <2>1, <2>2 DEF IsInjective, Range
<1> QED BY <1>1, <1>6, <1>7 DEF r, h

-----------------------------------------------------------------------------
(* The inductive invariant.                                                *)

IdsAndNone == Ids \union {NoId}

Messages == [primary : BOOLEAN, secondary : BOOLEAN, logs : Nat]

ConsoleType ==
  /\ pushing \subseteq Pushes
  /\ channel \in [Kinds -> Seq(IdsAndNone)]
  /\ processor \in [pc : {"select", "debug", "process", "match"},
                    kind : Kinds \union {"none"}, id : IdsAndNone]
  /\ processor.pc # "select" => processor.kind \in Kinds
  /\ processor.pc = "match" => processor.id \in Ids
  /\ info \in [DOMAIN info -> Messages]
  /\ last \in Seq(Ids) /\ matching \in Seq(Ids)
  /\ compared \in [Ids -> Nat]
  /\ comparer \in {"receive"} \union Ids

\* Every request of the list is remembered, once, and no other.
ListIsMemory == DOMAIN info = Range(last) /\ IsInjective(last) /\ Len(last) <= MaxLast

\* A request whose two answers have come was handed to the comparer, or is
\* handed to it with what the processor does next.
CompleteAreCompared ==
  \A i \in DOMAIN info :
    Complete(info[i]) => \/ compared[i] > 0 \/ i \in Range(matching)
                         \/ processor.pc = "match" /\ processor.id = i

MemoryInv == ConsoleType /\ ListIsMemory /\ CompleteAreCompared

LEMMA MemoryInvInit == ConsoleInit => MemoryInv
<1> SUFFICES ASSUME ConsoleInit
             PROVE  MemoryInv
  OBVIOUS
<1>1. DOMAIN info = {} /\ last = <<>> /\ Range(last) = {}
  BY DEF ConsoleInit, Range
<1>2. ConsoleType
  BY <1>1 DEF ConsoleInit, ConsoleType, Ready, IdsAndNone, Messages
<1>3. ListIsMemory
  BY <1>1, ManagementConsoleAssumption DEF ListIsMemory, IsInjective
<1> QED BY <1>1, <1>2, <1>3 DEF MemoryInv, CompleteAreCompared

\* A message in its channel, to the processor or out of it changes nothing of
\* what is remembered; neither does a processor that does not hand over now.
LEMMA MemoryUntouched ==
  ASSUME MemoryInv, ConsoleType', UNCHANGED <<info, last, matching, compared>>,
         processor.pc # "match" \/ UNCHANGED processor
  PROVE  MemoryInv'
BY DEF MemoryInv, ListIsMemory, CompleteAreCompared, Complete

LEMMA PutsType ==
  ASSUME ConsoleType, NEW k \in Kinds, NEW id \in IdsAndNone, Puts(k, id)
  PROVE  channel' \in [Kinds -> Seq(IdsAndNone)]
BY DEF ConsoleType, Puts

LEMMA PushStep ==
  ASSUME MemoryInv, NEW p \in Pushes, Push(p)
  PROVE  MemoryInv'
<1>1. p.kind \in Kinds /\ (p.id \in Ids \/ (p.kind = "log" /\ p.id = NoId))
  BY ManagementConsoleAssumption
<1>2. channel' \in [Kinds -> Seq(IdsAndNone)]
  <2>1. p.id \in IdsAndNone
    BY <1>1 DEF IdsAndNone
  <2> QED BY <1>1, <2>1, PutsType DEF Push, MemoryInv
<1>3. ConsoleType'
  BY <1>2 DEF Push, MemoryInv, ConsoleType
<1> QED BY <1>3, MemoryUntouched DEF Push

LEMMA ReceiveStep ==
  ASSUME MemoryInv, NEW k \in Kinds, Receive(k)
  PROVE  MemoryInv'
<1>1. channel[k] \in Seq(IdsAndNone) /\ channel[k] # <<>>
  BY DEF MemoryInv, ConsoleType, Receive
<1>2. Head(channel[k]) \in IdsAndNone /\ Tail(channel[k]) \in Seq(IdsAndNone)
  BY <1>1
<1>3. channel' \in [Kinds -> Seq(IdsAndNone)]
  BY <1>2 DEF MemoryInv, ConsoleType, Receive
<1>4. ConsoleType'
  BY <1>2, <1>3 DEF MemoryInv, ConsoleType, Receive
<1>5. processor.pc # "match"
  BY DEF Receive
<1> QED BY <1>4, <1>5, MemoryUntouched DEF Receive

LEMMA LogReceivedStep ==
  ASSUME MemoryInv, LogReceived
  PROVE  MemoryInv'
<1>1. channel' \in [Kinds -> Seq(IdsAndNone)]
  BY PutsType DEF LogReceived, MemoryInv, Kinds, IdsAndNone
<1>2. ConsoleType'
  BY <1>1 DEF LogReceived, MemoryInv, ConsoleType
<1>3. processor.pc # "match"
  BY DEF LogReceived
<1> QED BY <1>2, <1>3, MemoryUntouched DEF LogReceived

LEMMA SkipStep ==
  ASSUME MemoryInv, Skip
  PROVE  MemoryInv'
<1>1. ConsoleType' /\ processor.pc # "match"
  BY DEF Skip, MemoryInv, ConsoleType, Ready, IdsAndNone
<1> QED BY <1>1, MemoryUntouched DEF Skip

LEMMA UpdatedType ==
  ASSUME ConsoleType, processor.pc = "process", NEW value \in Messages
  PROVE  /\ Updated(value) \in Messages
         /\ processor.kind = "log" => (Complete(Updated(value)) <=> Complete(value))
         /\ ~value.primary /\ ~value.secondary => ~Complete(Updated(value))
<1>1. processor.kind \in {"primary", "secondary", "log"}
  BY DEF ConsoleType, Kinds
<1>2. CASE processor.kind = "log"
  BY <1>2, ManagementConsoleAssumption DEF Updated, Messages, Complete
<1>3. CASE processor.kind = "primary"
  BY <1>3 DEF Updated, Messages, Complete
<1>4. CASE processor.kind = "secondary"
  BY <1>4 DEF Updated, Messages, Complete
<1> QED BY <1>1, <1>2, <1>3, <1>4

\* A request that was not known: with the limit reached the oldest is forgotten
\* in the list and in the memory.
LEMMA ProcessNewStep ==
  ASSUME MemoryInv, ProcessNew
  PROVE  MemoryInv'
<1> DEFINE id == processor.id
           messages == [i \in DOMAIN info \union {id} |->
                          IF i = id THEN Updated(Unknown) ELSE info[i]]
           ids == Append(last, id)
<1>1. /\ ConsoleType /\ ListIsMemory /\ CompleteAreCompared
      /\ processor.pc = "process" /\ id \in Ids /\ id \notin DOMAIN info
      /\ info' = AddNew(messages, ids).messages /\ last' = AddNew(messages, ids).ids
      /\ processor' = Ready
      /\ UNCHANGED <<pushing, channel, matching, comparer, reader, compared>>
  BY DEF MemoryInv, ProcessNew, ConsoleType, IdsAndNone
<1>2. Unknown \in Messages /\ ~Unknown.primary /\ ~Unknown.secondary
  BY DEF Unknown, Messages
<1>3. Updated(Unknown) \in Messages /\ ~Complete(Updated(Unknown))
  BY <1>1, <1>2, UpdatedType
<1>4. /\ DOMAIN messages = DOMAIN info \union {id}
      /\ messages \in [DOMAIN messages -> Messages]
      /\ \A i \in DOMAIN messages : messages[i] = info[i] \/ ~Complete(messages[i])
      /\ messages[id] = Updated(Unknown)
  BY <1>1, <1>3 DEF ConsoleType
<1>5. /\ ids \in Seq(Ids) /\ Len(ids) = Len(last) + 1
      /\ Range(ids) = DOMAIN messages /\ IsInjective(ids)
  BY <1>1, <1>4, AppendElements DEF ConsoleType, ListIsMemory
<1>6. \A i \in DOMAIN messages :
        Complete(messages[i]) => i \in DOMAIN info /\ messages[i] = info[i]
  BY <1>3, <1>4
<1> HIDE DEF id, messages, ids
<1>7. /\ last' \in Seq(Ids) /\ IsInjective(last') /\ Len(last') <= MaxLast
      /\ DOMAIN info' = Range(last') /\ info' \in [DOMAIN info' -> Messages]
      /\ \A i \in DOMAIN info' : i \in DOMAIN messages /\ info'[i] = messages[i]
  <2>1. Len(last) \in Nat /\ MaxLast \in Nat \ {0} /\ Len(last) <= MaxLast
    BY <1>1, LenProperties, ManagementConsoleAssumption DEF ConsoleType, ListIsMemory
  <2>2. CASE ~(Len(ids) > MaxLast)
    <3>1. info' = messages /\ last' = ids
      BY <1>1, <2>2 DEF AddNew
    <3> QED BY <1>4, <1>5, <2>1, <2>2, <3>1
  <2>3. CASE Len(ids) > MaxLast
    <3>1. /\ info' = [i \in DOMAIN messages \ {Head(ids)} |-> messages[i]]
          /\ last' = Tail(ids)
      BY <1>1, <2>3 DEF AddNew, Forget
    <3>2. ids # <<>>
      BY <1>5, <2>1, EmptySeq
    <3>3. /\ Tail(ids) \in Seq(Ids) /\ Len(Tail(ids)) = Len(ids) - 1
          /\ Range(ids) = {Head(ids)} \union Range(Tail(ids))
          /\ IsInjective(Tail(ids)) /\ Head(ids) \notin Range(Tail(ids))
      BY <1>5, <3>2, TailElements
    <3>4. DOMAIN info' = DOMAIN messages \ {Head(ids)}
      BY <3>1
    <3>5. DOMAIN info' = Range(last')
      BY <1>5, <3>1, <3>3, <3>4
    <3>6. Len(last') <= MaxLast
      BY <1>5, <2>1, <3>1, <3>3
    <3>7. info' \in [DOMAIN info' -> Messages]
      BY <1>4, <3>1, <3>4
    <3> QED BY <3>1, <3>3, <3>4, <3>5, <3>6, <3>7
  <2> QED BY <2>2, <2>3
<1>8. ConsoleType'
  BY <1>1, <1>7 DEF ConsoleType, Ready, IdsAndNone
<1>9. CompleteAreCompared'
  BY <1>1, <1>6, <1>7 DEF CompleteAreCompared, Complete
<1> QED BY <1>7, <1>8, <1>9 DEF MemoryInv, ListIsMemory

\* A request that was: its second answer makes the processor hand it over.
LEMMA ProcessKnownStep ==
  ASSUME MemoryInv, ProcessKnown
  PROVE  MemoryInv'
<1> DEFINE id == processor.id
<1>1. /\ ConsoleType /\ ListIsMemory /\ CompleteAreCompared
      /\ processor.pc = "process" /\ id \in DOMAIN info
      /\ info' = [info EXCEPT ![id] = Updated(@)]
      /\ UNCHANGED <<pushing, channel, last, matching, comparer, reader, compared>>
  BY DEF MemoryInv, ProcessKnown
<1>2. /\ DOMAIN info' = DOMAIN info /\ info'[id] = Updated(info[id])
      /\ \A i \in DOMAIN info : i # id => info'[i] = info[i]
  BY <1>1
<1>3. info[id] \in Messages /\ Updated(info[id]) \in Messages
      /\ (processor.kind = "log" => (Complete(info'[id]) <=> Complete(info[id])))
  BY <1>1, <1>2, UpdatedType DEF ConsoleType
<1>4. id \in Ids
  BY <1>1, RangeIs DEF ListIsMemory, ConsoleType
<1>5. IF processor.kind # "log" /\ Complete(info'[id])
      THEN processor' = [processor EXCEPT !.pc = "match"] ELSE processor' = Ready
  BY DEF ProcessKnown
<1>6. info' \in [DOMAIN info' -> Messages]
  BY <1>1, <1>2, <1>3 DEF ConsoleType
<1>7. ConsoleType'
  <2>1. /\ processor' \in [pc : {"select", "debug", "process", "match"},
                           kind : Kinds \union {"none"}, id : IdsAndNone]
        /\ processor'.pc # "select" => processor'.kind \in Kinds
        /\ processor'.pc = "match" => processor'.id \in Ids
    <3>1. CASE processor' = Ready
      BY <3>1 DEF Ready, IdsAndNone
    <3>2. CASE processor' = [processor EXCEPT !.pc = "match"]
      BY <1>1, <1>4, <3>2 DEF ConsoleType
    <3> QED BY <1>5, <3>1, <3>2
  <2> QED BY <1>1, <1>6, <2>1 DEF ConsoleType
<1>8. CompleteAreCompared'
  <2>1. Complete(info'[id]) /\ processor.kind # "log" =>
          processor'.pc = "match" /\ processor'.id = id
    BY <1>1, <1>5 DEF ConsoleType
  <2>2. \A i \in DOMAIN info' : Complete(info'[i]) =>
          Complete(info[i]) \/ (processor'.pc = "match" /\ processor'.id = i)
    BY <1>2, <1>3, <2>1
  <2> QED BY <1>1, <1>2, <2>2 DEF CompleteAreCompared, Complete
<1> QED BY <1>1, <1>2, <1>7, <1>8 DEF MemoryInv, ListIsMemory

LEMMA HandOverStep ==
  ASSUME MemoryInv, HandOver
  PROVE  MemoryInv'
<1>1. /\ ConsoleType /\ ListIsMemory /\ CompleteAreCompared
      /\ processor.pc = "match" /\ matching' = Append(matching, processor.id)
      /\ processor' = Ready
      /\ UNCHANGED <<pushing, channel, info, last, comparer, reader, compared>>
  BY DEF MemoryInv, HandOver
<1>2. /\ matching' \in Seq(Ids)
      /\ Range(matching') = Range(matching) \union {processor.id}
  BY <1>1, AppendElements DEF ConsoleType
<1>3. ConsoleType'
  BY <1>1, <1>2 DEF ConsoleType, Ready, IdsAndNone
<1>4. CompleteAreCompared'
  BY <1>1, <1>2 DEF CompleteAreCompared, Complete
<1> QED BY <1>1, <1>3, <1>4 DEF MemoryInv, ListIsMemory

LEMMA CompareStep ==
  ASSUME MemoryInv, Compare
  PROVE  MemoryInv'
<1>1. /\ ConsoleType /\ ListIsMemory /\ CompleteAreCompared
      /\ matching # <<>> /\ matching' = Tail(matching)
      /\ compared' = [compared EXCEPT ![Head(matching)] = @ + 1]
      /\ comparer' \in {"receive", Head(matching)}
      /\ UNCHANGED <<pushing, channel, processor, info, last, reader>>
  BY DEF MemoryInv, Compare
<1>2. /\ Head(matching) \in Ids /\ matching' \in Seq(Ids)
      /\ Range(matching) = {Head(matching)} \union Range(matching')
  BY <1>1, TailElements DEF ConsoleType
<1>3. ConsoleType'
  BY <1>1, <1>2 DEF ConsoleType
<1>4. \A i \in Ids : /\ compared[i] > 0 => compared'[i] > 0
                     /\ i = Head(matching) => compared'[i] > 0
  BY <1>1, <1>2 DEF ConsoleType
<1>5. DOMAIN info \subseteq Ids
  BY <1>1, RangeIs DEF ListIsMemory, ConsoleType
<1>6. CompleteAreCompared'
  BY <1>1, <1>2, <1>4, <1>5 DEF CompleteAreCompared, Complete
<1> QED BY <1>1, <1>3, <1>6 DEF MemoryInv, ListIsMemory

LEMMA LogDifferenceStep ==
  ASSUME MemoryInv, LogDifference
  PROVE  MemoryInv'
<1>1. channel' \in [Kinds -> Seq(IdsAndNone)]
  BY PutsType DEF LogDifference, MemoryInv, ConsoleType, Kinds, IdsAndNone
<1>2. ConsoleType'
  BY <1>1 DEF LogDifference, MemoryInv, ConsoleType
<1> QED BY <1>2, MemoryUntouched DEF LogDifference

LEMMA MemoryInvNext ==
  ASSUME MemoryInv, [ConsoleNext]_consoleVars
  PROVE  MemoryInv'
<1>1. ASSUME ReadPage \/ UNCHANGED consoleVars
      PROVE  MemoryInv'
  <2>1. UNCHANGED <<pushing, channel, processor, info, last, matching, comparer, compared>>
    BY <1>1 DEF ReadPage, consoleVars
  <2> QED BY <2>1, MemoryUntouched DEF MemoryInv, ConsoleType
<1>2. ASSUME NEW p \in Pushes, Push(p)
      PROVE  MemoryInv'
  BY <1>2, PushStep
<1>3. ASSUME ProcessorStep
      PROVE  MemoryInv'
  BY <1>3, ReceiveStep, LogReceivedStep, ProcessNewStep, ProcessKnownStep, SkipStep, HandOverStep
     DEF ProcessorStep
<1> QED BY <1>1, <1>2, <1>3, CompareStep, LogDifferenceStep DEF ConsoleNext

\* For any limits and any order in which answers and lines of the log arrive:
\* the list of requests and the memory of them never come apart, the memory
\* does not outgrow its limit, and no request with both answers is left
\* uncompared.
THEOREM ConsoleAlwaysRemembers == ConsoleSpec => []ConsoleRemembers
<1>1. MemoryInv => ConsoleRemembers
  BY DEF MemoryInv, ListIsMemory, CompleteAreCompared, ConsoleRemembers
<1>2. ConsoleInit => MemoryInv
  BY MemoryInvInit
<1>3. MemoryInv /\ [ConsoleNext]_consoleVars => MemoryInv'
  BY MemoryInvNext
<1> QED BY <1>1, <1>2, <1>3, PTL DEF ConsoleSpec
=============================================================================
