---------------------------- MODULE BackgroundProofs ----------------------------
(***************************************************************************)
(* Proofs about BulkWrite, for any entries, connectors and operations,     *)
(* about LogForwarding, for any messages, sizes and bounds, and about      *)
(* Telemetry, for any callers, durations and sizes.                        *)
(***************************************************************************)
EXTENDS BulkWrite, LogForwarding, Telemetry, FiniteSetTheorems, SequenceTheorems,
        WellFoundedInduction, TLAPS

-----------------------------------------------------------------------------
(* A bulk: its split.                                                      *)

\* Every entry has an index that is resolved.
Resolved == \A i \in DOMAIN bulk : IndexOf(i) \in Indexes

\* What was split is in its parts, by index, until it is sent.
SplitInParts ==
  /\ toElastic = For("elastic")
  /\ toClickhouse = ByIndex(For("clickhouse"))

WaitingFor(i) == i \in toClickhouse[IndexOf(i)]

\* The entry has its last answer, which is true of what is stored.
Settled(i) ==
  /\ results[i].by = AnsweredBy(i)
  /\ results[i].ok => [at |-> i, in |-> results[i].by] \in stored

\* Before ClickHouse gets anything nothing is stored in it.
NothingInClickhouse == \A s \in stored : s.in # "clickhouse"

BInv ==
  /\ \E n \in Nat : bulk \in [1 .. n -> Entries]
  /\ pc \in {"split", "elastic"} => stored = {} /\ DOMAIN results = DOMAIN bulk
  /\ pc = "failed" => NothingInClickhouse
  /\ pc \in {"elastic", "clickhouse"} => Resolved
  /\ pc = "elastic" =>
       /\ SplitInParts
       /\ \A i \in DOMAIN bulk : AnsweredBy(i) = "closed" => results[i] = Closed
  /\ pc = "clickhouse" =>
       /\ results = [i \in DOMAIN bulk |-> results[i]]
       /\ toClickhouse \in [Indexes -> SUBSET DOMAIN bulk]
       /\ \A x \in Indexes : \A i \in toClickhouse[x] :
            x = IndexOf(i) /\ "clickhouse" \in Connectors[x]
       /\ \A i \in DOMAIN bulk : Settled(i) \/ WaitingFor(i)
  /\ pc = "answered" => BulkAnswersInPlace

LEMMA BulkInitially == BulkInit => BInv
BY BulkWriteAssumption DEF BulkInit, BInv, NoResult

\* The last word is that of the backend the entry went to last.
LEMMA AnsweredByCases ==
  ASSUME NEW i \in DOMAIN bulk, IndexOf(i) \in Indexes
  PROVE  /\ i \in For("clickhouse") <=> AnsweredBy(i) = "clickhouse"
         /\ AnsweredBy(i) = "elastic" => i \in For("elastic")
         /\ AnsweredBy(i) \in {"clickhouse", "elastic", "closed"}
         /\ AnsweredBy(i) = "closed" <=> Connectors[IndexOf(i)] = {}
BY BulkWriteAssumption DEF AnsweredBy, For

\* Leaving out what is not there changes nothing.
LEMMA NothingEmpty ==
  ASSUME NEW n \in Nat, NEW rs, rs = [i \in 1 .. n |-> rs[i]],
         \A i \in 1 .. n : rs[i] # NoResult
  PROVE  WithoutEmpty(rs) = rs
<1> DEFINE left     == {i \in DOMAIN rs : rs[i] # NoResult}
           upTo(i)  == {j \in left : j <= i}
           place(k) == CHOOSE i \in left : Cardinality(upTo(i)) = k
<1>1. left = 1 .. n
  OBVIOUS
<1>2. \A i \in 0 .. n : Cardinality(1 .. i) = i
  BY FS_Interval
<1>3. \A i \in 1 .. n : upTo(i) = 1 .. i
  BY <1>1
<1>4. Cardinality(left) = n /\ \A i \in 1 .. n : Cardinality(upTo(i)) = i
  <2> HIDE DEF left, upTo
  <2> QED BY <1>1, <1>2, <1>3
<1>5. \A k \in 1 .. n : place(k) = k
  <2> HIDE DEF left, upTo
  <2> TAKE k \in 1 .. n
  <2>1. place(k) \in left /\ Cardinality(upTo(place(k))) = k
    BY <1>1, <1>4
  <2> HIDE DEF place
  <2> QED BY <1>1, <1>4, <2>1
<1>6. WithoutEmpty(rs) = [k \in 1 .. Cardinality(left) |-> rs[place(k)]]
  BY DEF WithoutEmpty
<1> HIDE DEF left, place
<1> QED BY <1>4, <1>5, <1>6

LEMMA BulkSteps ==
  ASSUME BInv, BulkNext
  PROVE  BInv'
<1> PICK n \in Nat : bulk \in [1 .. n -> Entries]
  BY DEF BInv
<1> DOMAIN bulk = 1 .. n
  OBVIOUS
<1>1. CASE Split
  <2>1. /\ bulk' = bulk /\ stored' = {} /\ UNCHANGED <<defaultIndex, stored>>
        /\ pc' \in {"elastic", "failed"}
    BY <1>1 DEF Split, BInv
  <2>2. Resolved
    BY <1>1 DEF Split, Resolved, Rejected
  <2>3. Resolved' /\ SplitInParts'
    BY <1>1, <2>1, <2>2 DEF Split, Resolved, IndexOf, SplitInParts, For, ByIndex
  <2>4. /\ DOMAIN results' = DOMAIN bulk'
        /\ \A i \in DOMAIN bulk' : AnsweredBy(i)' = "closed" => results'[i] = Closed
    BY <1>1, <2>1, <2>2, AnsweredByCases DEF Split, Resolved, AnsweredBy, IndexOf
  <2> QED BY <2>1, <2>3, <2>4 DEF BInv, NothingInClickhouse
<1>2. CASE Reject
  BY <1>2 DEF Reject, BInv, NothingInClickhouse
<1>3. CASE SendToElastic
  <2>1. PICK accepted \in SUBSET toElastic :
               /\ results' = [i \in DOMAIN bulk |->
                                IF i \in toElastic THEN [by |-> "elastic", ok |-> i \in accepted]
                                ELSE results[i]]
               /\ stored' = stored \union In("elastic", accepted)
    BY <1>3 DEF SendToElastic
  <2>2. /\ pc = "elastic" /\ pc' = "clickhouse"
        /\ UNCHANGED <<bulk, defaultIndex, toElastic, toClickhouse>>
    BY <1>3 DEF SendToElastic
  <2>3. Resolved /\ Resolved' /\ SplitInParts
    BY <2>2 DEF BInv, Resolved, IndexOf
  <2>4. /\ results' = [i \in DOMAIN bulk' |-> results'[i]]
        /\ toClickhouse' \in [Indexes -> SUBSET DOMAIN bulk']
        /\ \A x \in Indexes : \A i \in toClickhouse'[x] :
             x = IndexOf(i)' /\ "clickhouse" \in Connectors[x]
    BY <2>1, <2>2, <2>3 DEF SplitInParts, ByIndex, For, IndexOf
  <2>5. ASSUME NEW i \in DOMAIN bulk'
        PROVE  Settled(i)' \/ WaitingFor(i)'
    <3>1. i \in DOMAIN bulk /\ IndexOf(i) \in Indexes /\ IndexOf(i)' = IndexOf(i)
          /\ AnsweredBy(i)' = AnsweredBy(i)
      BY <2>2, <2>3 DEF Resolved, IndexOf, AnsweredBy
    <3>2. CASE AnsweredBy(i) = "clickhouse"
      BY <2>2, <2>3, <3>1, <3>2, AnsweredByCases DEF WaitingFor, SplitInParts, ByIndex
    <3>3. CASE AnsweredBy(i) = "elastic"
      <4>1. i \in toElastic
        BY <2>3, <3>1, <3>3, AnsweredByCases DEF SplitInParts
      <4> QED BY <2>1, <3>1, <3>3, <4>1 DEF Settled, In
    <3>4. CASE AnsweredBy(i) = "closed"
      <4>1. i \notin toElastic /\ results[i] = Closed
        BY <2>2, <2>3, <3>1, <3>4, AnsweredByCases DEF SplitInParts, For, BInv
      <4> QED BY <2>1, <3>1, <3>4, <4>1 DEF Settled, Closed
    <3> QED BY <3>1, <3>2, <3>3, <3>4, AnsweredByCases
  <2> QED BY <2>2, <2>3, <2>4, <2>5 DEF BInv
<1>4. CASE ElasticFails
  BY <1>4 DEF ElasticFails, BInv, NothingInClickhouse, In
<1>5. ASSUME NEW x \in Indexes, SendToClickhouse(x)
      PROVE  BInv'
  <2>1. PICK ok \in BOOLEAN, kept \in SUBSET toClickhouse[x] :
               /\ ok => kept = toClickhouse[x]
               /\ results' = [i \in DOMAIN bulk |->
                    IF i \in toClickhouse[x] THEN [by |-> "clickhouse", ok |-> ok]
                    ELSE results[i]]
               /\ stored' = stored \union In("clickhouse", kept)
    BY <1>5 DEF SendToClickhouse
  <2>2. /\ pc = "clickhouse" /\ pc' = "clickhouse"
        /\ UNCHANGED <<bulk, defaultIndex, toElastic>>
        /\ toClickhouse' = [toClickhouse EXCEPT ![x] = {}]
    BY <1>5 DEF SendToClickhouse
  <2>3. Resolved /\ Resolved'
    BY <2>2 DEF BInv, Resolved, IndexOf
  <2>4. /\ results' = [i \in DOMAIN bulk' |-> results'[i]]
        /\ toClickhouse' \in [Indexes -> SUBSET DOMAIN bulk']
        /\ \A y \in Indexes : \A i \in toClickhouse'[y] :
             y = IndexOf(i)' /\ "clickhouse" \in Connectors[y]
    BY <2>1, <2>2, <2>3 DEF BInv, IndexOf
  <2>5. ASSUME NEW i \in DOMAIN bulk'
        PROVE  Settled(i)' \/ WaitingFor(i)'
    <3>1. i \in DOMAIN bulk /\ IndexOf(i) \in Indexes /\ IndexOf(i)' = IndexOf(i)
          /\ AnsweredBy(i)' = AnsweredBy(i)
      BY <2>2, <2>3 DEF Resolved, IndexOf, AnsweredBy
    <3>2. CASE i \in toClickhouse[x]
      <4>1. AnsweredBy(i) = "clickhouse"
        BY <2>2, <3>1, <3>2 DEF BInv, AnsweredBy
      <4> QED BY <2>1, <3>1, <3>2, <4>1 DEF Settled, In
    <3>3. CASE i \notin toClickhouse[x]
      <4>1. results'[i] = results[i]
        BY <2>1, <3>1, <3>3
      <4>2. Settled(i) => Settled(i)'
        BY <2>1, <3>1, <4>1 DEF Settled
      <4>3. WaitingFor(i) => WaitingFor(i)'
        BY <2>2, <3>1, <3>3 DEF WaitingFor, BInv
      <4> QED BY <2>2, <3>1, <4>2, <4>3 DEF BInv
    <3> QED BY <3>2, <3>3
  <2> QED BY <2>2, <2>3, <2>4, <2>5 DEF BInv
<1>6. CASE Answer
  <2>1. /\ pc = "clickhouse" /\ pc' = "answered" /\ results' = WithoutEmpty(results)
        /\ \A x \in Indexes : toClickhouse[x] = {}
        /\ UNCHANGED <<bulk, defaultIndex, stored>>
    BY <1>6 DEF Answer
  <2>2. \A i \in 1 .. n : Settled(i) /\ IndexOf(i) \in Indexes
    BY <2>1 DEF BInv, Resolved, WaitingFor
  <2>3. ASSUME NEW i \in 1 .. n
        PROVE  results[i] # NoResult
    <3>1. AnsweredBy(i) # "nobody"
      BY <2>2, AnsweredByCases
    <3>2. results[i].by # "nobody"
      BY <2>2, <3>1 DEF Settled
    <3> QED BY <3>2 DEF NoResult
  <2>4. results' = results /\ DOMAIN results = 1 .. n
    BY <2>1, <2>3, NothingEmpty DEF BInv
  <2>5. BulkAnswersInPlace'
    <3>1. Len(results') = Len(bulk')
      BY <2>1, <2>4, LenProperties
    <3>2. \A i \in 1 .. n : Settled(i)'
      BY <2>1, <2>2, <2>4 DEF Settled, AnsweredBy, IndexOf
    <3> QED BY <2>1, <3>1, <3>2 DEF BulkAnswersInPlace, Settled
  <2> QED BY <2>1, <2>5 DEF BInv
<1> QED BY <1>1, <1>2, <1>3, <1>4, <1>5, <1>6 DEF BulkNext

\* A client may repeat a bulk that failed: nothing of it is in ClickHouse; the
\* answer to another (bulk.Write) has an item for each entry in its place,
\* which claims nothing that its backend does not have, for any bulk.
THEOREM BulkAnswersAlwaysInPlace == BulkSpec => []BulkAnswersInPlace
<1>1. ASSUME BInv, UNCHANGED bulkVars
      PROVE  BInv'
  <2>1. /\ UNCHANGED <<bulk, pc, results, toElastic, toClickhouse, stored>>
        /\ \A i : IndexOf(i)' = IndexOf(i)
    BY <1>1 DEF bulkVars, IndexOf
  <2>2. \A i : AnsweredBy(i)' = AnsweredBy(i)
    BY <2>1 DEF AnsweredBy
  <2>3. Resolved' <=> Resolved
    BY <2>1 DEF Resolved
  <2>4. SplitInParts' <=> SplitInParts
    BY <2>1 DEF SplitInParts, For, ByIndex
  <2>5. \A i : (Settled(i)' <=> Settled(i)) /\ (WaitingFor(i)' <=> WaitingFor(i))
    BY <2>1, <2>2 DEF Settled, WaitingFor
  <2>6. BulkAnswersInPlace' <=> BulkAnswersInPlace
    BY <2>1, <2>2 DEF BulkAnswersInPlace
  <2> QED BY <1>1, <2>1, <2>2, <2>3, <2>4, <2>5, <2>6 DEF BInv, NothingInClickhouse
<1>2. BInv /\ [BulkNext]_bulkVars => BInv'
  BY <1>1, BulkSteps
<1>3. BInv => BulkAnswersInPlace
  BY DEF BInv, BulkAnswersInPlace, NothingInClickhouse
<1> QED BY <1>2, <1>3, BulkInitially, PTL DEF BulkSpec

-----------------------------------------------------------------------------
(* The logs: the length of a buffer.                                       *)

\* Messages, and those that are more than a request to flush.
Messages == [n : Nat, size : Nat]
Real     == [n : Nat \ {0}, size : Nat]

\* Induction: every set of natural numbers has a least one.
LEMMA LeastNatural ==
  ASSUME NEW T \in SUBSET Nat, T # {}
  PROVE  \E n \in T : \A k \in T : n <= k
<1> DEFINE Less == {p \in Nat \X Nat : p[1] < p[2]}
<1>1. OpToRel(<, Nat) = Less
  BY DEF OpToRel
<1>2. IsWellFoundedOn(Less, Nat)
  BY <1>1, NatLessThanWellFounded
<1> HIDE DEF Less
<1>3. PICK n \in T : \A y \in T : ~ (<<y, n>> \in Less)
  BY <1>2, WFMin
<1>4. \A y \in T : ~ (y < n)
  BY <1>3 DEF Less
<1> QED BY <1>4

\* The sum of the first k numbers of a.
IsSum(sum, a, k) ==
  sum = [i \in 0 .. k |-> IF i = 0 THEN 0 ELSE sum[i - 1] + a[i]]

LEMMA SumExists ==
  ASSUME NEW a, NEW k \in Nat
  PROVE  \E sum : IsSum(sum, a, k)
<1> DEFINE bad == {i \in Nat : ~ \E sum : IsSum(sum, a, i)}
<1> SUFFICES ASSUME bad # {}
             PROVE  FALSE
  OBVIOUS
<1>1. PICK n \in bad : \A i \in bad : n <= i
  <2> HIDE DEF bad
  <2>1. bad \in SUBSET Nat
    BY DEF bad
  <2> QED BY <2>1, LeastNatural
<1>2. CASE n = 0
  <2> DEFINE sum == [i \in 0 .. 0 |-> 0]
  <2>1. IsSum(sum, a, 0)
    BY DEF IsSum
  <2> QED BY <1>2, <2>1
<1>3. CASE n # 0
  <2>1. n - 1 \in Nat /\ n - 1 \notin bad
    BY <1>1, <1>3
  <2>2. PICK sum : IsSum(sum, a, n - 1)
    BY <2>1
  <2> DEFINE more == [i \in 0 .. n |-> IF i = n THEN sum[n - 1] + a[n] ELSE sum[i]]
  <2>3. \A i \in 0 .. (n - 1) : sum[i] = IF i = 0 THEN 0 ELSE sum[i - 1] + a[i]
    BY <2>1, <2>2 DEF IsSum
  <2>4. \A i \in 0 .. n : more[i] = IF i = 0 THEN 0 ELSE more[i - 1] + a[i]
    BY <1>3, <2>1, <2>3
  <2>5. IsSum(more, a, n)
    BY <2>4 DEF IsSum
  <2> QED BY <2>5
<1> QED BY <1>2, <1>3

\* It depends on those numbers only.
Agree(a, b, m) == \A i \in 1 .. m : a[i] = b[i]

LEMMA SumAgrees ==
  ASSUME NEW a, NEW b, NEW k \in Nat, NEW l \in Nat, NEW m \in Nat, m <= k, m <= l,
         Agree(a, b, m),
         NEW s, IsSum(s, a, k), NEW t, IsSum(t, b, l)
  PROVE  \A i \in 0 .. m : s[i] = t[i]
<1> DEFINE bad == {i \in Nat : i <= m /\ s[i] # t[i]}
<1> SUFFICES ASSUME bad # {}
             PROVE  FALSE
  OBVIOUS
<1>1. PICK n \in bad : \A i \in bad : n <= i
  <2> HIDE DEF bad
  <2>1. bad \in SUBSET Nat
    BY DEF bad
  <2> QED BY <2>1, LeastNatural
<1>2. s[n] = (IF n = 0 THEN 0 ELSE s[n - 1] + a[n])
  BY DEF IsSum
<1>3. t[n] = (IF n = 0 THEN 0 ELSE t[n - 1] + b[n])
  BY DEF IsSum
<1>4. n # 0 => n - 1 \in Nat /\ n - 1 \notin bad /\ a[n] = b[n]
  BY <1>1 DEF Agree
<1> QED BY <1>2, <1>3, <1>4

\* Total of Telemetry.
LEMMA TotalIs ==
  ASSUME NEW a, Len(a) \in Nat
  PROVE  \E sum : IsSum(sum, a, Len(a)) /\ Total(a) = sum[Len(a)]
<1> DEFINE sum == CHOOSE s : IsSum(s, a, Len(a))
<1>1. IsSum(sum, a, Len(a))
  BY SumExists
<1>2. Total(a) = sum[Len(a)]
  BY DEF Total, IsSum
<1> QED BY <1>1, <1>2

LEMMA TotalOfNone == Total(<<>>) = 0
<1>1. Len(<<>>) = 0
  OBVIOUS
<1>2. PICK sum : IsSum(sum, <<>>, 0) /\ Total(<<>>) = sum[0]
  BY <1>1, TotalIs
<1> QED BY <1>2 DEF IsSum

\* One number more.
LEMMA TotalOfMore ==
  ASSUME NEW a, NEW b, Len(a) \in Nat, Len(b) = Len(a) + 1, Agree(a, b, Len(a))
  PROVE  Total(b) = Total(a) + b[Len(b)]
<1> DEFINE n == Len(a)
<1>1. PICK s : IsSum(s, a, n) /\ Total(a) = s[n]
  BY TotalIs
<1>2. PICK t : IsSum(t, b, n + 1) /\ Total(b) = t[n + 1]
  BY TotalIs
<1> HIDE DEF n
<1>3. n \in Nat /\ Agree(a, b, n) /\ Len(b) = n + 1
  BY DEF n
<1>4. s[n] = t[n]
  <2>1. n + 1 \in Nat /\ n <= n /\ n <= n + 1 /\ n \in 0 .. n
    BY <1>3
  <2> QED BY <1>1, <1>2, <1>3, <2>1, SumAgrees
<1>5. t[n + 1] = t[n] + b[n + 1]
  BY <1>2, <1>3 DEF IsSum
<1> QED BY <1>1, <1>2, <1>3, <1>4, <1>5

LEMMA TotalType ==
  ASSUME NEW a, Len(a) \in Nat, \A i \in 1 .. Len(a) : a[i] \in Nat
  PROVE  Total(a) \in Nat
<1> DEFINE n == Len(a)
<1>1. PICK s : IsSum(s, a, n) /\ Total(a) = s[n]
  BY TotalIs
<1>2. n \in Nat /\ \A i \in 1 .. n : a[i] \in Nat
  OBVIOUS
<1> HIDE DEF n
<1> DEFINE bad == {i \in Nat : i <= n /\ s[i] \notin Nat}
<1> SUFFICES ASSUME bad # {}
             PROVE  FALSE
  BY <1>1, <1>2
<1>3. PICK k \in bad : \A i \in bad : k <= i
  <2> HIDE DEF bad
  <2>1. bad \in SUBSET Nat
    BY DEF bad
  <2> QED BY <2>1, LeastNatural
<1>4. s[k] = IF k = 0 THEN 0 ELSE s[k - 1] + a[k]
  BY <1>1, <1>2 DEF IsSum
<1>5. k # 0 => k - 1 \in Nat /\ k - 1 \notin bad
  BY <1>3
<1> QED BY <1>2, <1>4, <1>5

\* Length of LogForwarding is the sum of the sizes.
SizesOf(b) == [i \in 1 .. Len(b) |-> b[i].size]

LEMMA LengthIs ==
  ASSUME NEW S, NEW b \in Seq(S)
  PROVE  /\ Length(b) = Total(SizesOf(b))
         /\ Len(SizesOf(b)) = Len(b)
<1> DEFINE n == Len(b)
           a == SizesOf(b)
           IsLength(f) == f = [i \in 0 .. n |-> IF i = 0 THEN 0 ELSE f[i - 1] + b[i].size]
           l == CHOOSE f : IsLength(f)
<1>1. n \in Nat /\ Len(a) = n /\ \A i \in 1 .. n : a[i] = b[i].size
  <2>1. n \in Nat
    BY LenProperties
  <2> HIDE DEF n
  <2>2. a = [i \in 1 .. n |-> b[i].size]
    BY DEF n, SizesOf
  <2>3. Len([i \in 1 .. n |-> b[i].size]) = n
    BY <2>1
  <2> QED BY <2>1, <2>2, <2>3
<1>2. Length(b) = l[n]
  BY DEF Length
<1> HIDE DEF n, a
<1>3. ASSUME NEW f
      PROVE  IsLength(f) <=> IsSum(f, a, n)
  <2>1. [i \in 0 .. n |-> IF i = 0 THEN 0 ELSE f[i - 1] + b[i].size]
          = [i \in 0 .. n |-> IF i = 0 THEN 0 ELSE f[i - 1] + a[i]]
    BY <1>1
  <2> QED BY <2>1 DEF IsSum
<1>4. IsSum(l, a, n)
  <2>1. \E f : IsLength(f)
    BY <1>1, <1>3, SumExists
  <2> HIDE DEF IsLength
  <2> QED BY <1>3, <2>1
<1> HIDE DEF l
<1>5. PICK s : IsSum(s, a, n) /\ Total(a) = s[n]
  BY <1>1, TotalIs
<1>6. l[n] = s[n]
  <2>1. Agree(a, a, n) /\ n \in Nat /\ n <= n /\ n \in 0 .. n
    BY <1>1 DEF Agree
  <2>2. \A i \in 0 .. n : l[i] = s[i]
    BY <1>4, <1>5, <2>1, SumAgrees
  <2> QED BY <2>1, <2>2
<1> QED BY <1>1, <1>2, <1>5, <1>6 DEF n, a

LEMMA LengthOfNone == Length(<<>>) = 0
<1>1. <<>> \in Seq(Real) /\ Len(<<>>) = 0
  BY EmptySeq
<1>2. Length(<<>>) = Total(SizesOf(<<>>))
  BY <1>1, LengthIs
<1>3. SizesOf(<<>>) = <<>>
  BY <1>1 DEF SizesOf
<1> QED BY <1>2, <1>3, TotalOfNone

LEMMA LengthOfMore ==
  ASSUME NEW S, NEW b \in Seq(S), NEW m \in S
  PROVE  Length(Append(b, m)) = Length(b) + m.size
<1> DEFINE c == Append(b, m)
           n == Len(b)
<1>1. /\ n \in Nat /\ Len(c) = n + 1 /\ c[n + 1] = m /\ c \in Seq(S)
      /\ \A i \in 1 .. n : b[i] = c[i]
  BY AppendProperties
<1>2. /\ Length(b) = Total(SizesOf(b)) /\ Len(SizesOf(b)) = n
      /\ Length(c) = Total(SizesOf(c)) /\ Len(SizesOf(c)) = n + 1
  BY <1>1, LengthIs
<1> HIDE DEF c, n
<1>3. Agree(SizesOf(b), SizesOf(c), n) /\ SizesOf(c)[n + 1] = m.size
  <2>1. Len(b) = n /\ Len(c) = n + 1 /\ n + 1 \in 1 .. n + 1 /\ \A i \in 1 .. n : i \in 1 .. n + 1
    BY <1>1 DEF n
  <2> QED BY <1>1, <2>1 DEF Agree, SizesOf
<1> QED BY <1>1, <1>2, <1>3, TotalOfMore DEF c

LEMMA LengthType ==
  ASSUME NEW b \in Seq(Real)
  PROVE  Length(b) \in Nat
<1>1. Len(b) \in Nat /\ \A i \in 1 .. Len(b) : b[i].size \in Nat
  <2>1. Len(b) \in Nat /\ \A i \in 1 .. Len(b) : b[i] \in Real
    BY LenProperties, ElementOfSeq
  <2> QED BY <2>1 DEF Real
<1>2. Length(b) = Total(SizesOf(b)) /\ Len(SizesOf(b)) = Len(b)
  BY LengthIs
<1>3. \A i \in 1 .. Len(b) : SizesOf(b)[i] \in Nat
  BY <1>1 DEF SizesOf
<1> QED BY <1>1, <1>2, <1>3, TotalType

\* What the channel holds.
Sendable == Real \union {NoMessage}

LEMMA SendableAreMessages == Sendable \subseteq Messages /\ Real \subseteq Sendable /\ NoMessage \notin Real
BY DEF Sendable, Real, Messages, NoMessage

\* Messages are in the order of writing, within a sequence and between two.
Ascending(q) ==
  \A i, j \in DOMAIN q :
    i < j /\ q[i] # NoMessage /\ q[j] # NoMessage => q[i].n < q[j].n

Before(b, q) ==
  \A i \in DOMAIN b, j \in DOMAIN q : q[j] # NoMessage => b[i].n < q[j].n

Pending == Numbers(buffer) \union Numbers(logCh)

LogInv ==
  /\ buffer \in Seq(Real) /\ logCh \in Seq(Sendable)
  /\ written \in Nat /\ capacity \in Nat \ {0}
  /\ Ascending(buffer) /\ Ascending(logCh) /\ Before(buffer, logCh)
  /\ Pending \subseteq 0 .. written /\ acknowledged \subseteq 1 .. written
  /\ 1 .. written \subseteq Pending \union delivered \union dropped
  /\ Pending \intersect acknowledged = {}
  /\ Length(buffer) <= capacity /\ Len(logCh) <= ChannelSize

LEMMA NumbersOfNone == Numbers(<<>>) = {}
BY DEF Numbers

LEMMA NumbersOfMore ==
  ASSUME NEW S, NEW q \in Seq(S), NEW m \in S
  PROVE  Numbers(Append(q, m)) = Numbers(q) \union {m.n}
<1>1. /\ DOMAIN q = 1 .. Len(q) /\ DOMAIN Append(q, m) = 1 .. (Len(q) + 1)
      /\ Len(q) \in Nat
      /\ \A i \in 1 .. Len(q) : Append(q, m)[i] = q[i]
      /\ Append(q, m)[Len(q) + 1] = m
  BY AppendProperties, LenProperties
<1>2. 1 .. (Len(q) + 1) = 1 .. Len(q) \union {Len(q) + 1}
  BY <1>1
<1> QED BY <1>1, <1>2 DEF Numbers

LEMMA AscendingMore ==
  ASSUME NEW S, NEW q \in Seq(S), NEW m \in S, Ascending(q),
         m # NoMessage => \A i \in DOMAIN q : q[i] # NoMessage => q[i].n < m.n
  PROVE  Ascending(Append(q, m))
<1>1. /\ DOMAIN q = 1 .. Len(q) /\ DOMAIN Append(q, m) = 1 .. (Len(q) + 1)
      /\ Len(q) \in Nat
      /\ \A i \in 1 .. Len(q) : Append(q, m)[i] = q[i]
      /\ Append(q, m)[Len(q) + 1] = m
  BY AppendProperties, LenProperties
<1> QED BY <1>1 DEF Ascending

\* Add leaves a request to flush out.
LEMMA AddIs ==
  ASSUME NEW b \in Seq(Real), NEW m \in Sendable, Ascending(b),
         m # NoMessage => \A i \in DOMAIN b : b[i].n < m.n
  PROVE  /\ Add(b, m) \in Seq(Real) /\ Ascending(Add(b, m))
         /\ Numbers(Add(b, m)) = Numbers(b) \union (IF m = NoMessage THEN {} ELSE {m.n})
         /\ Length(Add(b, m)) = Length(b) + m.size
<1>1. CASE m = NoMessage
  <2>1. Length(b) \in Nat
    BY LengthType
  <2> QED BY <1>1, <2>1 DEF Add, NoMessage
<1>2. CASE m # NoMessage
  <2>1. m \in Real /\ Add(b, m) = Append(b, m) /\ Append(b, m) \in Seq(Real)
    BY <1>2, AppendProperties DEF Sendable, Add
  <2> QED BY <1>2, <2>1, AscendingMore, NumbersOfMore, LengthOfMore
<1> QED BY <1>1, <1>2

LEMMA EmptyBuffer ==
  /\ <<>> \in Seq(Real) /\ Ascending(<<>>) /\ Numbers(<<>>) = {} /\ Length(<<>>) = 0
  /\ \A q : Before(<<>>, q)
BY LengthOfNone DEF Ascending, Numbers, Before

\* What is left of a sequence without its first element.
LEMMA TailIs ==
  ASSUME NEW S, NEW q \in Seq(S), q # <<>>
  PROVE  /\ Head(q) \in S /\ Tail(q) \in Seq(S) /\ Len(Tail(q)) = Len(q) - 1
         /\ DOMAIN q = 1 .. Len(q) /\ Len(q) \in Nat \ {0} /\ q[1] = Head(q)
         /\ DOMAIN Tail(q) = 1 .. (Len(q) - 1)
         /\ \A j \in DOMAIN Tail(q) : Tail(q)[j] = q[j + 1]
BY HeadTailProperties, LenProperties, EmptySeq

LEMMA NumbersOfTail ==
  ASSUME NEW S, NEW q \in Seq(S), q # <<>>
  PROVE  Numbers(q) = {Head(q).n} \union Numbers(Tail(q))
<1> DEFINE t == Tail(q)
<1>1. /\ DOMAIN q = 1 .. Len(q) /\ Len(q) \in Nat \ {0} /\ q[1] = Head(q)
      /\ DOMAIN t = 1 .. (Len(q) - 1) /\ \A j \in DOMAIN t : t[j] = q[j + 1]
  BY TailIs
<1> HIDE DEF t
<1>2. ASSUME NEW i \in DOMAIN q
      PROVE  q[i].n \in {Head(q).n} \union Numbers(t)
  <2>1. i = 1 \/ (i - 1 \in DOMAIN t /\ t[i - 1] = q[i])
    BY <1>1
  <2> QED BY <1>1, <2>1 DEF Numbers
<1>3. ASSUME NEW j \in DOMAIN t
      PROVE  t[j].n \in Numbers(q)
  <2>1. j + 1 \in DOMAIN q /\ t[j] = q[j + 1]
    BY <1>1
  <2> QED BY <2>1 DEF Numbers
<1>4. Head(q).n \in Numbers(q)
  BY <1>1 DEF Numbers
<1> QED BY <1>2, <1>3, <1>4 DEF Numbers, t

LEMMA OrderOfTail ==
  ASSUME NEW S, NEW q \in Seq(S), q # <<>>, Ascending(q)
  PROVE  /\ Ascending(Tail(q))
         /\ Head(q) # NoMessage =>
              \A j \in DOMAIN Tail(q) : Tail(q)[j] # NoMessage => Head(q).n < Tail(q)[j].n
         /\ \A b : Before(b, q) =>
              /\ Before(b, Tail(q))
              /\ Head(q) # NoMessage => \A i \in DOMAIN b : b[i].n < Head(q).n
<1> DEFINE t == Tail(q)
<1>1. /\ DOMAIN q = 1 .. Len(q) /\ Len(q) \in Nat \ {0} /\ q[1] = Head(q)
      /\ DOMAIN t = 1 .. (Len(q) - 1) /\ \A j \in DOMAIN t : t[j] = q[j + 1]
  BY TailIs
<1> HIDE DEF t
<1>2. \A j \in DOMAIN t : j + 1 \in DOMAIN q /\ 1 < j + 1 /\ t[j] = q[j + 1]
  BY <1>1
<1>3. Ascending(t)
  BY <1>1, <1>2 DEF Ascending
<1>4. Head(q) # NoMessage =>
        \A j \in DOMAIN t : t[j] # NoMessage => Head(q).n < t[j].n
  BY <1>1, <1>2 DEF Ascending
<1>5. \A b : Before(b, q) =>
        Before(b, t) /\ (Head(q) # NoMessage => \A i \in DOMAIN b : b[i].n < Head(q).n)
  BY <1>1, <1>2 DEF Before
<1> QED BY <1>3, <1>4, <1>5 DEF t

\* The first message of the channel comes after the buffer, before the others.
LEMMA TakeParts ==
  ASSUME LogInv, NEW m, TakeMessage(m)
  PROVE  /\ m \in Sendable /\ logCh' \in Seq(Sendable) /\ Len(logCh') <= ChannelSize
         /\ Ascending(logCh') /\ Before(buffer, logCh')
         /\ Numbers(logCh) = {m.n} \union Numbers(logCh')
         /\ m # NoMessage =>
              /\ \A i \in DOMAIN buffer : buffer[i].n < m.n
              /\ \A j \in DOMAIN logCh' : logCh'[j] # NoMessage => m.n < logCh'[j].n
         /\ UNCHANGED <<written, flushes>>
<1>1. /\ logCh # <<>> /\ m = Head(logCh) /\ logCh' = Tail(logCh) /\ UNCHANGED <<written, flushes>>
      /\ logCh \in Seq(Sendable) /\ Ascending(logCh) /\ Before(buffer, logCh)
  BY DEF TakeMessage, LogInv
<1>2. /\ m \in Sendable /\ logCh' \in Seq(Sendable) /\ Len(logCh') = Len(logCh) - 1
      /\ Len(logCh) \in Nat
  BY <1>1, TailIs
<1>3. Numbers(logCh) = {m.n} \union Numbers(logCh')
  BY <1>1, NumbersOfTail
<1>4. Len(logCh') <= ChannelSize
  BY <1>2, LogForwardingAssumption DEF LogInv
<1> QED BY <1>1, <1>2, <1>3, <1>4, OrderOfTail

-----------------------------------------------------------------------------
(* The logs: each step.                                                    *)

LEMMA LogInitially == ForwardingInit => LogInv
<1> SUFFICES ASSUME ForwardingInit
             PROVE  LogInv
  OBVIOUS
<1>1. <<>> \in Seq(Sendable) /\ Len(<<>>) = 0
  OBVIOUS
<1>2. capacity \in Nat \ {0} /\ ChannelSize \in Nat
  BY LogForwardingAssumption DEF ForwardingInit
<1> QED BY <1>1, <1>2, EmptyBuffer DEF ForwardingInit, LogInv, Pending

\* A message or a request to flush is put into the channel.
LEMMA Enqueued ==
  ASSUME LogInv, Room, NEW x \in Sendable, logCh' = Append(logCh, x),
         \/ x = NoMessage /\ written' = written
         \/ x.n = written + 1 /\ written' = written + 1,
         UNCHANGED <<buffer, capacity, acknowledged, delivered, dropped>>
  PROVE  LogInv'
<1>1. /\ logCh \in Seq(Sendable) /\ DOMAIN logCh = 1 .. Len(logCh) /\ Len(logCh) \in Nat
      /\ logCh' \in Seq(Sendable) /\ DOMAIN logCh' = 1 .. (Len(logCh) + 1)
      /\ Len(logCh') = Len(logCh) + 1 /\ logCh'[Len(logCh) + 1] = x
      /\ \A i \in 1 .. Len(logCh) : logCh'[i] = logCh[i]
  BY AppendProperties, LenProperties DEF LogInv
<1>2. Len(logCh') <= ChannelSize
  BY <1>1, LogForwardingAssumption DEF LogInv, Room
<1>3. Numbers(logCh') = Numbers(logCh) \union {x.n}
  BY <1>1, NumbersOfMore
<1>4. /\ \A i \in DOMAIN logCh : logCh[i].n \in 0 .. written
      /\ \A i \in DOMAIN buffer : buffer[i].n \in 0 .. written
  BY DEF LogInv, Pending, Numbers
<1>5. Ascending(logCh')
  BY <1>1, <1>4, AscendingMore DEF LogInv
<1>6. Before(buffer', logCh')
  BY <1>1, <1>4 DEF LogInv, Before
<1>7. x = NoMessage => x.n = 0
  BY DEF NoMessage
<1>8. written' \in Nat /\ 1 .. written' \subseteq 1 .. written \union {x.n}
  BY DEF LogInv
<1>9. Pending' = Pending \union {x.n}
  BY <1>3 DEF Pending
<1>10. /\ Pending' \subseteq 0 .. written' /\ acknowledged' \subseteq 1 .. written'
       /\ 1 .. written' \subseteq Pending' \union delivered' \union dropped'
       /\ Pending' \intersect acknowledged' = {}
  <2>1. /\ written \in Nat /\ Pending \subseteq 0 .. written /\ acknowledged \subseteq 1 .. written
        /\ 1 .. written \subseteq Pending \union delivered \union dropped
        /\ Pending \intersect acknowledged = {}
        /\ acknowledged' = acknowledged /\ delivered' = delivered /\ dropped' = dropped
    BY DEF LogInv
  <2>2. x.n \in 0 .. written' /\ x.n \notin 1 .. written /\ written <= written'
    BY <1>7, <2>1
  <2>3. Pending' \intersect acknowledged' = {}
    BY <1>9, <2>1, <2>2
  <2>4. 1 .. written' \subseteq Pending' \union delivered' \union dropped'
    BY <1>8, <1>9, <2>1
  <2>5. 0 .. written \subseteq 0 .. written' /\ 1 .. written \subseteq 1 .. written'
    BY <1>8, <2>1, <2>2
  <2> QED BY <1>9, <2>1, <2>2, <2>3, <2>4, <2>5
<1> QED BY <1>1, <1>2, <1>5, <1>6, <1>8, <1>10 DEF LogInv

NumberOf(m) == IF m = NoMessage THEN {} ELSE {m.n}

\* A message is taken, with c in the buffer afterwards: nothing is lost, and
\* what is acknowledged is neither in c nor in the channel.
LEMMA Eaten ==
  ASSUME LogInv, NEW m, TakeMessage(m),
         NEW c \in {Add(buffer, m), Add(<<>>, m), <<>>}, buffer' = c,
         capacity' \in Nat \ {0}, Length(c) <= capacity',
         delivered \subseteq delivered', dropped \subseteq dropped',
         Numbers(buffer) \union NumberOf(m) \subseteq Numbers(c) \union delivered' \union dropped',
         NEW A, A \subseteq Numbers(buffer) \union NumberOf(m), A \intersect Numbers(c) = {},
         acknowledged' = acknowledged \union A
  PROVE  LogInv'
<1>1. /\ buffer \in Seq(Real) /\ DOMAIN buffer = 1 .. Len(buffer)
      /\ \A i \in DOMAIN buffer : buffer[i] \in Real
  BY LenProperties, ElementOfSeq DEF LogInv
<1>2. /\ m \in Sendable /\ logCh' \in Seq(Sendable) /\ Len(logCh') <= ChannelSize
      /\ Ascending(logCh') /\ Before(buffer, logCh')
      /\ Numbers(logCh) = {m.n} \union Numbers(logCh')
      /\ m # NoMessage =>
           /\ \A i \in DOMAIN buffer : buffer[i].n < m.n
           /\ \A j \in DOMAIN logCh' : logCh'[j] # NoMessage => m.n < logCh'[j].n
      /\ written' = written
  BY TakeParts
<1>3. /\ c \in Seq(Real) /\ Ascending(c)
      /\ Numbers(c) \subseteq Numbers(buffer) \union NumberOf(m)
  <2>1. Ascending(buffer) /\ \A b : Numbers(b) \union NumberOf(m) =
          Numbers(b) \union (IF m = NoMessage THEN {} ELSE {m.n})
    BY DEF LogInv, NumberOf
  <2>2. CASE c = Add(buffer, m)
    BY <1>1, <1>2, <2>1, <2>2, AddIs
  <2>3. CASE c = Add(<<>>, m)
    <3>1. DOMAIN <<>> = {}
      OBVIOUS
    <3>2. /\ c \in Seq(Real) /\ Ascending(c)
          /\ Numbers(c) = Numbers(<<>>) \union (IF m = NoMessage THEN {} ELSE {m.n})
      BY <1>2, <2>3, <3>1, AddIs, EmptyBuffer
    <3> QED BY <3>2, EmptyBuffer DEF NumberOf
  <2>4. CASE c = <<>>
    BY <2>4, EmptyBuffer
  <2> QED BY <2>2, <2>3, <2>4
<1>4. Before(c, logCh')
  <2>1. \A n \in Numbers(buffer) \union NumberOf(m) : \A j \in DOMAIN logCh' :
          logCh'[j] # NoMessage => n < logCh'[j].n
    BY <1>2 DEF Numbers, NumberOf, Before
  <2>2. \A i \in DOMAIN c : c[i].n \in Numbers(c)
    BY DEF Numbers
  <2> QED BY <1>3, <2>1, <2>2 DEF Before
<1>5. /\ \A n \in Numbers(buffer) \union NumberOf(m) : n \in 1 .. written
      /\ (Numbers(buffer) \union NumberOf(m)) \intersect Numbers(logCh') = {}
  <2>1. \A j \in DOMAIN logCh' : logCh'[j] \in Sendable
    BY <1>2, ElementOfSeq, LenProperties
  <2>2. Numbers(buffer) \subseteq Nat \ {0} /\ NumberOf(m) \subseteq Nat \ {0}
    BY <1>1, <1>2 DEF Numbers, NumberOf, Sendable, Real
  <2>3. \A n \in Numbers(buffer) \union NumberOf(m) : \A j \in DOMAIN logCh' :
          n # logCh'[j].n
    <3>1. ASSUME NEW j \in DOMAIN logCh', logCh'[j] = NoMessage
          PROVE  logCh'[j].n = 0
      BY <3>1 DEF NoMessage
    <3>2. ASSUME NEW j \in DOMAIN logCh', logCh'[j] # NoMessage
          PROVE  \A n \in Numbers(buffer) \union NumberOf(m) : n < logCh'[j].n
      BY <1>2, <3>2 DEF Numbers, NumberOf, Before
    <3>3. \A j \in DOMAIN logCh' : logCh'[j].n \in Nat
      BY <2>1, SendableAreMessages DEF Messages
    <3> QED BY <2>2, <3>1, <3>2, <3>3
  <2>4. Numbers(buffer) \union NumberOf(m) \subseteq Pending
    BY <1>2 DEF Pending, NumberOf
  <2>5. Pending \subseteq 0 .. written /\ written \in Nat
    BY DEF LogInv
  <2>6. (Numbers(buffer) \union NumberOf(m)) \intersect Numbers(logCh') = {}
    BY <2>3 DEF Numbers
  <2> QED BY <2>2, <2>4, <2>5, <2>6
<1>6. Pending' \subseteq Pending /\ Pending' = Numbers(c) \union Numbers(logCh')
  BY <1>2, <1>3 DEF Pending, NumberOf
<1>7. 1 .. written \subseteq Pending' \union delivered' \union dropped'
  <2>1. Pending \subseteq Numbers(buffer) \union NumberOf(m) \union {0} \union Numbers(logCh')
    BY <1>2 DEF Pending, NumberOf, NoMessage
  <2> QED BY <1>6, <2>1 DEF LogInv
<1>8. Pending' \intersect acknowledged' = {} /\ acknowledged' \subseteq 1 .. written
  <2>1. A \intersect Pending' = {}
    BY <1>5, <1>6
  <2> QED BY <1>5, <1>6, <2>1 DEF LogInv
<1> QED BY <1>2, <1>3, <1>4, <1>6, <1>7, <1>8 DEF LogInv

\* The steps of the forwarder that take a message.
LEMMA EatKeepsLog ==
  ASSUME LogInv, NEW m, TakeMessage(m),
         Buffer(m) \/ SendAndKeep(m) \/ FailAndDrop(m) \/ FailAndRetry(m)
  PROVE  LogInv'
<1>1. /\ buffer \in Seq(Real) /\ Ascending(buffer) /\ capacity \in Nat \ {0}
      /\ m \in Sendable /\ m.size \in Nat
      /\ m # NoMessage => \A i \in DOMAIN buffer : buffer[i].n < m.n
      /\ Length(buffer) \in Nat /\ Length(buffer) <= capacity
  BY TakeParts, LengthType, SendableAreMessages DEF LogInv, Messages
<1>2. /\ Numbers(Add(buffer, m)) = Numbers(buffer) \union NumberOf(m)
      /\ Length(Add(buffer, m)) = Length(buffer) + m.size
      /\ Add(buffer, m) \in Seq(Real)
  BY <1>1, AddIs DEF NumberOf
<1>3. /\ Numbers(Add(<<>>, m)) = NumberOf(m) /\ Length(Add(<<>>, m)) = m.size
      /\ Add(<<>>, m) \in Seq(Real)
  <2>1. DOMAIN <<>> = {}
    OBVIOUS
  <2>2. /\ Numbers(Add(<<>>, m)) = Numbers(<<>>) \union (IF m = NoMessage THEN {} ELSE {m.n})
        /\ Length(Add(<<>>, m)) = Length(<<>>) + m.size
        /\ Add(<<>>, m) \in Seq(Real)
    BY <1>1, <2>1, AddIs, EmptyBuffer
  <2> QED BY <1>1, <2>2, EmptyBuffer DEF NumberOf
\* A request to flush always has room, in an empty buffer.
<1>4. buffer = <<>> /\ m = NoMessage => HasRoomFor(m)
  BY <1>1, EmptyBuffer DEF HasRoomFor, NoMessage
\* Whether the message is sent or kept, it is one of them.
<1>5. LET out == Numbers(ToSend(m))
          c == Keep(<<>>, m)
      IN  /\ out \subseteq Numbers(buffer) \union NumberOf(m)
          /\ Numbers(buffer) \union NumberOf(m) \subseteq out \union Numbers(c)
          /\ out \intersect Numbers(c) = {}
          /\ c \in {<<>>, Add(<<>>, m)}
          /\ Length(c) \in Nat
  <2>1. CASE ~StillFits(m)
    <3>1. Numbers(buffer) \intersect NumberOf(m) = {}
      <4>1. m # NoMessage => \A i \in DOMAIN buffer : buffer[i].n # m.n
        <5>1. m # NoMessage => m.n \in Nat
          BY <1>1 DEF Sendable, Real
        <5>2. \A i \in DOMAIN buffer : buffer[i] \in Real
          BY <1>1, ElementOfSeq, LenProperties
        <5>3. \A i \in DOMAIN buffer : buffer[i].n \in Nat
          BY <5>2 DEF Real
        <5> QED BY <1>1, <5>1, <5>3
      <4> QED BY <4>1 DEF Numbers, NumberOf
    <3>2. ToSend(m) = buffer /\ Keep(<<>>, m) = Add(<<>>, m)
      BY <2>1 DEF ToSend, Keep
    <3> QED BY <1>1, <1>3, <3>1, <3>2
  <2>2. CASE StillFits(m) /\ (HasRoomFor(m) \/ buffer # <<>>)
    <3>1. ToSend(m) = Add(buffer, m) /\ Keep(<<>>, m) = <<>>
      BY <2>2 DEF ToSend, Keep
    <3> QED BY <1>2, <3>1, EmptyBuffer
  <2>3. CASE StillFits(m) /\ ~HasRoomFor(m) /\ buffer = <<>>
    <3>1. ToSend(m) = <<[m EXCEPT !.size = capacity]>> /\ Keep(<<>>, m) = <<>>
      BY <2>3 DEF ToSend, Keep
    <3>2. m # NoMessage
      BY <1>4, <2>3
    <3>3. [m EXCEPT !.size = capacity].n = m.n
      BY <1>1 DEF Sendable, Real, NoMessage
    <3>4. Numbers(ToSend(m)) = {m.n}
      <4> DEFINE cut == [m EXCEPT !.size = capacity]
                 q == <<cut>>
      <4>1. q = Append(<<>>, cut) /\ cut.n = m.n
        BY <3>3
      <4> HIDE DEF cut
      <4>2. <<>> \in Seq({cut}) /\ cut \in {cut}
        OBVIOUS
      <4>3. Numbers(q) = {} \union {cut.n}
        BY <4>1, <4>2, NumbersOfMore, NumbersOfNone
      <4> QED BY <3>1, <4>1, <4>3 DEF cut
    <3>5. Numbers(buffer) = {}
      BY <2>3, EmptyBuffer
    <3> QED BY <3>1, <3>2, <3>4, <3>5, EmptyBuffer DEF NumberOf
  <2> QED BY <2>1, <2>2, <2>3
<1>6. CASE Buffer(m)
  <2>1. /\ buffer' = Add(buffer, m) /\ UNCHANGED <<capacity, acknowledged, delivered, dropped>>
        /\ Length(Add(buffer, m)) <= capacity
    BY <1>1, <1>2, <1>6 DEF Buffer, HasRoomFor
  <2> DEFINE c == Add(buffer, m)
  <2>2. /\ c \in {Add(buffer, m), Add(<<>>, m), <<>>} /\ buffer' = c
        /\ capacity' \in Nat \ {0} /\ Length(c) <= capacity'
        /\ delivered \subseteq delivered' /\ dropped \subseteq dropped'
        /\ Numbers(buffer) \union NumberOf(m) \subseteq Numbers(c) \union delivered' \union dropped'
        /\ {} \subseteq Numbers(buffer) \union NumberOf(m) /\ {} \intersect Numbers(c) = {}
        /\ acknowledged' = acknowledged \union {}
    BY <1>1, <1>2, <2>1
  <2> HIDE DEF c
  <2> QED BY <2>2, Eaten
<1>7. CASE FailAndRetry(m)
  <2>1. ToSend(m) = Add(buffer, m) /\ Length(Add(buffer, m)) <= capacity
    BY <1>1, <1>2, <1>7 DEF FailAndRetry, ToSend, StillFits, HasRoomFor
  <2>2. /\ buffer' = Add(buffer, m) /\ UNCHANGED <<capacity, acknowledged, dropped>>
        /\ delivered \subseteq delivered'
    BY <1>7, <2>1 DEF FailAndRetry, Fails
  <2> DEFINE c == Add(buffer, m)
  <2>3. /\ c \in {Add(buffer, m), Add(<<>>, m), <<>>} /\ buffer' = c
        /\ capacity' \in Nat \ {0} /\ Length(c) <= capacity'
        /\ delivered \subseteq delivered' /\ dropped \subseteq dropped'
        /\ Numbers(buffer) \union NumberOf(m) \subseteq Numbers(c) \union delivered' \union dropped'
        /\ {} \subseteq Numbers(buffer) \union NumberOf(m) /\ {} \intersect Numbers(c) = {}
        /\ acknowledged' = acknowledged \union {}
    BY <1>1, <1>2, <2>1, <2>2
  <2> HIDE DEF c
  <2> QED BY <2>3, Eaten
<1>8. CASE SendAndKeep(m) \/ FailAndDrop(m)
  <2> DEFINE c == Keep(<<>>, m)
             A == IF SendAndKeep(m) THEN Numbers(ToSend(m)) ELSE {}
  <2>1. Grows(c) /\ delivered \subseteq delivered' /\ dropped \subseteq dropped'
    BY <1>8 DEF SendAndKeep, FailAndDrop, Sent, Fails
  <2>2. /\ Numbers(ToSend(m)) \subseteq delivered' \union dropped'
        /\ acknowledged' = acknowledged \union A
    BY <1>8 DEF SendAndKeep, FailAndDrop, Sent, Fails
  <2>3. buffer' = c /\ capacity' \in Nat \ {0} /\ Length(c) <= capacity'
    BY <1>1, <1>5, <2>1, LogForwardingAssumption DEF Grows
  <2>4. /\ A \subseteq Numbers(buffer) \union NumberOf(m) /\ A \intersect Numbers(c) = {}
        /\ Numbers(buffer) \union NumberOf(m) \subseteq Numbers(c) \union delivered' \union dropped'
        /\ c \in {Add(buffer, m), Add(<<>>, m), <<>>}
    BY <1>5, <2>2
  <2> HIDE DEF c, A
  <2> QED BY <2>1, <2>2, <2>3, <2>4, Eaten
<1> QED BY <1>6, <1>7, <1>8

\* At the shutdown the buffer is sent, or kept.
LEMMA FlushKeepsLog ==
  ASSUME LogInv, FlushLogs
  PROVE  LogInv'
<1>1. /\ logCh' = logCh /\ capacity' = capacity /\ written' = written
      /\ delivered \subseteq delivered' /\ dropped' = dropped
  BY DEF FlushLogs, Sent, Fails
<1>2. CASE Sent(buffer) /\ buffer' = <<>>
  <2>1. /\ acknowledged' = acknowledged \union Numbers(buffer)
        /\ delivered' = delivered \union Numbers(buffer)
    BY <1>2 DEF Sent
  <2>2. Numbers(buffer) \intersect Numbers(logCh) = {} /\ Numbers(buffer) \subseteq 1 .. written
    <3>1. /\ \A i \in DOMAIN buffer : buffer[i] \in Real
          /\ \A j \in DOMAIN logCh : logCh[j] \in Sendable
      BY ElementOfSeq, LenProperties DEF LogInv
    <3>2. \A i \in DOMAIN buffer, j \in DOMAIN logCh : buffer[i].n # logCh[j].n
      <4> TAKE i \in DOMAIN buffer, j \in DOMAIN logCh
      <4>1. buffer[i].n \in Nat \ {0} /\ logCh[j].n \in Nat
        BY <3>1, SendableAreMessages DEF Real, Messages
      <4>2. logCh[j] = NoMessage => logCh[j].n = 0
        BY DEF NoMessage
      <4>3. logCh[j] # NoMessage => buffer[i].n < logCh[j].n
        BY DEF LogInv, Before
      <4> QED BY <4>1, <4>2, <4>3
    <3>3. \A i \in DOMAIN buffer : buffer[i].n \in Nat \ {0}
      BY <3>1 DEF Real
    <3>4. \A i \in DOMAIN buffer : buffer[i].n \in 0 .. written
      BY DEF LogInv, Pending, Numbers
    <3>5. \A i \in DOMAIN buffer : buffer[i].n \in 1 .. written
      BY <3>3, <3>4 DEF LogInv
    <3> QED BY <3>2, <3>5 DEF Numbers
  <2>3. /\ buffer' \in Seq(Real) /\ Ascending(buffer') /\ Before(buffer', logCh')
        /\ Numbers(buffer') = {} /\ Length(buffer') = 0
    BY <1>2, EmptyBuffer
  <2>4. Pending' = Numbers(logCh)
    BY <1>1, <2>3 DEF Pending
  <2>5. /\ Pending' \subseteq 0 .. written' /\ acknowledged' \subseteq 1 .. written'
        /\ 1 .. written' \subseteq Pending' \union delivered' \union dropped'
        /\ Pending' \intersect acknowledged' = {}
    BY <1>1, <2>1, <2>2, <2>4 DEF LogInv, Pending
  <2> QED BY <1>1, <2>3, <2>5 DEF LogInv
<1>3. CASE Fails(buffer) /\ UNCHANGED <<buffer, dropped>>
  <2>1. buffer' = buffer /\ acknowledged' = acknowledged
    BY <1>3 DEF Fails
  <2>2. Ascending(buffer') /\ Ascending(logCh') /\ Before(buffer', logCh') /\ Pending' = Pending
        /\ Length(buffer') = Length(buffer)
    BY <1>1, <2>1 DEF LogInv, Pending
  <2>3. 1 .. written' \subseteq Pending' \union delivered' \union dropped'
    BY <1>1, <2>2 DEF LogInv
  <2> QED BY <1>1, <2>1, <2>2, <2>3 DEF LogInv
<1> QED BY <1>2, <1>3 DEF FlushLogs

LEMMA LogSteps ==
  ASSUME LogInv, [ForwardingNext]_forwardVars
  PROVE  LogInv'
<1>1. ASSUME NEW size \in Nat, Writes(size),
             UNCHANGED <<buffer, capacity, acknowledged, delivered, dropped>>
      PROVE  LogInv'
  <2> DEFINE x == [n |-> written + 1, size |-> size]
  <2>1. x \in Sendable /\ x.n = written + 1
    BY DEF LogInv, Sendable, Real
  <2>2. Room /\ logCh' = Append(logCh, x) /\ written' = written + 1
    BY <1>1 DEF Writes
  <2> HIDE DEF x
  <2> QED BY <1>1, <2>1, <2>2, Enqueued
<1>2. CASE Write
  <2>1. PICK size \in Sizes : Writes(size)
    BY <1>2 DEF Write
  <2>2. size \in Nat
    BY LogForwardingAssumption
  <2> QED BY <1>1, <1>2, <2>1, <2>2 DEF Write
<1>3. CASE ReportFailure
  BY <1>1, <1>3 DEF ReportFailure
<1>4. CASE TriggerFlush
  <2>1. /\ Room /\ logCh' = Append(logCh, NoMessage) /\ written' = written
        /\ UNCHANGED <<buffer, capacity, acknowledged, delivered, dropped>>
    BY <1>4 DEF TriggerFlush
  <2>2. NoMessage \in Sendable
    BY DEF Sendable
  <2> DEFINE x == NoMessage
  <2>3. x = NoMessage /\ x \in Sendable /\ logCh' = Append(logCh, x)
    BY <2>1, <2>2
  <2> HIDE DEF x
  <2> QED BY <2>1, <2>3, Enqueued
<1>5. CASE EatLogMessage
  BY <1>5, EatKeepsLog DEF EatLogMessage
<1>6. CASE FlushLogs
  BY <1>6, FlushKeepsLog
<1>7. CASE UNCHANGED forwardVars
  <2>1. UNCHANGED <<logCh, buffer, capacity, written, acknowledged, delivered, dropped>>
    BY <1>7 DEF forwardVars
  <2> QED BY <2>1 DEF LogInv, Pending
<1> QED BY <1>2, <1>3, <1>4, <1>5, <1>6, <1>7 DEF ForwardingNext

\* The order and the numbers of what is pending, taken as one sequence.
LEMMA LogInvIsEnough == LogInv => LogsAreAccountedFor
<1> SUFFICES ASSUME LogInv
             PROVE  LogsAreAccountedFor
  OBVIOUS
<1> DEFINE b == Len(buffer)
           q == buffer \o logCh
<1>1. /\ buffer \in Seq(Messages) /\ logCh \in Seq(Messages)
      /\ b \in Nat /\ DOMAIN buffer = 1 .. b
      /\ Len(logCh) \in Nat /\ DOMAIN logCh = 1 .. Len(logCh)
  <2>1. buffer \in Seq(Real) /\ logCh \in Seq(Sendable)
    BY DEF LogInv
  <2>2. Real \subseteq Messages /\ Sendable \subseteq Messages
    BY SendableAreMessages DEF Real, Messages
  <2> QED BY <2>1, <2>2, LenProperties
<1>2. /\ DOMAIN q = 1 .. (b + Len(logCh))
      /\ \A i \in 1 .. (b + Len(logCh)) : q[i] = IF i <= b THEN buffer[i] ELSE logCh[i - b]
  BY <1>1, ConcatProperties, LenProperties
<1> HIDE DEF q, b
<1>3. ASSUME NEW i \in DOMAIN q
      PROVE  \/ i \in DOMAIN buffer /\ q[i] = buffer[i]
             \/ i - b \in DOMAIN logCh /\ q[i] = logCh[i - b] /\ i \notin DOMAIN buffer
  BY <1>1, <1>2
<1>4. \A i \in DOMAIN buffer : i \in DOMAIN q /\ q[i] = buffer[i]
  BY <1>1, <1>2
<1>5. ASSUME NEW j \in DOMAIN logCh
      PROVE  j + b \in DOMAIN q /\ q[j + b] = logCh[j]
  BY <1>1, <1>2
<1>6. Numbers(q) = Pending
  <2>1. Numbers(q) \subseteq Pending
    BY <1>3 DEF Pending, Numbers
  <2>2. Pending \subseteq Numbers(q)
    BY <1>4, <1>5 DEF Pending, Numbers
  <2> QED BY <2>1, <2>2
<1>7. ASSUME NEW i \in DOMAIN q, NEW j \in DOMAIN q, i < j, q[i] # NoMessage, q[j] # NoMessage
      PROVE  q[i].n < q[j].n
  <2>1. i \in DOMAIN buffer /\ j \in DOMAIN buffer => q[i].n < q[j].n
    BY <1>3, <1>7, <1>4 DEF LogInv, Ascending
  <2>2. i \in DOMAIN buffer /\ j \notin DOMAIN buffer => q[i].n < q[j].n
    BY <1>3, <1>7, <1>4 DEF LogInv, Before
  <2>3. i \notin DOMAIN buffer => q[i].n < q[j].n
    <3>1. i \notin DOMAIN buffer => j \notin DOMAIN buffer
      BY <1>1, <1>2, <1>7
    <3>2. i - b < j - b
      BY <1>1, <1>2, <1>7
    <3> QED BY <1>3, <1>7, <3>1, <3>2 DEF LogInv, Ascending
  <2> QED BY <2>1, <2>2, <2>3
<1> QED BY <1>6, <1>7 DEF LogsAreAccountedFor, LogInv, q

\* Whatever fails and whoever logs meanwhile, a message that was written is
\* pending, once and in its order, or delivered, or dropped after a failure, and
\* is not sent again once acknowledged (EatLogMessage), for any sizes and bounds.
THEOREM LogsAlwaysAccountedFor == ForwardingSpec => []LogsAreAccountedFor
BY LogInitially, LogSteps, LogInvIsEnough, PTL DEF ForwardingSpec

-----------------------------------------------------------------------------
(* Usage: how many of a sequence there are.                                *)

CountIn(s, T) == Cardinality({i \in DOMAIN s : s[i] \in T})

LEMMA CountType ==
  ASSUME NEW S, NEW s \in Seq(S), NEW T
  PROVE  /\ IsFiniteSet({i \in DOMAIN s : s[i] \in T}) /\ CountIn(s, T) \in Nat
         /\ DOMAIN s = 1 .. Len(s) /\ Len(s) \in Nat
<1>1. DOMAIN s = 1 .. Len(s) /\ Len(s) \in Nat
  BY LenProperties
<1>2. IsFiniteSet(1 .. Len(s)) /\ {i \in DOMAIN s : s[i] \in T} \in SUBSET (1 .. Len(s))
  BY <1>1, FS_Interval
<1>3. IsFiniteSet({i \in DOMAIN s : s[i] \in T})
  BY <1>2, FS_Subset
<1> QED BY <1>1, <1>3, FS_CardinalityType DEF CountIn

\* Sequences of which one is the other in another order have as many.
LEMMA CountSame ==
  ASSUME NEW s, NEW t, NEW T, IsFiniteSet(DOMAIN s),
         NEW h \in Bijection(DOMAIN s, DOMAIN t), \A i \in DOMAIN s : s[i] = t[h[i]]
  PROVE  CountIn(s, T) = CountIn(t, T)
<1> DEFINE A == {i \in DOMAIN s : s[i] \in T}
           B == {i \in DOMAIN t : t[i] \in T}
           g == [i \in A |-> h[i]]
<1>1. IsFiniteSet(A)
  BY FS_Subset
<1>2. /\ h \in [DOMAIN s -> DOMAIN t]
      /\ \A i, j \in DOMAIN s : h[i] = h[j] => i = j
      /\ \A k \in DOMAIN t : \E i \in DOMAIN s : h[i] = k
  BY DEF Bijection, Injection, Surjection, IsInjective
<1>3. g \in [A -> B] /\ (\A i, j \in A : g[i] = g[j] => i = j) /\ \A k \in B : \E i \in A : g[i] = k
  BY <1>2
<1> HIDE DEF A, B, g
<1>4. g \in Bijection(A, B)
  BY <1>3 DEF Bijection, Injection, Surjection, IsInjective
<1>5. ExistsBijection(A, B)
  BY <1>4 DEF ExistsBijection
<1> QED BY <1>1, <1>5, FS_Bijection DEF CountIn, A, B

\* One more at the end.
LEMMA CountMore ==
  ASSUME NEW S, NEW s \in Seq(S), NEW x \in S, NEW T
  PROVE  CountIn(Append(s, x), T) = CountIn(s, T) + (IF x \in T THEN 1 ELSE 0)
<1> DEFINE t == Append(s, x)
           n == Len(s)
           A == {i \in DOMAIN s : s[i] \in T}
           B == {i \in DOMAIN t : t[i] \in T}
<1>1. /\ n \in Nat /\ t \in Seq(S) /\ Len(t) = n + 1 /\ t[n + 1] = x
      /\ \A i \in 1 .. n : t[i] = s[i]
      /\ DOMAIN s = 1 .. n /\ DOMAIN t = 1 .. n + 1
  BY AppendProperties, LenProperties
<1>2. IsFiniteSet(A) /\ Cardinality(A) \in Nat
  BY CountType DEF CountIn
<1>3. n + 1 \notin A /\ B = IF x \in T THEN A \union {n + 1} ELSE A
  <2>1. 1 .. n + 1 = (1 .. n) \union {n + 1} /\ n + 1 \notin 1 .. n
    BY <1>1
  <2> HIDE DEF t, n
  <2> QED BY <1>1, <2>1
<1> HIDE DEF A, B, t, n
<1>4. Cardinality(B) = Cardinality(A) + (IF x \in T THEN 1 ELSE 0)
  <2>1. CASE x \in T
    BY <1>2, <1>3, <2>1, FS_AddElement
  <2>2. CASE x \notin T
    <3>1. B = A
      BY <1>3, <2>2
    <3> QED BY <1>2, <2>2, <3>1
  <2> QED BY <2>1, <2>2
<1> QED BY <1>4 DEF CountIn, A, B, t

\* One less at the beginning.
LEMMA CountLess ==
  ASSUME NEW S, NEW s \in Seq(S), s # <<>>, NEW T
  PROVE  CountIn(s, T) = CountIn(Tail(s), T) + (IF Head(s) \in T THEN 1 ELSE 0)
<1> DEFINE t == Tail(s)
           n == Len(t)
           A == {i \in DOMAIN t : t[i] \in T}
           B == {i \in DOMAIN s : s[i] \in T}
           C == {i + 1 : i \in A}
           g == [i \in A |-> i + 1]
<1>1. /\ n \in Nat /\ t \in Seq(S) /\ Len(s) = n + 1 /\ s[1] = Head(s)
      /\ \A i \in 1 .. n : t[i] = s[i + 1]
      /\ DOMAIN s = 1 .. n + 1 /\ DOMAIN t = 1 .. n
  BY HeadTailProperties, LenProperties, EmptySeq
<1> HIDE DEF t
<1>2. IsFiniteSet(A) /\ Cardinality(A) \in Nat
  BY <1>1, CountType DEF CountIn
<1> HIDE DEF n
<1>3. B = C \union (IF Head(s) \in T THEN {1} ELSE {}) /\ 1 \notin C
  <2>1. ASSUME NEW i \in B
        PROVE  i \in C \union (IF Head(s) \in T THEN {1} ELSE {})
    <3>1. CASE i = 1
      BY <1>1, <3>1
    <3>2. CASE i # 1
      <4>1. i - 1 \in 1 .. n /\ (i - 1) + 1 = i
        BY <1>1, <3>2
      <4>2. i - 1 \in A
        BY <1>1, <4>1
      <4> QED BY <4>1, <4>2
    <3> QED BY <3>1, <3>2
  <2>2. ASSUME NEW i \in A
        PROVE  i + 1 \in B /\ i + 1 # 1
    BY <1>1
  <2>3. Head(s) \in T => 1 \in B
    BY <1>1
  <2> HIDE DEF A, B
  <2> QED BY <2>1, <2>2, <2>3
<1>4. IsFiniteSet(C) /\ Cardinality(C) = Cardinality(A)
  <2>1. A \subseteq Nat
    BY <1>1
  <2> HIDE DEF A
  <2>2. g \in [A -> C] /\ (\A i, j \in A : g[i] = g[j] => i = j) /\ \A k \in C : \E i \in A : g[i] = k
    BY <2>1
  <2> HIDE DEF C, g
  <2>3. g \in Bijection(A, C)
    BY <2>2 DEF Bijection, Injection, Surjection, IsInjective
  <2>4. ExistsBijection(A, C)
    BY <2>3 DEF ExistsBijection
  <2> QED BY <1>2, <2>4, FS_Bijection
<1> HIDE DEF A, B, C, g
<1>5. Cardinality(B) = Cardinality(A) + (IF Head(s) \in T THEN 1 ELSE 0)
  <2>1. CASE Head(s) \in T
    BY <1>2, <1>3, <1>4, <2>1, FS_AddElement
  <2>2. CASE Head(s) \notin T
    <3>1. B = C
      BY <1>3, <2>2
    <3> QED BY <1>2, <1>4, <2>2, <3>1
  <2> QED BY <2>1, <2>2
<1> QED BY <1>5 DEF CountIn, A, B, t

-----------------------------------------------------------------------------
(* Sorting, and what a percentile is.                                      *)

\* Every place of the sorted sequence has one of its numbers, before which there
\* are those that belong there: no two have as many before them.
LEMMA SortedPlaces ==
  ASSUME NEW s \in Seq(Nat), NEW n \in 1 .. Len(s)
  PROVE  \E i \in DOMAIN s : Sorted(s)[n] = s[i] /\ Cardinality(UpTo(s, i)) = n
<1> DEFINE D    == DOMAIN s
           N    == Len(s)
           rank == [i \in D |-> Cardinality(UpTo(s, i))]
<1>1. D = 1 .. N /\ N \in Nat /\ IsFiniteSet(D) /\ Cardinality(D) = N /\ \A i \in D : s[i] \in Nat
  <2>1. D = 1 .. N /\ N \in Nat /\ \A i \in D : s[i] \in Nat
    BY LenProperties
  <2>2. IsFiniteSet(1 .. N) /\ Cardinality(1 .. N) = N
    BY <2>1, FS_Interval
  <2> QED BY <2>1, <2>2
<1> HIDE DEF N
<1>2. \A i \in D : /\ UpTo(s, i) \in SUBSET D /\ i \in UpTo(s, i) /\ IsFiniteSet(UpTo(s, i))
                   /\ Cardinality(UpTo(s, i)) \in 1 .. N
  <2> SUFFICES ASSUME NEW i \in D
               PROVE  /\ UpTo(s, i) \in SUBSET D /\ i \in UpTo(s, i) /\ IsFiniteSet(UpTo(s, i))
                      /\ Cardinality(UpTo(s, i)) \in 1 .. N
    OBVIOUS
  <2>1. UpTo(s, i) \in SUBSET D /\ i \in UpTo(s, i)
    BY <1>1 DEF UpTo
  <2> HIDE DEF D
  <2>2. /\ IsFiniteSet(UpTo(s, i)) /\ Cardinality(UpTo(s, i)) <= N
        /\ Cardinality(UpTo(s, i)) \in Nat /\ Cardinality(UpTo(s, i)) # 0
    BY <1>1, <2>1, FS_Subset, FS_CardinalityType, FS_EmptySet
  <2> QED BY <1>1, <2>1, <2>2
<1>3. rank \in [D -> 1 .. N]
  BY <1>2
<1> DEFINE Less(i, j) == s[i] < s[j] \/ (s[i] = s[j] /\ i < j)
<1>4. \A i, j \in D : Less(i, j) => rank[i] < rank[j]
  <2> SUFFICES ASSUME NEW i \in D, NEW j \in D, Less(i, j)
               PROVE  Cardinality(UpTo(s, i)) < Cardinality(UpTo(s, j))
    OBVIOUS
  <2>1. UpTo(s, i) \in SUBSET UpTo(s, j) /\ j \in UpTo(s, j) /\ j \notin UpTo(s, i)
    BY <1>1 DEF UpTo
  <2>2. Cardinality(UpTo(s, i)) <= Cardinality(UpTo(s, j)) /\ Cardinality(UpTo(s, i)) # Cardinality(UpTo(s, j))
    BY <1>2, <2>1, FS_Subset
  <2> QED BY <1>2, <2>2
<1>5. \A i, j \in D : i # j => Less(i, j) \/ Less(j, i)
  BY <1>1
<1> HIDE DEF rank, Less, D
<1>6. rank \in Injection(D, 1 .. N)
  <2>1. \A i, j \in D : rank[i] = rank[j] => i = j
    BY <1>3, <1>4, <1>5
  <2> QED BY <1>3, <2>1 DEF Injection, IsInjective
<1>7. rank \in Surjection(D, 1 .. N)
  <2>1. IsFiniteSet(1 .. N) /\ Cardinality(1 .. N) = N
    BY <1>1, FS_Interval
  <2> QED BY <1>1, <1>6, <2>1, FS_Injection
<1>8. PICK i \in D : rank[i] = n
  BY <1>7 DEF Surjection, N
<1>9. \A j \in D : rank[j] = Cardinality(UpTo(s, j))
  BY DEF rank
<1>10. n \in D
  BY <1>1 DEF N
<1>11. Sorted(s)[n] = s[CHOOSE j \in D : Cardinality(UpTo(s, j)) = n]
  BY <1>10 DEF Sorted, D
<1> DEFINE c == CHOOSE j \in D : Cardinality(UpTo(s, j)) = n
<1>12. c \in D /\ Cardinality(UpTo(s, c)) = n
  BY <1>8, <1>9
<1> QED BY <1>11, <1>12 DEF D

\* Less than the number at a place are fewer than its place says, and no more are
\* not greater.
LEMMA SortedCounts ==
  ASSUME NEW s \in Seq(Nat), NEW n \in 1 .. Len(s)
  PROVE  LET v == Sorted(s)[n] IN
         /\ v \in Nat
         /\ CountIn(s, {w \in Nat : w < v}) < n
         /\ n <= CountIn(s, {w \in Nat : w <= v})
<1>1. PICK i \in DOMAIN s : Sorted(s)[n] = s[i] /\ Cardinality(UpTo(s, i)) = n
  BY SortedPlaces
<1> DEFINE v == s[i]
           L == {w \in Nat : w < v}
           G == {w \in Nat : w <= v}
           A == {j \in DOMAIN s : s[j] \in L}
           B == {j \in DOMAIN s : s[j] \in G}
<1>2. DOMAIN s = 1 .. Len(s) /\ Len(s) \in Nat /\ \A j \in DOMAIN s : s[j] \in Nat
  BY LenProperties
<1>3. A \in SUBSET UpTo(s, i) /\ i \in UpTo(s, i) /\ i \notin A /\ UpTo(s, i) \in SUBSET B
  BY <1>2 DEF UpTo
<1>4. IsFiniteSet(A) /\ IsFiniteSet(B) /\ Cardinality(A) \in Nat /\ Cardinality(B) \in Nat
  BY CountType DEF CountIn
<1> HIDE DEF A, B, L, G
<1>5. Cardinality(A) <= n /\ Cardinality(A) # n /\ n <= Cardinality(B)
  <2>1. IsFiniteSet(UpTo(s, i))
    BY <1>3, <1>4, FS_Subset
  <2> QED BY <1>1, <1>3, <1>4, <2>1, FS_Subset
<1>6. CountIn(s, L) = Cardinality(A) /\ CountIn(s, G) = Cardinality(B)
  BY DEF CountIn, A, B
<1> QED BY <1>1, <1>2, <1>4, <1>5, <1>6 DEF L, G

-----------------------------------------------------------------------------
(* The pool.                                                               *)

\* Of fewer numbers in a row than there are places, no two have the same.
LEMMA PlacesDiffer ==
  ASSUME NEW P \in Nat \ {0}, NEW a \in Nat, NEW b \in Nat, a < b, b < a + P
  PROVE  a % P # b % P
<1> SUFFICES ASSUME a % P = b % P
             PROVE  FALSE
  OBVIOUS
<1> DEFINE q == a \div P
           r == b \div P
           k == r - q
<1>1. q \in Int /\ r \in Int /\ a % P \in Int
  OBVIOUS
<1>2. a = P * q + (a % P) /\ b = P * r + (b % P)
  OBVIOUS
<1>3. b - a = P * r - P * q
  BY <1>1, <1>2
<1> HIDE DEF q, r
<1>4. P * r - P * q = P * k
  BY <1>1
<1>5. k <= 0 => P * k <= 0
  BY <1>1
<1>6. k >= 1 => P * k >= P
  BY <1>1
<1>7. k \in Int
  BY <1>1
<1> HIDE DEF k
<1> QED BY <1>1, <1>3, <1>4, <1>5, <1>6, <1>7

LEMMA PlacesThere ==
  ASSUME NEW P \in Nat \ {0}, NEW a \in Nat
  PROVE  a % P \in 0 .. (P - 1) /\ (a < P => a % P = a)
<1>1. a % P \in 0 .. (P - 1)
  OBVIOUS
<1>2. a < P => a % P = a
  OBVIOUS
<1> QED BY <1>1, <1>2

\* What a pool keeps of a window: its last numbers.
KeepsLast(pool, w) ==
  \A j \in 1 .. Len(w) : j + PoolSize > Len(w) => pool[(j - 1) % PoolSize] = w[j]

LastOf(w) == IF Len(w) < PoolSize THEN w ELSE SubSeq(w, Len(w) - PoolSize + 1, Len(w))

Pools == [0 .. (PoolSize - 1) -> Nat]

LEMMA PoolGoesOn ==
  ASSUME NEW pool \in Pools, NEW w \in Seq(Nat), NEW e \in Nat, KeepsLast(pool, w)
  PROVE  /\ [pool EXCEPT ![Len(w) % PoolSize] = e] \in Pools
         /\ KeepsLast([pool EXCEPT ![Len(w) % PoolSize] = e], Append(w, e))
<1> DEFINE n == Len(w)
           x == Append(w, e)
           after == [pool EXCEPT ![n % PoolSize] = e]
<1>1. PoolSize \in Nat \ {0}
  BY TelemetryAssumption
<1>2. /\ n \in Nat /\ Len(x) = n + 1 /\ x[n + 1] = e /\ \A j \in 1 .. n : x[j] = w[j]
  BY AppendProperties, LenProperties
<1>3. n % PoolSize \in 0 .. (PoolSize - 1)
  BY <1>1, <1>2, PlacesThere
<1>4. after \in Pools
  BY <1>3 DEF Pools
<1>5. ASSUME NEW j \in 1 .. Len(x), j + PoolSize > Len(x)
      PROVE  after[(j - 1) % PoolSize] = x[j]
  <2>1. (j - 1) % PoolSize \in 0 .. (PoolSize - 1)
    <3>1. j - 1 \in Nat
      BY <1>2
    <3> QED BY <1>1, <3>1, PlacesThere
  <2>2. CASE j = n + 1
    BY <1>2, <1>3, <2>2 DEF Pools
  <2>3. CASE j # n + 1
    <3>1. j \in 1 .. n /\ j + PoolSize > n /\ j - 1 \in Nat /\ j - 1 < n /\ n < (j - 1) + PoolSize
      BY <1>1, <1>2, <1>5, <2>3
    <3>2. (j - 1) % PoolSize # n % PoolSize
      BY <1>1, <1>2, <3>1, PlacesDiffer
    <3>3. after[(j - 1) % PoolSize] = pool[(j - 1) % PoolSize]
      BY <2>1, <3>2 DEF Pools
    <3> QED BY <1>2, <3>1, <3>3 DEF KeepsLast
  <2> QED BY <2>2, <2>3
<1> QED BY <1>4, <1>5 DEF KeepsLast

\* The part of the pool in use has the last numbers of the window, in some order.
LEMMA PoolIsLast ==
  ASSUME NEW m, NEW w \in Seq(Nat), m.pool \in Pools, m.count = Len(w), Len(w) # 0,
         KeepsLast(m.pool, w)
  PROVE  /\ Pool(m) \in Seq(Nat) /\ LastOf(w) \in Seq(Nat)
         /\ RealLen(m) \in Nat \ {0} /\ Len(Pool(m)) = RealLen(m) /\ Len(LastOf(w)) = RealLen(m)
         /\ \A T : CountIn(LastOf(w), T) = CountIn(Pool(m), T)
<1> DEFINE n == Len(w)
           L == RealLen(m)
           P == PoolSize
<1>1. P \in Nat \ {0} /\ n \in Nat \ {0} /\ L \in Nat \ {0} /\ L <= P /\ L <= n
  BY TelemetryAssumption, LenProperties DEF RealLen
<1>2. /\ Pool(m) = [i \in 1 .. L |-> m.pool[i - 1]]
      /\ DOMAIN m.pool = 0 .. (P - 1) /\ \A i \in 0 .. (P - 1) : m.pool[i] \in Nat
  BY DEF Pool, Pools
<1>3. Pool(m) \in [1 .. L -> Nat]
  <2> HIDE DEF L
  <2> QED BY <1>1, <1>2
<1>4. Pool(m) \in Seq(Nat) /\ Len(Pool(m)) = L /\ DOMAIN Pool(m) = 1 .. L
  <2> HIDE DEF L
  <2>1. Pool(m) \in Seq(Nat)
    BY <1>1, <1>3
  <2>2. DOMAIN Pool(m) = 1 .. L
    BY <1>3
  <2> QED BY <1>1, <2>1, <2>2, LenProperties
<1>5. \A j \in 1 .. n : j + P > n => m.pool[(j - 1) % P] = w[j]
  BY DEF KeepsLast
<1>6. w \in [1 .. n -> Nat]
  BY LenProperties
<1>7. CASE n < P
  <2>1. L = n /\ LastOf(w) = w
    BY <1>7 DEF RealLen, LastOf
  <2>2. Pool(m) = w
    <3>1. \A i \in 1 .. n : i - 1 \in Nat /\ i - 1 < P /\ i + P > n
      BY <1>1, <1>7
    <3>2. \A i \in 1 .. n : (i - 1) % P = i - 1
      BY <1>1, <3>1, PlacesThere
    <3>3. \A i \in 1 .. n : m.pool[i - 1] = w[i]
      BY <1>5, <3>1, <3>2
    <3>4. \A i \in 1 .. n : Pool(m)[i] = w[i]
      BY <1>2, <2>1, <3>3
    <3> QED BY <1>3, <1>6, <2>1, <3>4
  <2> QED BY <1>1, <1>4, <2>1, <2>2
<1>8. CASE ~ (n < P)
  <2>1. L = P /\ LastOf(w) = SubSeq(w, n - P + 1, n)
    BY <1>1, <1>8 DEF RealLen, LastOf
  <2> DEFINE l == LastOf(w)
  <2>2. /\ l \in Seq(Nat) /\ Len(l) = P /\ DOMAIN l = 1 .. P
        /\ \A j \in 1 .. P : l[j] = w[n - P + j]
    <3>1. n - P + 1 \in 1 .. n + 1 /\ n \in 0 .. n /\ n - P + 1 <= n + 1
      BY <1>1, <1>8
    <3> HIDE DEF n, P
    <3>2. n = Len(w)
      BY DEF n
    <3>3. l = [j \in 1 .. P |-> w[n - P + j]]
      BY <1>1, <1>8, <2>1, <3>1, <3>2
    <3>4. \A j \in 1 .. P : w[n - P + j] \in Nat
      BY <1>1, <1>6, <1>8
    <3>5. l \in [1 .. P -> Nat]
      BY <3>3, <3>4
    <3>6. l \in Seq(Nat) /\ DOMAIN l = 1 .. P
      BY <1>1, <3>5
    <3> QED BY <1>1, <3>3, <3>6, LenProperties
  <2> DEFINE h == [j \in 1 .. P |-> ((n - P + j - 1) % P) + 1]
  <2>3. \A j \in 1 .. P : n - P + j - 1 \in Nat /\ (n - P + j - 1) % P \in 0 .. (P - 1)
    <3>1. \A j \in 1 .. P : n - P + j - 1 \in Nat
      BY <1>1, <1>8
    <3> QED BY <1>1, <3>1, PlacesThere
  <2>4. h \in [1 .. P -> 1 .. P]
    BY <1>1, <2>3
  <2>5. \A i, j \in 1 .. P : i < j => h[i] # h[j]
    <3> SUFFICES ASSUME NEW i \in 1 .. P, NEW j \in 1 .. P, i < j
                 PROVE  h[i] # h[j]
      OBVIOUS
    <3>1. n - P + i - 1 < n - P + j - 1 /\ n - P + j - 1 < (n - P + i - 1) + P
      BY <1>1
    <3>2. (n - P + i - 1) % P # (n - P + j - 1) % P
      BY <1>1, <2>3, <3>1, PlacesDiffer
    <3> QED BY <2>3, <3>2
  <2>6. \A j \in 1 .. P : l[j] = Pool(m)[h[j]]
    <3> SUFFICES ASSUME NEW j \in 1 .. P
                 PROVE  l[j] = Pool(m)[h[j]]
      OBVIOUS
    <3>1. n - P + j \in 1 .. n /\ (n - P + j) + P > n /\ (n - P + j) - 1 = n - P + j - 1
      BY <1>1, <1>8
    <3>2. w[n - P + j] = m.pool[(n - P + j - 1) % P]
      BY <1>5, <3>1
    <3>3. h[j] = ((n - P + j - 1) % P) + 1 /\ h[j] \in 1 .. P /\ h[j] - 1 = (n - P + j - 1) % P
      <4>1. h[j] = ((n - P + j - 1) % P) + 1
        OBVIOUS
      <4>2. (n - P + j - 1) % P \in 0 .. (P - 1)
        BY <2>3
      <4> HIDE DEF h
      <4> QED BY <1>1, <4>1, <4>2
    <3>4. Pool(m)[h[j]] = m.pool[h[j] - 1]
      BY <1>2, <2>1, <3>3
    <3> QED BY <2>2, <3>2, <3>3, <3>4
  <2> HIDE DEF h, l, L, n
  <2>7. h \in Bijection(1 .. P, 1 .. P)
    <3>1. \A i, j \in 1 .. P : h[i] = h[j] => i = j
      BY <1>1, <2>5
    <3>2. h \in Injection(1 .. P, 1 .. P)
      BY <2>4, <3>1 DEF Injection, IsInjective
    <3>3. IsFiniteSet(1 .. P)
      BY <1>1, FS_Interval
    <3>4. h \in Surjection(1 .. P, 1 .. P)
      BY <3>2, <3>3, FS_Injection
    <3> QED BY <3>2, <3>4 DEF Bijection
  <2>8. \A T : CountIn(l, T) = CountIn(Pool(m), T)
    <3>1. IsFiniteSet(1 .. P)
      BY <1>1, FS_Interval
    <3>2. DOMAIN l = 1 .. P /\ DOMAIN Pool(m) = 1 .. P
      BY <1>4, <2>1, <2>2
    <3> SUFFICES ASSUME NEW T
                 PROVE  CountIn(l, T) = CountIn(Pool(m), T)
      OBVIOUS
    <3> DEFINE k == Pool(m)
    <3>3. /\ IsFiniteSet(DOMAIN l) /\ h \in Bijection(DOMAIN l, DOMAIN k)
          /\ \A i \in DOMAIN l : l[i] = k[h[i]]
      BY <2>6, <2>7, <3>1, <3>2
    <3> HIDE DEF k
    <3>4. CountIn(l, T) = CountIn(k, T)
      BY <3>3, CountSame
    <3> QED BY <3>4 DEF k
  <2> QED BY <1>1, <1>4, <2>1, <2>2, <2>8 DEF l, L
<1> QED BY <1>7, <1>8

-----------------------------------------------------------------------------
(* What a measurement is of the durations of its window.                   *)

Measurements == [count : Nat, sum : Nat, failed : Nat, over : [Thresholds -> Nat], pool : Pools]
Sums         == [count : Nat, sum : Nat, failed : Nat, over : [Thresholds -> Nat]]
Samples      == [elapsed : Nat, ok : BOOLEAN]

Measures(m, w) ==
  /\ m.count = Len(w) /\ m.sum = Total(w) /\ KeepsLast(m.pool, w)
  /\ \A t \in Thresholds : m.over[t] = CountIn(w, {e \in Nat : e > t})

LEMMA NothingMeasured ==
  ASSUME NEW m \in Measurements, m.count = 0, m.sum = 0, m.over = [t \in Thresholds |-> 0]
  PROVE  Measures(m, <<>>)
<1>1. Len(<<>>) = 0 /\ \A T : CountIn(<<>>, T) = 0
  <2>1. \A T : {i \in DOMAIN <<>> : <<>>[i] \in T} = {}
    OBVIOUS
  <2> QED BY <2>1, FS_EmptySet DEF CountIn
<1>2. KeepsLast(m.pool, <<>>)
  BY <1>1 DEF KeepsLast
<1> QED BY <1>1, <1>2, TotalOfNone DEF Measures

LEMMA ResetIsEmpty ==
  ASSUME NEW m \in Measurements
  PROVE  /\ Reset(m) \in Measurements /\ Measures(Reset(m), <<>>)
         /\ Reset(m).failed = 0 /\ Reset(m).count = 0
<1> DEFINE after == Reset(m)
<1>1. /\ after \in Measurements /\ after.count = 0 /\ after.sum = 0 /\ after.failed = 0
      /\ after.over = [t \in Thresholds |-> 0]
  BY DEF Reset, Measurements
<1> HIDE DEF after
<1>2. Measures(after, <<>>)
  BY <1>1, NothingMeasured
<1> QED BY <1>1, <1>2 DEF after

LEMMA OneMoreMeasured ==
  ASSUME NEW m \in Measurements, NEW w \in Seq(Nat), Measures(m, w), NEW sample \in Samples
  PROVE  LET x == IF sample.ok THEN Append(w, sample.elapsed) ELSE w
             after == Ingested(m, sample)
         IN  /\ after \in Measurements /\ x \in Seq(Nat) /\ Measures(after, x)
             /\ after.count = m.count + (IF sample.ok THEN 1 ELSE 0)
             /\ after.failed = m.failed + (IF sample.ok THEN 0 ELSE 1)
<1> DEFINE e == sample.elapsed
           after == Ingested(m, sample)
           n == Len(w)
<1>1. /\ e \in Nat /\ Thresholds \subseteq Nat /\ m.over \in [Thresholds -> Nat] /\ m.pool \in Pools
      /\ m.count \in Nat /\ m.sum \in Nat /\ m.failed \in Nat
  BY TelemetryAssumption DEF Samples, Measurements
<1>2. CASE ~ sample.ok
  <2>1. after = [m EXCEPT !.failed = @ + 1]
    BY <1>2 DEF Ingested
  <2> HIDE DEF after
  <2>2. /\ after \in Measurements /\ after.failed = m.failed + 1 /\ after.count = m.count
        /\ after.sum = m.sum /\ after.over = m.over /\ after.pool = m.pool
    BY <2>1 DEF Measurements
  <2>3. Measures(after, w)
    BY <2>2 DEF Measures
  <2> QED BY <1>1, <1>2, <2>2, <2>3 DEF after
<1>3. CASE sample.ok
  <2> DEFINE x == Append(w, e)
             over == [t \in Thresholds |-> IF e > t THEN m.over[t] + 1 ELSE m.over[t]]
             pool == [m.pool EXCEPT ![n % PoolSize] = e]
  <2>1. m.count = n
    BY DEF Measures
  <2>2. /\ after.count = m.count + 1 /\ after.sum = m.sum + e /\ after.over = over
        /\ after.pool = pool /\ after.failed = m.failed
        /\ after = [count |-> m.count + 1, sum |-> m.sum + e, failed |-> m.failed,
                    over |-> over, pool |-> pool]
    BY <1>3, <2>1 DEF Ingested, Measurements
  <2>3. /\ x \in Seq(Nat) /\ Len(x) = n + 1 /\ n \in Nat /\ x[n + 1] = e
        /\ \A i \in 1 .. n : x[i] = w[i]
    BY <1>1, AppendProperties, LenProperties
  <2>4. Total(x) = Total(w) + e
    <3> HIDE DEF x
    <3> QED BY <2>3, TotalOfMore DEF Agree
  <2>5. pool \in Pools /\ KeepsLast(pool, x)
    BY <1>1, PoolGoesOn DEF Measures
  <2>6. over \in [Thresholds -> Nat]
    BY <1>1
  <2>7. \A t \in Thresholds : over[t] = CountIn(x, {d \in Nat : d > t})
    <3> SUFFICES ASSUME NEW t \in Thresholds
                 PROVE  over[t] = CountIn(x, {d \in Nat : d > t})
      OBVIOUS
    <3>1. e \in {d \in Nat : d > t} <=> e > t
      BY <1>1
    <3>2. m.over[t] = CountIn(w, {d \in Nat : d > t}) /\ m.over[t] \in Nat
      BY <1>1 DEF Measures
    <3>3. CountIn(x, {d \in Nat : d > t})
            = CountIn(w, {d \in Nat : d > t}) + (IF e \in {d \in Nat : d > t} THEN 1 ELSE 0)
      BY <1>1, CountMore
    <3>4. over[t] = IF e > t THEN m.over[t] + 1 ELSE m.over[t]
      OBVIOUS
    <3> HIDE DEF over, x
    <3> QED BY <3>1, <3>2, <3>3, <3>4
  <2> HIDE DEF over, pool, after, x
  <2>8. after \in Measurements
    BY <1>1, <2>2, <2>5, <2>6 DEF Measurements
  <2>9. Measures(after, x)
    BY <2>1, <2>2, <2>3, <2>4, <2>5, <2>7 DEF Measures
  <2> QED BY <1>1, <1>3, <2>2, <2>3, <2>8, <2>9 DEF after, x
<1> QED BY <1>2, <1>3

\* What is taken of a measurement is true of its window.
LEMMA TakenIsTrue ==
  ASSUME NEW m \in Measurements, NEW w \in Seq(Nat), Measures(m, w),
         NEW a, a.percentiles = ComputePercentiles(m),
         a.durations = [count |-> m.count, sum |-> m.sum, failed |-> m.failed, over |-> m.over]
  PROVE  IsTrueOf(a, w)
<1> DEFINE n == Len(w)
           last == LastOf(w)
           Above(t) == {e \in Nat : e > t}
<1>1. /\ n \in Nat /\ m.count = n /\ m.sum = Total(w) /\ KeepsLast(m.pool, w) /\ m.pool \in Pools
      /\ Percentiles \subseteq 0 .. 99 /\ Thresholds \subseteq Nat
      /\ DOMAIN w = 1 .. n /\ \A j \in DOMAIN w : w[j] \in Nat
  BY TelemetryAssumption, LenProperties DEF Measures, Measurements
<1>2. a.durations.count = n /\ a.durations.sum = Total(w) /\ a.durations.over = m.over
  BY <1>1
<1>3. ASSUME NEW t \in Thresholds
      PROVE  a.durations.over[t] = Cardinality({j \in DOMAIN w : w[j] > t})
  <2>1. {j \in DOMAIN w : w[j] \in Above(t)} = {j \in DOMAIN w : w[j] > t}
    BY <1>1
  <2>2. m.over[t] = CountIn(w, Above(t))
    BY DEF Measures
  <2> QED BY <1>2, <2>1, <2>2 DEF CountIn
<1>4. ASSUME NEW p \in Percentiles, n > 0
      PROVE  LET v == a.percentiles[p]
             IN  /\ 100 * Cardinality({j \in DOMAIN last : last[j] < v}) <= p * Len(last)
                 /\ p * Len(last) < 100 * Cardinality({j \in DOMAIN last : last[j] <= v})
  <2> DEFINE v == a.percentiles[p]
             L == RealLen(m)
             q == p * L
             k == (q \div 100) + 1
             less == CountIn(Pool(m), {e \in Nat : e < v})
             notMore == CountIn(Pool(m), {e \in Nat : e <= v})
  <2>1. /\ Pool(m) \in Seq(Nat) /\ last \in Seq(Nat) /\ L \in Nat \ {0} /\ Len(Pool(m)) = L
        /\ Len(last) = L /\ \A T : CountIn(last, T) = CountIn(Pool(m), T)
    <3>1. n # 0
      BY <1>1, <1>4
    <3> QED BY <1>1, <3>1, PoolIsLast
  <2>2. v = Sorted(Pool(m))[k]
    BY <1>1, <1>4 DEF ComputePercentiles
  <2>3. q \in Nat /\ q < 100 * L
    <3> HIDE DEF L
    <3>1. p \in 0 .. 99
      BY <1>1
    <3>2. q \in Nat
      BY <2>1, <3>1
    <3>3. 100 * L - p * L = (100 - p) * L
      BY <2>1, <3>1
    <3>4. (100 - p) * L > 0
      BY <2>1, <3>1
    <3> QED BY <2>1, <3>2, <3>3, <3>4
  <2> HIDE DEF q
  <2>4. k \in 1 .. L /\ 100 * (k - 1) <= q /\ q < 100 * k
    <3> HIDE DEF L
    <3> QED BY <2>1, <2>3
  <2> HIDE DEF k
  <2>5. v \in Nat /\ less < k /\ k <= notMore
    <3> HIDE DEF L
    <3> QED BY <2>1, <2>2, <2>4, SortedCounts
  <2>6. less \in Nat /\ notMore \in Nat
    BY <2>1, CountType
  <2>7. less = CountIn(last, {e \in Nat : e < v}) /\ notMore = CountIn(last, {e \in Nat : e <= v})
    BY <2>1
  <2> HIDE DEF last, L, less, notMore, v
  <2>8. DOMAIN last = 1 .. L /\ \A j \in DOMAIN last : last[j] \in Nat
    BY <2>1, LenProperties
  <2>9. /\ {j \in DOMAIN last : last[j] \in {e \in Nat : e < v}} = {j \in DOMAIN last : last[j] < v}
        /\ {j \in DOMAIN last : last[j] \in {e \in Nat : e <= v}} = {j \in DOMAIN last : last[j] <= v}
    BY <2>8
  <2>10. /\ less = Cardinality({j \in DOMAIN last : last[j] < v})
         /\ notMore = Cardinality({j \in DOMAIN last : last[j] <= v})
    BY <2>7, <2>9 DEF CountIn
  <2>11. 100 * less <= q /\ q < 100 * notMore
    BY <2>1, <2>3, <2>4, <2>5, <2>6
  <2>12. q = p * Len(last)
    BY <2>1 DEF q
  <2> QED BY <2>10, <2>11, <2>12 DEF v
<1> HIDE DEF n, last
<1>5. /\ n = Len(w) /\ last = IF n < PoolSize THEN w ELSE SubSeq(w, n - PoolSize + 1, n)
  BY DEF n, last, LastOf
<1> QED BY <1>2, <1>3, <1>4, <1>5 DEF IsTrueOf

LEMMA PercentilesType ==
  ASSUME NEW m \in Measurements, NEW w \in Seq(Nat), Measures(m, w)
  PROVE  ComputePercentiles(m) \in [Percentiles -> Nat]
<1> DEFINE L == RealLen(m)
           s == Sorted(Pool(m))
<1>1. m.count = Len(w) /\ m.count \in Nat /\ m.pool \in Pools /\ Percentiles \subseteq 0 .. 99
  BY TelemetryAssumption DEF Measures, Measurements
<1>2. CASE m.count = 0
  BY <1>2 DEF ComputePercentiles
<1>3. CASE m.count # 0
  <2>1. Pool(m) \in Seq(Nat) /\ L \in Nat \ {0} /\ Len(Pool(m)) = L
    BY <1>1, <1>3, PoolIsLast DEF Measures
  <2> HIDE DEF L
  <2>2. ASSUME NEW p \in Percentiles
        PROVE  ((p * L) \div 100) + 1 \in 1 .. L
    <3> DEFINE q == p * L
    <3>1. p \in 0 .. 99
      BY <1>1
    <3>2. q \in Nat
      BY <2>1, <3>1
    <3>3. 100 * L - p * L = (100 - p) * L
      BY <2>1, <3>1
    <3>4. (100 - p) * L > 0
      BY <2>1, <3>1
    <3>5. q < 100 * L
      BY <2>1, <3>2, <3>3, <3>4
    <3> HIDE DEF q
    <3>6. (q \div 100) + 1 \in 1 .. L
      BY <2>1, <3>2, <3>5
    <3> QED BY <3>6 DEF q
  <2>3. \A n \in 1 .. L : s[n] \in Nat
    BY <2>1, SortedCounts
  <2>4. ComputePercentiles(m) = [p \in Percentiles |-> s[((p * L) \div 100) + 1]]
    BY <1>3 DEF ComputePercentiles, L
  <2> HIDE DEF s
  <2> QED BY <2>2, <2>3, <2>4
<1> QED BY <1>2, <1>3

-----------------------------------------------------------------------------
(* Where the calls are that have ended.                                    *)

States == {"arrives", "calls", "ok", "failed"}
Taken  == [durations : Sums, window : Seq(Nat), percentiles : [Percentiles -> Nat]]

UsageInv ==
  /\ caller \in [Callers -> States] /\ samples \in Seq(Samples)
  /\ measured \in Measurements /\ window \in Seq(Nat) /\ aggregated \in Seq(Taken)
  /\ Measures(measured, window)
  /\ ReportsAreExact

AsMany(f, v) == Cardinality({c \in Callers : f[c] = v})

LEMMA OneMoreEnds ==
  ASSUME NEW f \in [Callers -> States], NEW c \in Callers, f[c] = "calls",
         NEW u \in {"ok", "failed"}, NEW v \in {"ok", "failed"}
  PROVE  /\ AsMany(f, v) \in Nat
         /\ AsMany([f EXCEPT ![c] = u], v) = AsMany(f, v) + (IF u = v THEN 1 ELSE 0)
<1> DEFINE g == [f EXCEPT ![c] = u]
           A == {d \in Callers : f[d] = v}
           B == {d \in Callers : g[d] = v}
<1>1. IsFiniteSet(A) /\ Cardinality(A) \in Nat
  BY TelemetryAssumption, FS_Subset, FS_CardinalityType
<1>2. c \notin A /\ B = IF u = v THEN A \union {c} ELSE A
  OBVIOUS
<1> HIDE DEF A, B, g
<1>3. Cardinality(B) = Cardinality(A) + (IF u = v THEN 1 ELSE 0)
  <2>1. CASE u = v
    BY <1>1, <1>2, <2>1, FS_AddElement
  <2>2. CASE u # v
    <3>1. B = A
      BY <1>2, <2>2
    <3> QED BY <1>1, <2>2, <3>1
  <2> QED BY <2>1, <2>2
<1> QED BY <1>1, <1>3 DEF AsMany, A, B, g

\* The samples of calls that went well, and of those that did not.
Good == {x \in Samples : x.ok}
Bad  == {x \in Samples : ~ x.ok}

LEMMA WaitingIs ==
  ASSUME NEW s \in Seq(Samples)
  PROVE  /\ Cardinality({i \in DOMAIN s : s[i].ok = TRUE}) = CountIn(s, Good)
         /\ Cardinality({i \in DOMAIN s : s[i].ok = FALSE}) = CountIn(s, Bad)
<1>1. \A i \in DOMAIN s : s[i] \in Samples
  BY LenProperties
<1>2. \A x \in Samples : (x \in Good <=> x.ok = TRUE) /\ (x \in Bad <=> x.ok = FALSE)
  BY DEF Good, Bad, Samples
<1>3. /\ {i \in DOMAIN s : s[i].ok = TRUE} = {i \in DOMAIN s : s[i] \in Good}
      /\ {i \in DOMAIN s : s[i].ok = FALSE} = {i \in DOMAIN s : s[i] \in Bad}
  BY <1>1, <1>2
<1> QED BY <1>3 DEF CountIn

\* What the reports add up to.
SumOf(rs, name) == Total([i \in DOMAIN rs |-> rs[i].durations[name]])

LEMMA ReportedType ==
  ASSUME NEW rs \in Seq(Taken), NEW name \in {"count", "failed"}
  PROVE  SumOf(rs, name) \in Nat
<1> DEFINE n == Len(rs)
           a == [i \in DOMAIN rs |-> rs[i].durations[name]]
<1>1. n \in Nat /\ DOMAIN rs = 1 .. n /\ \A i \in 1 .. n : rs[i] \in Taken
  BY LenProperties
<1>2. \A x \in Taken : x.durations[name] \in Nat
  BY DEF Taken, Sums
<1>3. a \in [1 .. n -> Nat]
  <2> HIDE DEF n
  <2> QED BY <1>1, <1>2
<1>4. Len(a) = n
  <2> HIDE DEF a, n
  <2>1. a \in Seq(Nat) /\ DOMAIN a = 1 .. n
    BY <1>1, <1>3
  <2> QED BY <1>1, <2>1, LenProperties
<1> HIDE DEF a, n
<1> QED BY <1>1, <1>3, <1>4, TotalType DEF SumOf, a

LEMMA OneMoreReport ==
  ASSUME NEW rs \in Seq(Taken), NEW r \in Taken, NEW name \in {"count", "failed"}
  PROVE  SumOf(Append(rs, r), name) = SumOf(rs, name) + r.durations[name]
<1> DEFINE n == Len(rs)
           t == Append(rs, r)
           a == [i \in DOMAIN rs |-> rs[i].durations[name]]
           b == [i \in DOMAIN t |-> t[i].durations[name]]
<1>1. /\ n \in Nat /\ DOMAIN rs = 1 .. n /\ DOMAIN t = 1 .. n + 1 /\ t[n + 1] = r
      /\ \A i \in 1 .. n : t[i] = rs[i] /\ rs[i] \in Taken
  BY AppendProperties, LenProperties
<1>2. \A x \in Taken : x.durations[name] \in Nat
  BY DEF Taken, Sums
<1>3. a \in [1 .. n -> Nat] /\ b \in [1 .. n + 1 -> Nat]
  <2> HIDE DEF n, t
  <2> QED BY <1>1, <1>2
<1>4. Len(a) = n /\ Len(b) = n + 1
  <2> HIDE DEF a, b, n
  <2>1. a \in Seq(Nat) /\ b \in Seq(Nat) /\ DOMAIN a = 1 .. n /\ DOMAIN b = 1 .. n + 1
    BY <1>1, <1>3
  <2> QED BY <1>1, <2>1, LenProperties
<1>5. b[n + 1] = r.durations[name] /\ \A i \in 1 .. n : a[i] = b[i]
  <2> HIDE DEF n, t
  <2> QED BY <1>1
<1> HIDE DEF a, b, n
<1>6. Total(b) = Total(a) + b[n + 1]
  BY <1>1, <1>4, <1>5, TotalOfMore DEF Agree
<1> QED BY <1>5, <1>6 DEF SumOf, a, b

\* The parts of ReportsAreExact: the numbers of calls, and each report.
Balanced(f, s, m, rs) ==
  /\ AsMany(f, "ok") = CountIn(s, Good) + m.count + SumOf(rs, "count")
  /\ AsMany(f, "failed") = CountIn(s, Bad) + m.failed + SumOf(rs, "failed")

AllTrue(rs) == \A i \in DOMAIN rs : IsTrueOf(rs[i], rs[i].window)

LEMMA ExactIs ==
  ASSUME samples \in Seq(Samples)
  PROVE  ReportsAreExact <=> Balanced(caller, samples, measured, aggregated) /\ AllTrue(aggregated)
<1>1. Waiting(TRUE) = CountIn(samples, Good) /\ Waiting(FALSE) = CountIn(samples, Bad)
  BY WaitingIs DEF Waiting
<1>2. Ended(TRUE) = AsMany(caller, "ok") /\ Ended(FALSE) = AsMany(caller, "failed")
  BY DEF Ended, AsMany
<1>3. Reported("count") = SumOf(aggregated, "count") /\ Reported("failed") = SumOf(aggregated, "failed")
  BY DEF Reported, SumOf
<1> QED BY <1>1, <1>2, <1>3 DEF ReportsAreExact, Balanced, AllTrue

LEMMA ExactIsNext ==
  ASSUME samples' \in Seq(Samples)
  PROVE  ReportsAreExact' <=> Balanced(caller', samples', measured', aggregated') /\ AllTrue(aggregated')
<1>1. Waiting(TRUE)' = CountIn(samples', Good) /\ Waiting(FALSE)' = CountIn(samples', Bad)
  BY WaitingIs DEF Waiting
<1>2. Ended(TRUE)' = AsMany(caller', "ok") /\ Ended(FALSE)' = AsMany(caller', "failed")
  BY DEF Ended, AsMany
<1>3. Reported("count")' = SumOf(aggregated', "count") /\ Reported("failed")' = SumOf(aggregated', "failed")
  BY DEF Reported, SumOf
<1> QED BY <1>1, <1>2, <1>3 DEF ReportsAreExact, Balanced, AllTrue

\* The numbers are natural ones.
LEMMA UsageNumbers ==
  ASSUME UsageInv
  PROVE  /\ CountIn(samples, Good) \in Nat /\ CountIn(samples, Bad) \in Nat
         /\ measured.count \in Nat /\ measured.failed \in Nat
         /\ SumOf(aggregated, "count") \in Nat /\ SumOf(aggregated, "failed") \in Nat
<1>1. CountIn(samples, Good) \in Nat /\ CountIn(samples, Bad) \in Nat
  BY CountType DEF UsageInv
<1>2. measured.count \in Nat /\ measured.failed \in Nat
  BY DEF UsageInv, Measurements
<1>3. SumOf(aggregated, "count") \in Nat /\ SumOf(aggregated, "failed") \in Nat
  BY ReportedType DEF UsageInv
<1> QED BY <1>1, <1>2, <1>3

LEMMA UsageInitially == TelemetryInit => UsageInv
<1> SUFFICES ASSUME TelemetryInit
             PROVE  UsageInv
  OBVIOUS
<1>1. /\ caller = [c \in Callers |-> "arrives"] /\ samples = <<>> /\ window = <<>> /\ aggregated = <<>>
      /\ measured = [count |-> 0, sum |-> 0, failed |-> 0, over |-> [t \in Thresholds |-> 0],
                     pool |-> [i \in 0 .. (PoolSize - 1) |-> 0]]
  BY DEF TelemetryInit
<1>2. /\ caller \in [Callers -> States] /\ samples \in Seq(Samples)
      /\ window \in Seq(Nat) /\ aggregated \in Seq(Taken)
  BY <1>1 DEF States
<1>3. measured \in Measurements /\ measured.count = 0 /\ measured.failed = 0
  BY <1>1 DEF Measurements, Pools
<1>4. Measures(measured, window)
  <2>1. measured.sum = 0 /\ measured.over = [t \in Thresholds |-> 0]
    BY <1>1
  <2> QED BY <1>1, <1>3, <2>1, NothingMeasured
<1>5. AsMany(caller, "ok") = 0 /\ AsMany(caller, "failed") = 0
  <2>1. {c \in Callers : caller[c] = "ok"} = {} /\ {c \in Callers : caller[c] = "failed"} = {}
    BY <1>1
  <2> QED BY <2>1, FS_EmptySet DEF AsMany
<1>6. CountIn(samples, Good) = 0 /\ CountIn(samples, Bad) = 0
  <2>1. \A T : {i \in DOMAIN samples : samples[i] \in T} = {}
    BY <1>1
  <2> QED BY <2>1, FS_EmptySet DEF CountIn
<1>7. SumOf(aggregated, "count") = 0 /\ SumOf(aggregated, "failed") = 0
  <2>1. \A name : [i \in DOMAIN aggregated |-> aggregated[i].durations[name]] = <<>>
    BY <1>1
  <2> QED BY <2>1, TotalOfNone DEF SumOf
<1>8. AllTrue(aggregated)
  BY <1>1 DEF AllTrue
<1>9. ReportsAreExact
  <2>1. Balanced(caller, samples, measured, aggregated)
    BY <1>3, <1>5, <1>6, <1>7 DEF Balanced
  <2> QED BY <1>2, <1>8, <2>1, ExactIs
<1> QED BY <1>2, <1>3, <1>4, <1>9 DEF UsageInv

LEMMA UsageOfSpan ==
  ASSUME UsageInv, NEW c \in Callers, SpanEnds(c)
  PROVE  UsageInv'
<1>1. PICK sample \in [elapsed : Durations, ok : {TRUE}] \cup {Failure} :
        /\ samples' = Append(samples, sample)
        /\ caller' = [caller EXCEPT ![c] = IF sample.ok THEN "ok" ELSE "failed"]
  BY DEF SpanEnds
<1>2. /\ caller[c] = "calls" /\ measured' = measured /\ window' = window /\ aggregated' = aggregated
  BY DEF SpanEnds
<1>3. sample \in Samples
  <2>1. CASE sample = Failure
    BY <2>1 DEF Samples, Failure
  <2>2. CASE sample \in [elapsed : Durations, ok : {TRUE}]
    <3>1. [elapsed : Durations, ok : {TRUE}] \subseteq Samples
      BY TelemetryAssumption DEF Samples
    <3> QED BY <2>2, <3>1
  <2> QED BY <2>1, <2>2
<1>4. samples' \in Seq(Samples)
  BY <1>1, <1>3, AppendProperties DEF UsageInv
<1>5. caller' \in [Callers -> States]
  BY <1>1 DEF UsageInv, States
<1>6. Balanced(caller, samples, measured, aggregated) /\ AllTrue(aggregated)
  BY ExactIs DEF UsageInv
<1>7. \A T : CountIn(samples', T) = CountIn(samples, T) + (IF sample \in T THEN 1 ELSE 0)
  BY <1>1, <1>3, CountMore DEF UsageInv
<1>8. \A u, v \in {"ok", "failed"} :
         /\ AsMany(caller, v) \in Nat
         /\ AsMany([caller EXCEPT ![c] = u], v) = AsMany(caller, v) + (IF u = v THEN 1 ELSE 0)
  BY <1>2, OneMoreEnds DEF UsageInv
<1>9. Balanced(caller', samples', measured', aggregated')
  <2>1. CASE sample.ok
    <3>1. sample \in Good /\ sample \notin Bad
      BY <1>3, <2>1 DEF Good, Bad
    <3>2. CountIn(samples', Good) = CountIn(samples, Good) + 1 /\ CountIn(samples', Bad) = CountIn(samples, Bad)
      BY <1>7, <3>1, UsageNumbers
    <3>3. caller' = [caller EXCEPT ![c] = "ok"]
      BY <1>1, <2>1
    <3>4. /\ AsMany(caller', "ok") = AsMany(caller, "ok") + 1
          /\ AsMany(caller', "failed") = AsMany(caller, "failed")
      BY <1>8, <3>3
    <3> QED BY <1>2, <1>6, <3>2, <3>4, UsageNumbers DEF Balanced
  <2>2. CASE ~ sample.ok
    <3>1. sample \in Bad /\ sample \notin Good
      BY <1>3, <2>2 DEF Good, Bad
    <3>2. CountIn(samples', Bad) = CountIn(samples, Bad) + 1 /\ CountIn(samples', Good) = CountIn(samples, Good)
      BY <1>7, <3>1, UsageNumbers
    <3>3. caller' = [caller EXCEPT ![c] = "failed"]
      BY <1>1, <2>2
    <3>4. /\ AsMany(caller', "failed") = AsMany(caller, "failed") + 1
          /\ AsMany(caller', "ok") = AsMany(caller, "ok")
      BY <1>8, <3>3
    <3> QED BY <1>2, <1>6, <3>2, <3>4, UsageNumbers DEF Balanced
  <2> QED BY <2>1, <2>2
<1>10. ReportsAreExact'
  BY <1>2, <1>4, <1>6, <1>9, ExactIsNext
<1> QED BY <1>2, <1>4, <1>5, <1>10 DEF UsageInv

\* A sample goes from the channel to the measurement.
LEMMA UsageOfSample ==
  ASSUME UsageInv, IngestSample
  PROVE  UsageInv'
<1> DEFINE sample == Head(samples)
<1>1. /\ samples # <<>> /\ samples' = Tail(samples) /\ measured' = Ingested(measured, sample)
      /\ window' = IF sample.ok THEN Append(window, sample.elapsed) ELSE window
      /\ caller' = caller /\ aggregated' = aggregated
  BY DEF IngestSample
<1>2. sample \in Samples /\ samples' \in Seq(Samples)
  BY <1>1, HeadTailProperties, EmptySeq DEF UsageInv
<1>3. \A T : CountIn(samples, T) = CountIn(samples', T) + (IF sample \in T THEN 1 ELSE 0)
  BY <1>1, CountLess DEF UsageInv
<1>4. /\ measured' \in Measurements /\ window' \in Seq(Nat) /\ Measures(measured', window')
      /\ measured'.count = measured.count + (IF sample.ok THEN 1 ELSE 0)
      /\ measured'.failed = measured.failed + (IF sample.ok THEN 0 ELSE 1)
  BY <1>1, <1>2, OneMoreMeasured DEF UsageInv
<1> HIDE DEF sample
<1>5. Balanced(caller, samples, measured, aggregated) /\ AllTrue(aggregated)
  BY ExactIs DEF UsageInv
<1>6. CountIn(samples', Good) \in Nat /\ CountIn(samples', Bad) \in Nat
  BY <1>2, CountType
<1>7. Balanced(caller, samples, measured, aggregated)
  BY <1>5
<1>8. /\ AsMany(caller', "ok") = AsMany(caller, "ok") /\ AsMany(caller', "failed") = AsMany(caller, "failed")
      /\ SumOf(aggregated', "count") = SumOf(aggregated, "count")
      /\ SumOf(aggregated', "failed") = SumOf(aggregated, "failed")
  BY <1>1
<1>9. Balanced(caller', samples', measured', aggregated')
  <2>1. CASE sample.ok
    <3>1. sample \in Good /\ sample \notin Bad
      BY <1>2, <2>1 DEF Good, Bad
    <3>2. CountIn(samples, Good) = CountIn(samples', Good) + 1 /\ CountIn(samples, Bad) = CountIn(samples', Bad)
      BY <1>3, <1>6, <3>1
    <3>3. measured'.count = measured.count + 1 /\ measured'.failed = measured.failed
      BY <1>4, <2>1, UsageNumbers
    <3> QED BY <1>6, <1>7, <1>8, <3>2, <3>3, UsageNumbers DEF Balanced
  <2>2. CASE ~ sample.ok
    <3>1. sample \in Bad /\ sample \notin Good
      BY <1>2, <2>2 DEF Good, Bad
    <3>2. CountIn(samples, Bad) = CountIn(samples', Bad) + 1 /\ CountIn(samples, Good) = CountIn(samples', Good)
      BY <1>3, <1>6, <3>1
    <3>3. measured'.failed = measured.failed + 1 /\ measured'.count = measured.count
      BY <1>4, <2>2, UsageNumbers
    <3> QED BY <1>6, <1>7, <1>8, <3>2, <3>3, UsageNumbers DEF Balanced
  <2> QED BY <2>1, <2>2
<1>10. ReportsAreExact'
  BY <1>1, <1>2, <1>5, <1>9, ExactIsNext
<1> QED BY <1>1, <1>2, <1>4, <1>10 DEF UsageInv

\* The measurement becomes a report, and starts again.
LEMMA UsageOfReport ==
  ASSUME UsageInv, NEW r \in Reporters, AggregateAndReset(r)
  PROVE  UsageInv'
<1> DEFINE taken == [count |-> measured.count, sum |-> measured.sum, failed |-> measured.failed,
                     over |-> measured.over]
           new == [durations |-> taken, window |-> window, percentiles |-> ComputePercentiles(measured)]
<1>1. /\ aggregated' = Append(aggregated, new) /\ measured' = Reset(measured) /\ window' = <<>>
      /\ caller' = caller /\ samples' = samples
  BY DEF AggregateAndReset
<1>2. taken \in Sums
  BY DEF UsageInv, Measurements, Sums
<1>3. new \in Taken
  <2>1. ComputePercentiles(measured) \in [Percentiles -> Nat]
    BY PercentilesType DEF UsageInv
  <2> QED BY <1>2, <2>1 DEF Taken, UsageInv
<1>4. IsTrueOf(new, new.window)
  <2>1. /\ new.percentiles = ComputePercentiles(measured) /\ new.durations = taken /\ new.window = window
    OBVIOUS
  <2> HIDE DEF new
  <2> QED BY <2>1, TakenIsTrue DEF UsageInv
<1>5. measured' \in Measurements /\ Measures(measured', window') /\ measured'.count = 0 /\ measured'.failed = 0
  BY <1>1, ResetIsEmpty DEF UsageInv
<1>6. new.durations["count"] = measured.count /\ new.durations["failed"] = measured.failed
  OBVIOUS
<1> HIDE DEF new, taken
<1>7. aggregated' \in Seq(Taken)
  BY <1>1, <1>3, AppendProperties DEF UsageInv
<1>8. Balanced(caller, samples, measured, aggregated) /\ AllTrue(aggregated)
  BY ExactIs DEF UsageInv
<1>9. Balanced(caller', samples', measured', aggregated')
  <2>1. /\ SumOf(aggregated', "count") = SumOf(aggregated, "count") + measured.count
        /\ SumOf(aggregated', "failed") = SumOf(aggregated, "failed") + measured.failed
    BY <1>1, <1>3, <1>6, OneMoreReport DEF UsageInv
  <2> QED BY <1>1, <1>5, <1>8, <2>1, UsageNumbers DEF Balanced
<1>10. AllTrue(aggregated')
  <2> DEFINE n == Len(aggregated)
  <2>1. /\ n \in Nat /\ DOMAIN aggregated = 1 .. n /\ DOMAIN aggregated' = 1 .. n + 1
        /\ aggregated'[n + 1] = new /\ \A i \in 1 .. n : aggregated'[i] = aggregated[i]
    BY <1>1, <1>3, AppendProperties, LenProperties DEF UsageInv
  <2> HIDE DEF n
  <2>2. \A i \in 1 .. n + 1 : i \in 1 .. n \/ i = n + 1
    BY <2>1
  <2>3. ASSUME NEW i \in 1 .. n + 1
        PROVE  IsTrueOf(aggregated'[i], aggregated'[i].window)
    <3>1. CASE i = n + 1
      <4>1. aggregated'[i] = new
        BY <2>1, <3>1
      <4> QED BY <1>4, <4>1
    <3>2. CASE i \in 1 .. n
      <4>1. aggregated'[i] = aggregated[i] /\ IsTrueOf(aggregated[i], aggregated[i].window)
        BY <1>8, <2>1, <3>2 DEF AllTrue
      <4> QED BY <4>1
    <3> QED BY <2>2, <3>1, <3>2
  <2> QED BY <2>1, <2>3 DEF AllTrue
<1>11. samples' \in Seq(Samples) /\ window' \in Seq(Nat) /\ caller' \in [Callers -> States]
  BY <1>1 DEF UsageInv
<1>12. ReportsAreExact'
  BY <1>9, <1>10, <1>11, ExactIsNext
<1> QED BY <1>5, <1>7, <1>11, <1>12 DEF UsageInv

\* A request that arrives has not ended; nothing else concerns these.
LEMMA UsageOfArrival ==
  ASSUME UsageInv, NEW c \in Callers, Arrives(c)
  PROVE  UsageInv'
<1>1. /\ caller[c] = "arrives" /\ caller' = [caller EXCEPT ![c] = "calls"] /\ samples' = samples
      /\ measured' = measured /\ window' = window /\ aggregated' = aggregated
  BY DEF Arrives
<1>2. caller' \in [Callers -> States]
  BY <1>1 DEF UsageInv, States
<1>3. AsMany(caller', "ok") = AsMany(caller, "ok") /\ AsMany(caller', "failed") = AsMany(caller, "failed")
  <2>1. \A d \in Callers : /\ caller'[d] = "ok" <=> caller[d] = "ok"
                           /\ caller'[d] = "failed" <=> caller[d] = "failed"
    BY <1>1 DEF UsageInv
  <2>2. /\ {d \in Callers : caller'[d] = "ok"} = {d \in Callers : caller[d] = "ok"}
        /\ {d \in Callers : caller'[d] = "failed"} = {d \in Callers : caller[d] = "failed"}
    BY <2>1
  <2> QED BY <2>2 DEF AsMany
<1>4. Balanced(caller, samples, measured, aggregated) /\ AllTrue(aggregated)
  BY ExactIs DEF UsageInv
<1>5. Balanced(caller', samples', measured', aggregated')
  BY <1>1, <1>3, <1>4 DEF Balanced
<1>6. ReportsAreExact'
  BY <1>1, <1>4, <1>5, ExactIsNext DEF UsageInv
<1> QED BY <1>1, <1>2, <1>6 DEF UsageInv

usageVars == <<caller, samples, measured, window, aggregated>>

LEMMA UsageOfOthers ==
  ASSUME UsageInv, UNCHANGED usageVars
  PROVE  UsageInv'
<1>1. /\ caller' = caller /\ samples' = samples /\ measured' = measured /\ window' = window
      /\ aggregated' = aggregated
  BY DEF usageVars
<1>2. ReportsAreExact'
  BY <1>1, ExactIs, ExactIsNext DEF UsageInv
<1> QED BY <1>1, <1>2 DEF UsageInv

LEMMA UsageSteps == UsageInv /\ [TelemetryNext]_telemetryVars => UsageInv'
<1> SUFFICES ASSUME UsageInv, [TelemetryNext]_telemetryVars
             PROVE  UsageInv'
  OBVIOUS
<1>1. ASSUME NEW c \in Callers, Arrives(c)
      PROVE  UsageInv'
  BY <1>1, UsageOfArrival
<1>2. ASSUME NEW c \in Callers, SpanEnds(c)
      PROVE  UsageInv'
  BY <1>2, UsageOfSpan
<1>3. CASE IngestSample
  BY <1>3, UsageOfSample
<1>4. ASSUME NEW r \in Reporters, AggregateAndReset(r)
      PROVE  UsageInv'
  BY <1>4, UsageOfReport
<1>5. CASE IngestAgent
  BY <1>5, UsageOfOthers DEF IngestAgent, usageVars
<1>6. ASSUME NEW r \in Reporters, AggregateTopValuesAndReset(r) \/ CollectBackends(r) \/ Report(r)
      PROVE  UsageInv'
  BY <1>6, UsageOfOthers DEF AggregateTopValuesAndReset, CollectBackends, Report, usageVars
<1>7. CASE Cycle
  BY <1>7, UsageOfOthers DEF Cycle, usageVars
<1>8. CASE StopAgent
  BY <1>8, UsageOfOthers DEF StopAgent, usageVars
<1>9. CASE UNCHANGED telemetryVars
  BY <1>9, UsageOfOthers DEF telemetryVars, usageVars
<1> QED BY <1>1, <1>2, <1>3, <1>4, <1>5, <1>6, <1>7, <1>8, <1>9 DEF TelemetryNext

\* For any callers, durations, thresholds and percentiles, and a pool, channels and
\* rounds of any size: no call that has ended is lost or reported twice while the
\* loop and Stop collect at once, and count, sum, thresholds and percentiles of
\* each report are those of its window, although the pool is never cleared.
THEOREM ReportsAreAlwaysExact == TelemetrySpec => []ReportsAreExact
<1>1. UsageInv => ReportsAreExact
  BY DEF UsageInv
<1> QED BY <1>1, UsageInitially, UsageSteps, PTL DEF TelemetrySpec
=============================================================================
