------------------------------- MODULE BulkWrite -------------------------------
(***************************************************************************)
(* A _bulk request: quesma/functionality/bulk/bulk.go, with the iteration  *)
(* over its entries of quesma/types/ndjson.go.                             *)
(*                                                                         *)
(* The bulk is split by what the table resolver decides of each entry's    *)
(* index; Elasticsearch gets its part in one request, then ClickHouse one  *)
(* batch per index.  Every entry keeps a pointer to its place in the       *)
(* results: here, its position in the bulk.                                *)
(***************************************************************************)
EXTENDS Naturals, Sequences, FiniteSets

CONSTANTS Connectors,  \* index -> the connectors its decision uses, {} for a closed one
          Unresolved,  \* the indexes whose decision is an error
          Operations,  \* of "create", "index", "update" and "delete"
          MaxEntries   \* bound on the length of a bulk

Indexes == DOMAIN Connectors
NoIndex == "no index"

ASSUME BulkWriteAssumption ==
  /\ \A x \in Indexes : Connectors[x] \subseteq {"elastic", "clickhouse"}
  /\ Unresolved \subseteq Indexes /\ NoIndex \notin Indexes /\ MaxEntries \in Nat

VARIABLES
  bulk,          \* its entries: [operation, index]
  defaultIndex,  \* of the URL, or NoIndex
  ingests,       \* whether there is an ingest processor
  pc,            \* "split", "elastic", "clickhouse", "answered" or "failed"
  results,       \* position -> [by |-> who answered it, ok]
  toElastic,     \* elasticBulkEntries: their positions
  toClickhouse,  \* clickhouseBulkEntries: index -> positions
  stored         \* history: [at |-> position, in |-> backend]

bulkVars == <<bulk, defaultIndex, ingests, pc, results, toElastic, toClickhouse, stored>>

NoResult  == [by |-> "nobody", ok |-> FALSE]
Closed == [by |-> "closed", ok |-> FALSE]

Entries == [operation : Operations, index : Indexes \union {NoIndex}]

BulkInit ==
  /\ bulk \in UNION {[1 .. n -> Entries] : n \in 1 .. MaxEntries}
  /\ defaultIndex \in Indexes \union {NoIndex} /\ ingests \in BOOLEAN
  /\ pc = "split" /\ results = [i \in DOMAIN bulk |-> NoResult]
  /\ toElastic = {} /\ toClickhouse = [x \in Indexes |-> {}] /\ stored = {}

-----------------------------------------------------------------------------
(* SplitBulk                                                               *)

IndexOf(i) == IF bulk[i].index = NoIndex THEN defaultIndex ELSE bulk[i].index

Inserts(i) == bulk[i].operation \in {"create", "index"}

\* One such entry fails the bulk, as it does in Elasticsearch: no index, or one
\* that is not resolved, or an operation ClickHouse and closed indexes refuse.
Rejected(i) ==
  IndexOf(i) \in Indexes \ Unresolved => ~Inserts(i) /\ Connectors[IndexOf(i)] # {"elastic"}

For(backend)     == {i \in DOMAIN bulk : backend \in Connectors[IndexOf(i)]}
\* Entries of one index are one batch, in their order.
ByIndex(entries) == [x \in Indexes |-> {i \in entries : IndexOf(i) = x}]

\* Mutant: a delete for ClickHouse is left out of the split, and the bulk goes on.
SplitSkipping ==
  /\ pc = "split"
  /\ LET left == {i \in DOMAIN bulk : ~Rejected(i)}
     IN  /\ toElastic' = {i \in left : "elastic" \in Connectors[IndexOf(i)]}
         /\ toClickhouse' = ByIndex({i \in left : "clickhouse" \in Connectors[IndexOf(i)]})
  /\ UNCHANGED results /\ pc' = "elastic"
  /\ UNCHANGED <<bulk, defaultIndex, ingests, stored>>

Split ==
  /\ pc = "split" /\ \A i \in DOMAIN bulk : ~Rejected(i)
  /\ toElastic' = For("elastic") /\ toClickhouse' = ByIndex(For("clickhouse"))
  /\ results' = [i \in DOMAIN bulk |-> IF Connectors[IndexOf(i)] = {} THEN Closed ELSE NoResult]
  /\ pc' = IF ~ingests /\ For("clickhouse") # {} THEN "failed" ELSE "elastic"
  /\ UNCHANGED <<bulk, defaultIndex, ingests, stored>>

Reject ==
  /\ pc = "split" /\ \E i \in DOMAIN bulk : Rejected(i)
  /\ pc' = "failed"
  /\ UNCHANGED <<bulk, defaultIndex, ingests, results, toElastic, toClickhouse, stored>>

-----------------------------------------------------------------------------
(* sendToElastic, sendToClickhouse                                         *)

In(backend, positions) == {[at |-> i, in |-> backend] : i \in positions}

\* Elasticsearch answers entry by entry, in their order.
SendToElastic ==
  /\ pc = "elastic"
  /\ \E accepted \in SUBSET toElastic :
       /\ results' = [i \in DOMAIN bulk |->
                        IF i \in toElastic THEN [by |-> "elastic", ok |-> i \in accepted]
                        ELSE results[i]]
       /\ stored' = stored \union In("elastic", accepted)
  /\ pc' = "clickhouse"
  /\ UNCHANGED <<bulk, defaultIndex, ingests, toElastic, toClickhouse>>

\* Mutant: the error is only logged, and ClickHouse gets its part.
ElasticFailsQuietly ==
  /\ pc = "elastic" /\ toElastic # {}
  /\ pc' = "clickhouse"
  /\ UNCHANGED <<bulk, defaultIndex, ingests, results, toElastic, toClickhouse, stored>>

\* The request fails, and what it has stored is unknown.
ElasticFails ==
  /\ pc = "elastic" /\ toElastic # {}
  /\ stored' \in {stored, stored \union In("elastic", toElastic)}
  /\ pc' = "failed"
  /\ UNCHANGED <<bulk, defaultIndex, ingests, results, toElastic, toClickhouse>>

\* The indexes come in any order.  An entry that went to both backends gets
\* the answer of ClickHouse; a batch that failed may be stored in part.
SendToClickhouse(x) ==
  /\ pc = "clickhouse" /\ toClickhouse[x] # {}
  /\ \E ok \in BOOLEAN, kept \in SUBSET toClickhouse[x] :
       /\ ok => kept = toClickhouse[x]
       /\ results' = [i \in DOMAIN bulk |->
                        IF i \in toClickhouse[x] THEN [by |-> "clickhouse", ok |-> ok]
                        ELSE results[i]]
       /\ stored' = stored \union In("clickhouse", kept)
  /\ toClickhouse' = [toClickhouse EXCEPT ![x] = {}]
  /\ UNCHANGED <<bulk, defaultIndex, ingests, pc, toElastic>>

\* The results that are not empty, in their order.
WithoutEmpty(rs) ==
  LET left == {i \in DOMAIN rs : rs[i] # NoResult}
  IN  [k \in 1 .. Cardinality(left) |->
         rs[CHOOSE i \in left : Cardinality({j \in left : j <= i}) = k]]

\* Results that are empty are left out of the answer.
Answer ==
  /\ pc = "clickhouse" /\ \A x \in Indexes : toClickhouse[x] = {}
  /\ pc' = "answered" /\ results' = WithoutEmpty(results)
  /\ UNCHANGED <<bulk, defaultIndex, ingests, toElastic, toClickhouse, stored>>

BulkNext ==
  \/ Split \/ Reject \/ SendToElastic \/ ElasticFails \/ Answer
  \/ \E x \in Indexes : SendToClickhouse(x)

BulkSpec == BulkInit /\ [][BulkNext]_bulkVars

-----------------------------------------------------------------------------
(* Properties.                                                             *)

\* Who has the last word on an entry.
AnsweredBy(i) ==
  LET to == Connectors[IndexOf(i)]
  IN  IF "clickhouse" \in to THEN "clickhouse" ELSE IF to = {} THEN "closed" ELSE "elastic"

\* A client may repeat a bulk that failed: nothing of it is in ClickHouse.
\* The answer to another has one item for each entry in the entry's place,
\* which says that a document is stored only when the backend that said so
\* has it.
BulkAnswersInPlace ==
  /\ pc = "failed" => \A s \in stored : s.in # "clickhouse"
  /\ pc = "answered" =>
       /\ Len(results) = Len(bulk)
       /\ \A i \in DOMAIN bulk :
            /\ results[i].by = AnsweredBy(i)
            /\ results[i].ok => [at |-> i, in |-> results[i].by] \in stored
=============================================================================
