----------------------------- MODULE ResponseDiff -----------------------------
(***************************************************************************)
(* How two answers are compared: the processors of a collector of A/B      *)
(* results (quesma/ab_testing/collector: processors.go, diff.go,           *)
(* elastic_response_diff.go, filters.go, fanout.go), util/jsondiff.go, and *)
(* JsonDifference of util/utils.go, which the management console uses.     *)
(*                                                                         *)
(* ABTesting and ABResults say how two answers come to be compared, and    *)
(* ManagementConsole when it compares them; here is what is found.         *)
(*                                                                         *)
(* Numbers are in units of 1/10000.  A text is a word, and a word may be a *)
(* date.                                                                   *)
(***************************************************************************)
EXTENDS Integers, FiniteSets, Sequences, SequencesExt

CONSTANTS Reports,    \* the results to compare: two responses, and an opaque id
          MaxNesting,
          Values,     \* n -> JSON values that are nested at most n deep
          Places      \* the steps to the elements of an array: "[0]", "[1]", ...

VARIABLES
  report,   \* what is compared
  line,     \* what is written of it to the log of A/B results
  surplus   \* what the management console finds

diffVars == <<report, line, surplus>>

Null           == [is |-> "null"]
Text(word)     == [is |-> "text", word |-> word]
ListOf(elems)  == [is |-> "list", elems |-> elems]
Object(fields) == [is |-> "object", fields |-> fields]
IsObject(v)    == v.is = "object"

NoLine == [is |-> "nothing"]

\* Fields and elements are steps on the way to a value; a path is a sequence of them.
Steps(v) ==
  IF IsObject(v) THEN DOMAIN v.fields
  ELSE IF v.is = "list" THEN {Places[i] : i \in DOMAIN v.elems} ELSE {}

\* What a map has not is nil.
Child(v, step) ==
  IF step \notin Steps(v) THEN Null
  ELSE IF IsObject(v) THEN v.fields[step]
  ELSE v.elems[CHOOSE i \in DOMAIN v.elems : Places[i] = step]

At(v, path) ==
  LET at[n \in 0 .. Len(path)] == IF n = 0 THEN v ELSE Child(at[n - 1], path[n])
  IN  at[Len(path)]

Prefix(path, n) == SubSeq(path, 1, n)

Paths(v) ==
  LET paths[n \in 0 .. MaxNesting] ==
        IF n = 0 THEN {<<>>}
        ELSE UNION {{Append(p, s) : s \in Steps(At(v, p))} : p \in paths[n - 1]}
  IN  UNION {paths[n] : n \in 0 .. MaxNesting}

OpaqueIds == {"none", "dashboard", "panel"}

\* Arrays are sequences, and values are as deep as they are said to be.
ASSUME ResponseDiffAssumption ==
  /\ MaxNesting \in Nat
  /\ \A i, j \in DOMAIN Places : Places[i] = Places[j] => i = j
  /\ \A n \in 0 .. MaxNesting : \A v \in Values[n] :
       /\ v.is = "list" => v.elems \in Seq({v.elems[i] : i \in DOMAIN v.elems})
                             /\ DOMAIN v.elems \subseteq DOMAIN Places
       /\ \A s \in Steps(v) : n > 0 /\ Child(v, s) \in Values[n - 1]
  /\ \A n \in 1 .. MaxNesting : Values[n - 1] \subseteq Values[n]
  /\ LET Answers == [error : BOOLEAN, body : Values[MaxNesting]]
     IN  Reports \subseteq [a : Answers, b : Answers, opaque : OpaqueIds]

-----------------------------------------------------------------------------
(* Paths that are not compared (NewElasticResponseJSONDiff).               *)

Internal  == {"Quesma_key_1", "__quesma_total_count"}  \* wherever they occur
Whole     == {"id", "took"}                            \* of the response itself
Generated == {"_id", "_score", "_source", "__quesma_originalKey"}
Trailing  == {"_version", "keyword", "lat", "lon"}

Ignored(path) ==
  \/ \E i \in DOMAIN path : path[i] \in Internal \/ (i > 1 /\ path[i] \in Generated)
  \/ Len(path) = 1 /\ path[1] \in Whole
  \/ Len(path) > 0 /\ path[1] = "_shards"
  \/ Len(path) > 1 /\ path[Len(path)] \in Trailing
  \/ Len(path) > 0 /\ path[Len(path)] = "OriginLocation"

\* Elements of arrays on these paths are known by their keys, and those of arrays
\* further down.
HasKeys(path) == \E i \in DOMAIN path : path[i] = "buckets"

-----------------------------------------------------------------------------
(* Scalars.                                                                *)

Distance(m, n) == IF m < n THEN n - m ELSE m - n
Larger(m, n)   == IF Distance(m, 0) < Distance(n, 0) THEN Distance(n, 0) ELSE Distance(m, 0)

\* More than 1/1000 apart, absolutely and relatively.
Apart(m, n) == Distance(m, n) > 10 /\ Distance(m, n) > Larger(m, n) \div 1000

\* uniformTimeFormat: the instant of a date in one of four layouts; a date in
\* another one is only itself.
Instant ==
  [noon |-> "noon", noonZ |-> "noon", noonAt2 |-> "noon", later |-> "later",
   unreadable |-> "unreadable"]
LooksLikeDate(word)    == word \in DOMAIN Instant
UniformTimeFormat(word) == IF LooksLikeDate(word) THEN Instant[word] ELSE word

\* How two values that are neither null nor contain others differ.  Texts that are
\* not dates are not compared.
ScalarMismatch(x, y) ==
  IF x.is # y.is THEN {"invalid_type"}
  ELSE CASE x.is = "number" /\ Apart(x.n, y.n) -> {"invalid_number_value"}
         [] x.is = "text" /\ LooksLikeDate(x.word)
              /\ UniformTimeFormat(x.word) # UniformTimeFormat(y.word) -> {"invalid_date_value"}
         [] x.is = "truth" /\ x # y -> {"invalid_value"}
         [] OTHER -> {}

-----------------------------------------------------------------------------
(* Arrays whose elements have keys.                                        *)

\* A key is written down, so that the number 1 and the text "1" are one key.
AsKey(v) == IF v = Text("1") THEN [is |-> "number", n |-> 10000] ELSE v

HaveKeys(elems) ==
  /\ \A i \in DOMAIN elems : IsObject(elems[i]) /\ "key" \in DOMAIN elems[i].fields
  /\ \A i, j \in DOMAIN elems :
       AsKey(elems[i].fields["key"]) = AsKey(elems[j].fields["key"]) => i = j

KeysOf(elems)  == [i \in DOMAIN elems |-> AsKey(elems[i].fields["key"])]
KeySet(elems)  == {KeysOf(elems)[i] : i \in DOMAIN elems}

EasilySeen == 5   \* keys

\* compareArrayByElementKeys: what is found without looking at the elements.
KeyMismatch(xs, ys) ==
  LET common == KeySet(xs) \intersect KeySet(ys)
  IN  IF ~HaveKeys(xs) \/ ~HaveKeys(ys) THEN {}
      ELSE IF common = {} THEN {"array_keys_difference"}
      ELSE IF /\ Cardinality(common) # Len(xs) /\ Len(xs) > EasilySeen
              /\ Cardinality(common) > Len(xs) - 2
      THEN {"array_keys_difference_slightly"}
      ELSE IF KeysOf(xs) # KeysOf(ys) /\ KeySet(xs) = KeySet(ys)
      THEN {"array_keys_sort_difference"} ELSE {}

-----------------------------------------------------------------------------
(* JSONDiff: the mismatches of two values at a path.                       *)

Mismatch(path, types) == {[path |-> path, type |-> t] : t \in types}

LengthMismatch(xs, ys) ==
  CASE Distance(Len(xs), Len(ys)) > 1 -> {"invalid_array_length"}
    [] Distance(Len(xs), Len(ys)) = 1 -> {"invalid_array_length_off_by_one"}
    [] OTHER -> {}

\* What is wrong with two objects or arrays as a whole.
ObjectMismatch(x, y) ==
  IF DOMAIN x.fields \intersect DOMAIN y.fields = {} THEN {"object_difference"} ELSE {}

ArrayMismatch(path, xs, ys) ==
  IF LengthMismatch(xs, ys) # {} THEN LengthMismatch(xs, ys)
  ELSE IF xs # <<>> /\ HasKeys(path) THEN KeyMismatch(xs, ys) ELSE {}

\* What compare, compareObject and compareArray add themselves.
TypesOf(path, x, y) ==
  IF x = Null \/ y = Null THEN IF x = y THEN {} ELSE {"invalid_value"}
  ELSE IF IsObject(x) /\ IsObject(y) THEN ObjectMismatch(x, y)
  ELSE IF x.is = "list" /\ y.is = "list" THEN ArrayMismatch(path, x.elems, y.elems)
  ELSE ScalarMismatch(x, y)

\* Mutant of GoesInto: arrays with the same keys are the same.
GoesIntoUnlessKeys(path, x, y) ==
  IF Ignored(path) \/ TypesOf(path, x, y) # {} \/ HasKeys(path) THEN {}
  ELSE Steps(x) \union Steps(y)

\* The fields or elements compare is called with, if nothing is wrong as a whole.
GoesInto(path, x, y) ==
  IF Ignored(path) \/ TypesOf(path, x, y) # {} THEN {} ELSE Steps(x) \union Steps(y)

\* The paths compare is called at: it went into every step on the way.
ComparedAt(x, y) ==
  {p \in Paths(x) \union Paths(y) :
     \A k \in 1 .. Len(p) :
       LET above == Prefix(p, k - 1) IN p[k] \in GoesInto(above, At(x, above), At(y, above))}

Diff(x, y) ==
  UNION {Mismatch(p, TypesOf(p, At(x, p), At(y, p))) :
           p \in {q \in ComparedAt(x, y) : ~Ignored(q)}}

-----------------------------------------------------------------------------
(* The processors, in the order of NewCollector.                           *)

NotJson == Text("not JSON")

\* extractKibanaIds: an opaque id has the id of a dashboard, and perhaps of a panel.
KibanaIds(opaque) ==
  [dashboard |-> opaque \in {"dashboard", "panel"}, panel |-> opaque = "panel"]

\* unifySyncAsyncResponse: the answer of an async search without its wrapper; both
\* or none.
Unwrapped(body) == IF "response" \in DOMAIN body.fields THEN body.fields["response"] ELSE body

Unified(r) ==
  IF IsObject(r.a.body) /\ IsObject(r.b.body)
  THEN [r EXCEPT !.a.body = Unwrapped(@), !.b.body = Unwrapped(@)] ELSE r

\* diffTransformer.
ErrorsOf(r) ==
  {[path |-> <<"n/a", side>>, type |-> "error"] : side \in {s \in {"a", "b"} : r[s].error}}

Verdict(r) ==
  IF r.a.error \/ r.b.error
  THEN [ok |-> FALSE, read |-> TRUE, mismatches |-> ErrorsOf(r)]
  ELSE IF ~IsObject(r.a.body) \/ ~IsObject(r.b.body)
  THEN [ok |-> FALSE, read |-> FALSE, mismatches |-> {}]
  ELSE LET found == Diff(r.a.body, r.b.body)
       IN  [ok |-> found = {}, read |-> TRUE, mismatches |-> found]

\* mostCommonMismatchType: one of them, if several are as common.
TopTypes(mismatches) ==
  LET Count(t) == Cardinality({m \in mismatches : m.type = t})
      types == {m.type : m \in mismatches}
  IN  {t \in types : \A u \in types : Count(u) <= Count(t)}

\* redactOkResults.
Redacted(r, ok) == IF ok THEN "redacted" ELSE r

\* processResult: a line for every result, unless it cannot be ingested
\* (internalIngestFanout).
ProcessResult ==
  /\ line = NoLine
  /\ LET r == Unified(report)
     IN  \E v \in {Verdict(r)} : \E top \in TopTypes(v.mismatches) \union {"none"} :
           /\ (top = "none") <=> (v.mismatches = {})
           /\ line' \in {[is |-> "written", ok |-> v.ok, read |-> v.read,
                          mismatches |-> v.mismatches, top |-> top,
                          responses |-> Redacted([a |-> r.a, b |-> r.b], v.ok),
                          kibana |-> KibanaIds(report.opaque)],
                         [is |-> "failed"]}
  /\ UNCHANGED <<report, surplus>>

-----------------------------------------------------------------------------
(* JsonDifference: fields that only one of two answers has.  Values are not *)
(* compared.                                                               *)

\* On which side a step is found that both values of the same kind should have; what
\* x has decides.  Elements that are arrays or scalars are the same.
SidesOf(x, y, s) ==
  LET cx == Child(x, s)
      cy == Child(y, s)
  IN  IF s \notin Steps(y) THEN {"x"}
      ELSE IF s \notin Steps(x) THEN {"y"}
      ELSE IF x.is = "list" THEN IF IsObject(cx) # IsObject(cy) THEN {"x", "y"} ELSE {}
      ELSE IF cx.is \notin {"object", "list"} \/ cx.is = cy.is THEN {}
      ELSE IF IsObject(cx) /\ cy = Null THEN {"x"} ELSE {"x", "y"}

\* Two objects, or two arrays that are fields.
Descends(x, y, s) ==
  /\ s \in Steps(x) \intersect Steps(y) /\ Child(x, s).is = Child(y, s).is
  /\ IsObject(Child(x, s)) \/ (IsObject(x) /\ Child(x, s).is = "list")

\* The paths descendRec comes to.
Descended(x, y) ==
  {p \in Paths(x) :
     \A k \in 1 .. Len(p) :
       LET above == Prefix(p, k - 1) IN Descends(At(x, above), At(y, above), p[k])}

MapDifference(x, y) ==
  UNION {UNION {[side : SidesOf(At(x, p), At(y, p), s), path : {Append(p, s)}] :
                  s \in Steps(At(x, p)) \union Steps(At(y, p))} : p \in Descended(x, y)}

\* comparePipelines, when both answers have come and are not the same.
FindSurplus ==
  /\ surplus = NoLine /\ report.a.body # report.b.body
  /\ surplus' =
       IF ~IsObject(report.a.body) \/ ~IsObject(report.b.body) THEN [is |-> "failed"]
       ELSE [is |-> "found",
             fields |-> MapDifference(report.a.body, report.b.body)]
  /\ UNCHANGED <<report, line>>

DiffInit == report \in Reports /\ line = NoLine /\ surplus = NoLine
DiffNext == ProcessResult \/ FindSurplus

DiffSpec == DiffInit /\ [][DiffNext]_diffVars

-----------------------------------------------------------------------------
(* What there is to find: the values two answers have at the same path.    *)

\* Two values that differ, whatever is in them.
Different(x, y) ==
  \/ (x = Null) # (y = Null) \/ x.is # y.is
  \/ ScalarMismatch(x, y) # {}
  \/ IsObject(x) /\ IsObject(y) /\ DOMAIN x.fields \intersect DOMAIN y.fields = {}
  \/ x.is = "list" /\ y.is = "list" /\ Len(x.elems) # Len(y.elems)

\* Two arrays that have the same length and not the same keys in the same order.
OtherKeys(x, y) ==
  /\ x.is = "list" /\ y.is = "list"
  /\ HaveKeys(x.elems) /\ HaveKeys(y.elems) /\ KeysOf(x.elems) # KeysOf(y.elems)

\* Two answers are found to be the same exactly when they have no values that
\* differ at a path that counts, but for texts; and whoever reads a mismatch finds
\* a difference at its path, and for every difference a mismatch at its path or
\* above (JSONDiff.Diff, diffTransformer).
DifferencesAreReported ==
  line.is = "written" =>
    LET r == Unified(report)
        Counts(p)  == \A k \in 0 .. Len(p) : ~Ignored(Prefix(p, k))
        Differs(p) == Counts(p) /\ Different(At(r.a.body, p), At(r.b.body, p))
    IN  IF r.a.error \/ r.b.error \/ ~IsObject(r.a.body) \/ ~IsObject(r.b.body)
        THEN ~line.ok
        ELSE /\ line.ok <=> line.mismatches = {}
             /\ \A m \in line.mismatches :
                  \/ Differs(m.path)
                  \/ Counts(m.path) /\ OtherKeys(At(r.a.body, m.path), At(r.b.body, m.path))
             /\ \A p \in Paths(r.a.body) \union Paths(r.b.body) :
                  Differs(p) => \E m \in line.mismatches : IsPrefix(m.path, p)

\* One answer has a path and the other has not, where both have what is above it, of
\* the same kinds.
Lacks(v, w, p) ==
  /\ p \in Paths(v) \ Paths(w)
  /\ \A k \in 0 .. Len(p) - 1 : /\ Prefix(p, k) \in Paths(w)
                                 /\ At(v, Prefix(p, k)).is = At(w, Prefix(p, k)).is

\* An array that is an element of another one is not looked into.
WithinArrays(v, p) ==
  \E k \in 1 .. Len(p) - 1 : At(v, Prefix(p, k - 1)).is = "list" /\ At(v, Prefix(p, k)).is = "list"

\* An object or an array meets something of another kind.
Clash(x, y, p) ==
  /\ p \in Paths(x) \intersect Paths(y) /\ At(x, p).is # At(y, p).is
  /\ {At(x, p).is, At(y, p).is} \intersect {"object", "list"} # {}

\* The console finds every path of one answer that the other has not, if it is not
\* within an array of arrays; all else it finds are paths at which an object or an
\* array meets something of another kind (JsonDifference).
SurplusIsExact ==
  surplus.is = "found" =>
    LET x == report.a.body
        y == report.b.body
    IN  /\ \A p \in Paths(x) \union Paths(y) :
             /\ Lacks(x, y, p) /\ ~WithinArrays(x, p) => [side |-> "x", path |-> p] \in surplus.fields
             /\ Lacks(y, x, p) /\ ~WithinArrays(y, p) => [side |-> "y", path |-> p] \in surplus.fields
        /\ \A s \in surplus.fields :
             \/ Lacks(x, y, s.path) /\ s.side = "x"
             \/ Lacks(y, x, s.path) /\ s.side = "y"
             \/ Clash(x, y, s.path)

\* Of two answers exactly the differences are found, for the log of results and for
\* the console.
DifferencesAreFound == DifferencesAreReported /\ SurplusIsExact
=============================================================================
