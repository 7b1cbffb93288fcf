----------------------------- MODULE QueryExpr -----------------------------
(***************************************************************************)
(* Expressions of SQL as model/expr.go builds them, their traversal, and    *)
(* what the database makes of them, which is external.                      *)
(*                                                                         *)
(* A value is a record of one field, named for its kind: [text] a sequence  *)
(* of words, [num], [flag], [time] in ms, [address] with a net and a host,  *)
(* [net], [list] and [map] of texts, [point].  The text of a literal is the *)
(* value it spells, where its quotes come from (none, the text itself or   *)
(* the type of the literal, which adds them when it is printed) and which   *)
(* of its ends are open in a LIKE.  No text spells a value of another kind,  *)
(* and a LIKE pattern is made of whole words.                               *)
(***************************************************************************)
EXTENDS Integers, Sequences, FiniteSets, SequencesExt

CONSTANT Alphabet \* the words, in their order

Star == "*"

NullValue == [null |-> TRUE]
Unknown   == [error |-> TRUE]   \* what makes the database refuse the query

Text(words) == [text |-> words]
Num(n)      == [num |-> n]
Flag(b)     == [flag |-> b]
Time(ms)    == [time |-> ms]

None == [e |-> "none"]
Col(name)  == [e |-> "col", name |-> name]
Attr(name) == [e |-> "attr", key |-> name]
Lit(v)     == [e |-> "lit", value |-> v, quotes |-> "none", open |-> {}]
Quoted(v)  == [Lit(v) EXCEPT !.quotes = "text"]
Pattern(v, open) == [Quoted(v) EXCEPT !.open = open]
Both == {"start", "end"}
LikeFull(v)   == [Pattern(v, Both) EXCEPT !.quotes = "type"]
LikePrefix(v) == [Pattern(v, {"end"}) EXCEPT !.quotes = "type"]
Infix(l, op, r) == [e |-> "infix", left |-> l, op |-> op, right |-> r]
Not(x)       == [e |-> "not", arg |-> x]
Fn(f, args)  == [e |-> "fn", f |-> f, args |-> args]
Tuple(exprs) == [e |-> "tuple", exprs |-> exprs]
Lambda(op, r) == [e |-> "lambda", test |-> op, with |-> r]

TrueExpr  == Lit(Flag(TRUE))
FalseExpr == Lit(Flag(FALSE))
NullExpr  == Lit(NullValue)
IsNotNull(x) == Infix(x, "IS", Lit([notNull |-> TRUE]))

\* And and Or, of which one without operands is no expression at all.
CombineStatements(stmts, op) ==
  LET filled == SelectSeq(stmts, LAMBDA s : s # None)
  IN  IF filled = <<>> THEN None
      ELSE FoldLeft(LAMBDA all, s : Infix(all, op, s), Head(filled), Tail(filled))

And(stmts) == CombineStatements(stmts, "AND")
Or(stmts)  == CombineStatements(stmts, "OR")

-----------------------------------------------------------------------------
\* The visitor: the nodes of an expression, and the expression with some of
\* its nodes replaced.
RECURSIVE Nodes(_)
Nodes(x) ==
  {x} \cup CASE x.e = "infix" -> Nodes(x.left) \cup Nodes(x.right)
             [] x.e = "not"   -> Nodes(x.arg)
             [] x.e = "fn"    -> UNION {Nodes(a) : a \in ToSet(x.args)}
             [] x.e = "tuple" -> UNION {Nodes(a) : a \in ToSet(x.exprs)}
             [] x.e = "lambda" -> Nodes(x.with)
             [] OTHER -> {}

RECURSIVE Replace(_, _)
Replace(x, by) ==
  IF x \in DOMAIN by THEN by[x]
  ELSE CASE x.e = "infix" -> Infix(Replace(x.left, by), x.op, Replace(x.right, by))
         [] x.e = "not"   -> Not(Replace(x.arg, by))
         [] x.e = "fn"    -> Fn(x.f, [i \in DOMAIN x.args |-> Replace(x.args[i], by)])
         [] x.e = "tuple" -> Tuple([i \in DOMAIN x.exprs |-> Replace(x.exprs[i], by)])
         [] x.e = "lambda" -> Lambda(x.test, Replace(x.with, by))
         [] OTHER -> x

-----------------------------------------------------------------------------
\* The database.  A row is a function from columns to values; a missing
\* attribute is the empty text, and NULL is neither true nor false.
Is(kind, v) == kind \in DOMAIN v

AttributesColumn == "attributes_values"
IndexNameColumn  == "__quesma_index_name"

RankOf(word) == CHOOSE i \in DOMAIN Alphabet : Alphabet[i] = word

LessText(a, b) ==
  LET ends == {i \in 0..Len(a) : i <= Len(b) /\ SubSeq(a, 1, i) = SubSeq(b, 1, i)}
      i == CHOOSE j \in ends : \A k \in ends : k <= j
  IN  i < Len(b) /\ (i < Len(a) => RankOf(a[i + 1]) < RankOf(b[i + 1]))

Less(a, b) ==
  CASE Is("num", a)  -> a.num < b.num
    [] Is("time", a) -> a.time < b.time
    [] Is("flag", a) -> ~a.flag /\ b.flag
    [] Is("text", a) -> LessText(a.text, b.text)

Truth(b) == IF b THEN "T" ELSE "F"

\* Numbers and times in quotes are read as what they are compared with.
Comparable(a, b) == DOMAIN a = DOMAIN b

Like(v, pattern) ==
  CASE v = NullValue   -> "N"
    [] Is("text", v) /\ Is("text", pattern.value) ->
         Truth(\E i \in 0..Len(v.text) : \E j \in i..Len(v.text) :
                 /\ SubSeq(v.text, i + 1, j) = pattern.value.text
                 /\ "start" \in pattern.open \/ i = 0
                 /\ "end" \in pattern.open \/ j = Len(v.text))
    [] Is("text", v)   -> "F"
    [] OTHER           -> "E"

\* "E" if any is, then "N" if any is.
Joint(results, otherwise) ==
  IF "E" \in results THEN "E" ELSE IF "N" \in results THEN "N" ELSE otherwise

RECURSIVE ValueOf(_, _), Holds(_, _)

ValueOf(x, row) ==
  CASE x.e = "col" -> IF x.name \in DOMAIN row THEN row[x.name] ELSE Unknown
    [] x.e = "attr" -> IF AttributesColumn \notin DOMAIN row THEN Unknown
                       ELSE IF x.key \in DOMAIN row[AttributesColumn].map
                            THEN row[AttributesColumn].map[x.key] ELSE Text(<<>>)
    [] x.e = "lit"  -> IF Is("text", x.value) /\ x.quotes = "none" THEN Unknown ELSE x.value
    [] x.e = "fn"   ->
         CASE x.f = "toHour" -> IF Is("time", ValueOf(x.args[1], row))
                                THEN Num((ValueOf(x.args[1], row).time \div 3600000) % 24)
                                ELSE ValueOf(x.args[1], row)
           [] x.f = "fromUnixTimestamp64Milli" -> Time(x.args[1].value.num)
           [] x.f = "fromUnixTimestamp"        -> Time(x.args[1].value.num * 1000)
           [] x.f = "toDateTime" -> Time((x.args[1].value.time \div 1000) * 1000)
           [] x.f = "toDateTime64" -> x.args[1].value
           [] x.f = "map" -> [point |-> [i \in DOMAIN x.args |-> ValueOf(x.args[i], row)]]
           [] OTHER -> Unknown
    [] OTHER -> Unknown

EqualTo(a, b) ==
  CASE a = Unknown \/ b = Unknown     -> "E"
    [] a = NullValue \/ b = NullValue -> "N"
    [] Comparable(a, b)               -> Truth(a = b)
    [] OTHER                          -> "E"

\* A text is compared with whatever is in quotes.
EqualParts(a, y, row) ==
  IF Is("text", a) /\ y.e = "lit" /\ y.quotes # "none" /\ ~Is("text", y.value) THEN "F"
  ELSE EqualTo(a, ValueOf(y, row))

\* Tuples are compared from the left.
RECURSIVE LessTuple(_, _)
LessTuple(a, b) ==
  IF a = <<>> THEN "F"
  ELSE CASE EqualTo(Head(a), Head(b)) = "T" -> LessTuple(Tail(a), Tail(b))
         [] EqualTo(Head(a), Head(b)) = "F" -> IF Comparable(Head(a), Head(b))
                                               THEN Truth(Less(Head(a), Head(b))) ELSE "E"
         [] OTHER -> EqualTo(Head(a), Head(b))

Parts(x, row) == IF x.e = "tuple" THEN [i \in DOMAIN x.exprs |-> ValueOf(x.exprs[i], row)]
                 ELSE <<ValueOf(x, row)>>

Negated(t) == CASE t = "T" -> "F" [] t = "F" -> "T" [] OTHER -> t

Compare(op, x, y, row) ==
  LET a == Parts(x, row)
      b == Parts(y, row)
  IN  CASE op \in {"=", "==", " = "} -> EqualParts(a[1], y, row)
        [] op \in {"IN", " IN "} -> LET hits == {EqualParts(a[1], y.exprs[i], row) : i \in DOMAIN y.exprs}
                        IN  IF "T" \in hits /\ "E" \notin hits THEN "T" ELSE Joint(hits, "F")
        [] op = "<"  -> LessTuple(a, b)
        [] op = ">"  -> LessTuple(b, a)
        [] op = ">=" -> Negated(LessTuple(a, b))
        [] op = "<=" -> Negated(LessTuple(b, a))
        [] op \in {"LIKE", "iLIKE", "ILIKE"} -> IF a[1] = Unknown THEN "E" ELSE Like(a[1], y)
        [] op = "REGEXP" -> CASE a[1] = NullValue -> "N"
                              [] Is("text", a[1]) -> Truth(ToSet(a[1].text) \cap y.value.oneOf # {})
                              [] OTHER -> "E"
        [] op = "IS" -> IF a[1] = Unknown THEN "E" ELSE Truth(a[1] # NullValue)
        [] OTHER -> "E"

Holds(x, row) ==
  CASE x.e = "none" -> "T"
    [] x.e = "not"  -> Negated(Holds(x.arg, row))
    [] x.e = "lit"  -> IF Is("flag", x.value) THEN Truth(x.value.flag) ELSE "E"
    [] x.e = "infix" /\ x.op = "AND" ->
         LET both == {Holds(x.left, row), Holds(x.right, row)}
         IN  IF "F" \in both /\ "E" \notin both THEN "F" ELSE Joint(both, "T")
    [] x.e = "infix" /\ x.op = "OR" ->
         LET both == {Holds(x.left, row), Holds(x.right, row)}
         IN  IF "T" \in both /\ "E" \notin both THEN "T" ELSE Joint(both, "F")
    [] x.e = "infix" -> Compare(x.op, x.left, x.right, row)
    [] x.e = "fn" ->
         LET a == ValueOf(x.args[Len(x.args)], row)
         IN  CASE x.f = "has" /\ Is("list", ValueOf(x.args[1], row)) /\ Is("text", a) ->
                    Truth(a.text \in ToSet(ValueOf(x.args[1], row).list))
               [] x.f = "mapContains" /\ Is("map", ValueOf(x.args[1], row)) /\ Is("text", a) ->
                    Truth(a.text \in {<<k>> : k \in DOMAIN ValueOf(x.args[1], row).map})
               [] x.f = "arrayExists" /\ Is("list", a) ->
                    Truth(\E v \in ToSet(a.list) : Like(Text(v), x.args[1].with) = "T")
               [] x.f = "arrayExistsKey" /\ Is("map", a) ->
                    Truth(\E k \in DOMAIN a.map : Like(Text(<<k>>), x.args[1].with) = "T")
               [] x.f = "arrayExistsValue" /\ Is("map", a) ->
                    Truth(\E k \in DOMAIN a.map : Like(a.map[k], x.args[1].with) = "T")
               [] x.f = "isIPAddressInRange" ->
                    LET ip == ValueOf(x.args[1], row)
                    IN  CASE Is("address", ip) -> Truth(ip.address.net = x.args[2].value.net)
                          [] ip = NullValue    -> "F"
                          [] OTHER             -> "E"
               [] x.f = "startsWith" ->
                    Like(ValueOf(x.args[1], row), LikePrefix(x.args[2].value))
               [] OTHER -> "E"
    [] OTHER -> "E"
=============================================================================
