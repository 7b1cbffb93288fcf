------------------------------ MODULE Painless ------------------------------
(***************************************************************************)
(* Scripts of runtime fields: the grammar and the packrat parser that        *)
(* pigeon has made of it, with its seeds for left recursion, and the         *)
(* interpreter (painful/generated_parser.go, painful/model.go).              *)
(*                                                                         *)
(* A script is a sequence of lexemes, the characters that a literal or a     *)
(* class of the grammar reads as one.  A text made of several values is the  *)
(* sequence of its pieces.                                                   *)
(***************************************************************************)
EXTENDS QueryExpr

Marks == {"(", ")", "[", "]", ".", "+", "'", ",", ";", " ", "&", "@timestamp", "host.name",
          "URLEncoder.encode"}

-----------------------------------------------------------------------------
\* Grammar expressions.
Lexeme(val)       == [is |-> "lit", val |-> val]
NoneOf(chars)     == [is |-> "class", chars |-> chars, inverted |-> TRUE]
OneOf(chars)      == [is |-> "class", chars |-> chars, inverted |-> FALSE]
Ref(name)         == [is |-> "ref", name |-> name]
Label(label, e)   == [is |-> "label", label |-> label, expr |-> e]
Series(exprs)     == [is |-> "seq", exprs |-> exprs]
Alternatives(alts) == [is |-> "choice", alts |-> alts]
ZeroOrMore(e)     == [is |-> "star", expr |-> e]
OneOrMore(e)      == [is |-> "plus", expr |-> e]
ZeroOrOne(e)      == [is |-> "opt", expr |-> e]
Run(action, e)    == [is |-> "action", run |-> action, expr |-> e]

\* Expr leads the rules that begin with themselves.
Leader == "Expr"

\* A mutant of ExprRule: a property is found where a method is called.
ExprRuleAccessorFirst ==
  Alternatives([i \in 1..7 |-> Label("expr", Ref(<<"OpExpr", "Accessor", "MethodCall", "Doc", "Emit",
                                                   "String", "UrlEncoder">>[i]))])

ExprRule ==
  Alternatives([i \in 1..7 |-> Label("expr", Ref(<<"OpExpr", "MethodCall", "Accessor", "Doc", "Emit",
                                                   "String", "UrlEncoder">>[i]))])

EmitRule ==
  Run("Emit", Series(<<Lexeme("emit"), Lexeme("("), Ref("_"), Label("expr", Ref("Expr")),
                       Ref("_"), Lexeme(")")>>))

DocRule ==
  Run("Doc", Series(<<Lexeme("doc"), Lexeme("["), Label("key", Ref("Expr")), Lexeme("]")>>))

AccessorRule ==
  Run("Accessor", Series(<<Label("expr", Ref("Expr")), Lexeme("."), Label("field", Ref("Identifier"))>>))

MethodCallRule ==
  Run("MethodCall", Series(<<Label("expr", Ref("Expr")), Lexeme("."),
                             Label("method", Ref("Identifier")), Lexeme("("),
                             Label("args", ZeroOrMore(Ref("Expr"))), ZeroOrOne(Lexeme(",")),
                             Lexeme(")")>>))

OpExprRule ==
  Run("OpExpr", Series(<<Label("left", Ref("Expr")), Ref("_"), Label("op", Ref("Op")), Ref("_"),
                         Label("right", Ref("Expr"))>>))

OpRule == Run("Text", Label("op", Lexeme("+")))

StringRule ==
  Run("String", Series(<<Lexeme("'"), Label("s", ZeroOrMore(NoneOf({"'"}))), Lexeme("'")>>))

IdentifierRule == Run("Text", Label("id", OneOrMore(NoneOf(Marks))))

UrlEncoderRule ==
  Run("UrlEncoder", Series(<<Lexeme("URLEncoder.encode"), Lexeme("("), Label("expr", Ref("Expr")),
                             Lexeme(")")>>))

WhitespaceRule == ZeroOrMore(OneOf({" "}))

Rule(name) ==
  CASE name = "Expr"       -> ExprRule
    [] name = "Emit"       -> EmitRule
    [] name = "Doc"        -> DocRule
    [] name = "Accessor"   -> AccessorRule
    [] name = "MethodCall" -> MethodCallRule
    [] name = "OpExpr"     -> OpExprRule
    [] name = "Op"         -> OpRule
    [] name = "String"     -> StringRule
    [] name = "Identifier" -> IdentifierRule
    [] name = "UrlEncoder" -> UrlEncoderRule
    [] name = "_"          -> WhitespaceRule

\* What the actions build.  The arguments of a method are appended to
\* themselves.
OnEmit(labels)       == [x |-> "emit", expr |-> labels.expr]
OnDoc(labels)        == [x |-> "doc", key |-> labels.key]
OnAccessor(labels)   == [x |-> "accessor", expr |-> labels.expr, property |-> labels.field]
OnMethodCall(labels) == [x |-> "method", expr |-> labels.expr, method |-> labels.method,
                         args |-> labels.args \o labels.args]
OnOpExpr(labels)     == [x |-> "infix", left |-> labels.left, op |-> labels.op, right |-> labels.right]
OnString(read)       == [x |-> "literal", value |-> Text(SubSeq(read, 2, Len(read) - 1))]
OnUrlEncoder(labels) == [x |-> "encode", expr |-> labels.expr]

Act(action, labels, read) ==
  CASE action = "Emit"       -> OnEmit(labels)
    [] action = "Doc"        -> OnDoc(labels)
    [] action = "Accessor"   -> OnAccessor(labels)
    [] action = "MethodCall" -> OnMethodCall(labels)
    [] action = "OpExpr"     -> OnOpExpr(labels)
    [] action = "String"     -> OnString(read)
    [] action = "UrlEncoder" -> OnUrlEncoder(labels)
    [] action = "Text"       -> Head(read)

-----------------------------------------------------------------------------
\* The parser.  A match says where it ends, its value and what it labels in
\* the frame around it; each rule, alternative and repetition has its own.
Mismatch == [ok |-> FALSE]
Matched(end, value, labels) == [ok |-> TRUE, end |-> end, value |-> value, labels |-> labels]
Framed(match) == IF match.ok THEN [match EXCEPT !.labels = <<>>] ELSE match

MatchLit(text, e, i) ==
  IF i <= Len(text) /\ text[i] = e.val THEN Matched(i + 1, <<e.val>>, <<>>) ELSE Mismatch

MatchClass(text, e, i) ==
  IF i <= Len(text) /\ (text[i] \in e.chars) # e.inverted
  THEN Matched(i + 1, <<text[i]>>, <<>>) ELSE Mismatch

RECURSIVE Match(_, _, _, _), MatchSeries(_, _, _, _), MatchChoice(_, _, _, _),
          MatchMany(_, _, _, _), Grow(_, _, _)

\* In order; the first that does not match makes the whole one fail.
MatchSeries(text, exprs, i, seed) ==
  IF exprs = <<>> THEN Matched(i, <<>>, <<>>)
  ELSE LET first == Match(text, Head(exprs), i, seed)
           rest == MatchSeries(text, Tail(exprs), first.end, seed)
       IN  IF ~first.ok THEN Mismatch
           ELSE IF ~rest.ok THEN Mismatch
           ELSE Matched(rest.end, <<first.value>> \o rest.value, first.labels @@ rest.labels)

\* The first alternative that matches, even if another would read more.
MatchChoice(text, alts, i, seed) ==
  IF alts = <<>> THEN Mismatch
  ELSE LET first == Framed(Match(text, Head(alts), i, seed))
       IN  IF first.ok THEN first ELSE MatchChoice(text, Tail(alts), i, seed)

MatchMany(text, e, i, seed) ==
  LET first == Match(text, e, i, seed)
      rest == MatchMany(text, e, first.end, seed)
  IN  IF first.ok THEN Matched(rest.end, <<first.value>> \o rest.value, <<>>)
      ELSE Matched(i, <<>>, <<>>)

MatchLabel(text, e, i, seed) ==
  LET match == Framed(Match(text, e.expr, i, seed))
  IN  IF match.ok THEN [match EXCEPT !.labels = e.label :> match.value] ELSE Mismatch

MatchAction(text, e, i, seed) ==
  LET match == Match(text, e.expr, i, seed)
  IN  IF match.ok
      THEN [match EXCEPT !.value = Act(e.run, match.labels, SubSeq(text, i, match.end - 1))]
      ELSE Mismatch

\* Where the leader is being read, it is what has been read so far; anywhere
\* else it is read anew.
MatchRef(text, name, i, seed) ==
  CASE name # Leader -> Framed(Match(text, Rule(name), i, seed))
    [] seed.at = i   -> seed.match
    [] OTHER         -> Grow(text, i, Mismatch)

\* Until it reads no more than before.
Grow(text, i, last) ==
  LET next == Framed(Match(text, Rule(Leader), i, [at |-> i, match |-> last]))
  IN  IF ~next.ok THEN last
      ELSE IF last.ok /\ next.end <= (IF last.ok THEN last.end ELSE 0) THEN last
      ELSE Grow(text, i, next)

Match(text, e, i, seed) ==
  CASE e.is = "lit"    -> MatchLit(text, e, i)
    [] e.is = "class"  -> MatchClass(text, e, i)
    [] e.is = "ref"    -> MatchRef(text, e.name, i, seed)
    [] e.is = "label"  -> MatchLabel(text, e, i, seed)
    [] e.is = "seq"    -> MatchSeries(text, e.exprs, i, seed)
    [] e.is = "choice" -> MatchChoice(text, e.alts, i, seed)
    [] e.is = "star"   -> MatchMany(text, e.expr, i, seed)
    [] e.is = "plus"   -> LET many == MatchMany(text, e.expr, i, seed)
                          IN  IF many.value = <<>> THEN Mismatch ELSE many
    [] e.is = "opt"    -> LET one == Framed(Match(text, e.expr, i, seed))
                          IN  IF one.ok THEN one ELSE Matched(i, <<>>, <<>>)
    [] e.is = "action" -> MatchAction(text, e, i, seed)

\* What follows the first expression is not read.
ParsePainless(text) ==
  LET match == MatchRef(text, Leader, 1, [at |-> 0, match |-> Mismatch])
  IN  IF match.ok THEN match.value ELSE Mismatch

-----------------------------------------------------------------------------
\* The interpreter: a value and what was emitted, or nothing after an error.
Wrong == [ok |-> FALSE]
Valued(value, emitted) == [ok |-> TRUE, value |-> value, emitted |-> emitted]

PiecesOf(v) == IF Is("pieces", v) THEN v.pieces ELSE <<v>>
Concat(l, r) == [pieces |-> PiecesOf(l) \o PiecesOf(r)]

ExpectString(v) == DOMAIN v \cap {"text", "pieces", "encoded", "iso"} # {}

\* Of the forms of a text only the one with a zone is a date.
NoDate == -1
ExpectDate(v) ==
  CASE Is("time", v) -> v.time
    [] Is("iso", v)  -> IF v.zone THEN v.iso * 1000 ELSE NoDate
    [] OTHER         -> NoDate

CallMethod(method, v) ==
  LET ms == ExpectDate(v)
  IN  CASE ms = NoDate -> Wrong
        [] method = "getHour" -> Valued(Num((ms \div 3600000) % 24), NullValue)
        [] method = "formatISO8601" -> Valued([iso |-> ms \div 1000, zone |-> TRUE], NullValue)
        [] method = "formatISO8601NoTimezone" ->
             Valued([iso |-> ms \div 1000, zone |-> FALSE], NullValue)
        [] OTHER -> Wrong

KeyOf(v) == IF Is("text", v) THEN v.text[1] ELSE "?"

RECURSIVE Eval(_, _, _)
Eval(x, doc, emitted) ==
  LET inner == Eval(x.expr, doc, emitted)
      left == Eval(x.left, doc, emitted)
      right == Eval(x.right, doc, left.emitted)
      key == Eval(x.key, doc, emitted)
      called == CallMethod(x.method, inner.value)
  IN  CASE x.x = "literal" -> Valued(x.value, emitted)
        [] x.x = "infix" ->
             IF ~left.ok THEN Wrong ELSE IF ~right.ok THEN Wrong
             ELSE Valued(Concat(left.value, right.value), right.emitted)
        [] x.x = "doc" ->
             IF ~key.ok THEN Wrong
             ELSE Valued(IF KeyOf(key.value) \in DOMAIN doc THEN doc[KeyOf(key.value)] ELSE NullValue,
                         key.emitted)
        [] ~inner.ok -> Wrong
        [] x.x = "emit" -> Valued(inner.value, inner.value)
        [] x.x = "accessor" ->
             CASE x.property = "value" -> inner
               [] x.property = "type"  -> Valued([typeOf |-> DOMAIN inner.value], inner.emitted)
               [] OTHER -> Wrong
        [] x.x = "method" -> IF called.ok THEN Valued(called.value, inner.emitted) ELSE Wrong
        [] x.x = "encode" ->
             IF ExpectString(inner.value) THEN Valued([encoded |-> inner.value], inner.emitted)
             ELSE Wrong

-----------------------------------------------------------------------------
\* One script is known to the database; for the others it makes a column
\* without values, which are computed from each row of the result.
HourScript == <<"emit", "(", "doc", "[", "'", "timestamp", "'", "]", ".", "value", ".", "getHour",
                "(", ")", ")", ";">>

NoScript == [x |-> "none"]

ParseScript(text) ==
  IF text = HourScript
  THEN [db |-> Fn("__quesma_date_hour", <<Col("@timestamp")>>), post |-> NoScript]
  ELSE [db |-> NullExpr, post |-> ParsePainless(text)]

\* A mapping without a script is none.
ParseRuntimeMappings(mappings) ==
  [f \in {g \in DOMAIN mappings : "script" \in DOMAIN mappings[g]} |-> ParseScript(mappings[f].script)]

CanParseMappings(mappings) ==
  \A f \in DOMAIN ParseRuntimeMappings(mappings) : ParseRuntimeMappings(mappings)[f].post # Mismatch

\* Every script sees the row as the database gave it.
EvalScripts(runtime, row) ==
  [f \in {g \in DOMAIN runtime \cap DOMAIN row : runtime[g].post # NoScript} |->
     Eval(runtime[f].post, row, NullValue)]
=============================================================================
