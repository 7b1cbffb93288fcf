--------------------------- MODULE LuceneParser ---------------------------
(***************************************************************************)
(* Lucene queries (parsers/elastic_query_dsl/lucene).  A query is a sequence  *)
(* of pieces: words, numbers, and the characters that mean something.  A     *)
(* token is a record: [t |-> "field", name], "separator", "term" with a      *)
(* value and the open ends its wildcards leave, "range" with its bounds,     *)
(* "and", "or", "not", "exists", "left" and "right" for the parentheses,     *)
(* and "invalid".                                                            *)
(*                                                                         *)
(* A parsed value is the expression it makes of a field, with a hole for     *)
(* the field, and whether it is an operator that waits for no other.         *)
(***************************************************************************)
EXTENDS QueryExpr, TLC

CONSTANT Numerals \* what the pieces that are numbers spell

Read(value, rest) == [value |-> value, rest |-> rest]

-----------------------------------------------------------------------------
\* The tokens.
Token(kind) == [t |-> kind]
InvalidToken == Token("invalid")

SpecialOperators ==
  <<"AND", " ">> :> "and" @@ <<"OR", " ">> :> "or" @@ <<"NOT", " ">> :> "not" @@ <<"!">> :> "not"
    @@ <<"_exists_", ":">> :> "exists" @@ <<"(">> :> "left" @@ <<")">> :> "right"

RECURSIVE TrimLeft(_)
TrimLeft(query) == IF query # <<>> /\ Head(query) = " " THEN TrimLeft(Tail(query)) ELSE query

From(query, i) == SubSeq(query, i, Len(query))

\* Without ~ or ^ and the number after it; one that is escaped goes as well.
RECURSIVE RemoveSpecialCharacter(_, _)
RemoveSpecialCharacter(query, special) ==
  CASE query = <<>> -> <<>>
    [] IsPrefix(<<"\\", special>>, query) -> RemoveSpecialCharacter(From(query, 3), special)
    [] Head(query) = special ->
         RemoveSpecialCharacter(From(query, IF Len(query) > 1 /\ query[2] \in DOMAIN Numerals
                                            THEN 3 ELSE 2), special)
    [] OTHER -> <<Head(query)>> \o RemoveSpecialCharacter(Tail(query), special)

\* What a term spells: a number, or words, with the ends open where it has
\* wildcards there.
NewTerm(pieces) ==
  LET said == SelectSeq(pieces, LAMBDA p : p \notin {"\"", "\\", " ", Star})
      open == {end \in Both : pieces # <<>>
                 /\ Star = IF end = "start" THEN Head(pieces) ELSE Last(pieces)}
  IN  [t |-> "term", open |-> open,
       value |-> IF Len(pieces) = 1 /\ pieces[1] \in DOMAIN Numerals
                 THEN Num(Numerals[pieces[1]]) ELSE Text(said)]

\* A number and what comes after it, or neither.
ParseNumber(query, acceptable) ==
  LET q == TrimLeft(query)
  IN  IF q # <<>> /\ Head(q) \in DOMAIN Numerals /\ (Len(q) = 1 \/ q[2] \in acceptable)
      THEN Read(Num(Numerals[Head(q)]), Tail(q)) ELSE Read(Text(<<"NaN">>), <<>>)

\* The pieces before the first of some.
Until(query, ends) ==
  LET i == SelectInSeq(query, LAMBDA p : p \in ends)
  IN  IF i = 0 THEN Read(query, <<>>) ELSE Read(SubSeq(query, 1, i - 1), From(query, i))

RangeToken(low, lowIn, high, highIn) ==
  [t |-> "range", low |-> low, lowIn |-> lowIn, high |-> high, highIn |-> highIn]

\* What is compared with comes to its end at a blank, and if it is no number,
\* at the end of the query.
ParseComparison(query) ==
  LET inclusive == query[2] = "="
      read == ParseNumber(From(query, IF inclusive THEN 3 ELSE 2), {" ", ")"})
  IN  Read(IF Head(query) = ">" THEN RangeToken(read.value, inclusive, NullValue, FALSE)
           ELSE RangeToken(NullValue, FALSE, read.value, inclusive), read.rest)

\* A number if it is one, else a text, of which a star is no bound; a bound
\* in quotes is left out.
NumberOrText(number, text) ==
  IF Is("num", number.value) THEN number
  ELSE Read(IF text.value = <<Star>> THEN NullValue ELSE NewTerm(text.value).value, text.rest)

ParseOneBound(query, closing) ==
  LET ends == IF closing THEN {"]", "}"} ELSE {}
  IN  NumberOrText(ParseNumber(query, IF closing THEN ends ELSE {" "}),
                   Until(query, {" ", ":", ")"} \cup ends))

RangeFrom(bracket, low, high) ==
  IF ~IsPrefix(<<" ", "TO", " ">>, low.rest) \/ high.rest = <<>> THEN Read(InvalidToken, <<>>)
  ELSE Read(RangeToken(low.value, bracket = "[", high.value, Head(high.rest) = "]"),
            Tail(high.rest))

UpperBound(bracket, low) == RangeFrom(bracket, low, ParseOneBound(From(low.rest, 4), TRUE))

ParseBounds(query) == UpperBound(Head(query), ParseOneBound(Tail(query), FALSE))

LexTerm(query) ==
  LET quoted == Until(Tail(query), {"\""})
      plain == Until(query, {" ", ":", ")"})
  IN  CASE Head(query) = "\"" /\ quoted.rest = <<>> -> Read(InvalidToken, <<>>)
        [] Head(query) = "\"" -> Read(NewTerm(<<"\"">> \o quoted.value), Tail(quoted.rest))
        [] query \in {<<">">>, <<"<">>} -> Read(InvalidToken, <<>>)
        [] Head(query) \in {">", "<"} -> ParseComparison(query)
        [] Head(query) \in {"[", "{"} -> ParseBounds(query)
        [] OTHER -> Read(NewTerm(plain.value), plain.rest)

\* A term before a colon is a field.
TermOrField(name, term, rest) ==
  CASE rest = <<>> \/ Head(rest) # ":" -> Read(<<term>>, rest)
    [] term.t = "term" -> Read(<<[t |-> "field", name |-> name], Token("separator")>>, Tail(rest))
    [] OTHER -> Read(<<term, Token("separator")>>, Tail(rest))

ReadTerm(name, read) == TermOrField(name, read.value, TrimLeft(read.rest))

NextToken(query) ==
  LET special == {op \in DOMAIN SpecialOperators : IsPrefix(op, query)}
  IN  IF special = {} THEN ReadTerm(Head(query), LexTerm(query))
      ELSE LET op == CHOOSE o \in special : TRUE
           IN  Read(<<Token(SpecialOperators[op])>>, From(query, Len(op) + 1))

\* Only the invalid one, if there is one.
RECURSIVE TokenizeQuery(_, _), AddTokens(_, _)
TokenizeQuery(tokens, query) ==
  IF query = <<>> THEN tokens ELSE AddTokens(tokens, NextToken(query))

AddTokens(tokens, next) ==
  IF InvalidToken \in ToSet(next.value) THEN <<InvalidToken>>
  ELSE TokenizeQuery(tokens \o next.value, TrimLeft(next.rest))

Tokens(query) ==
  TokenizeQuery(<<>>, TrimLeft(RemoveSpecialCharacter(RemoveSpecialCharacter(query, "~"), "^")))

-----------------------------------------------------------------------------
\* The values and the statement.
Hole == Col("?")

Value(expr) == [expr |-> expr, joins |-> FALSE]
Joined(x, op, y) == [expr |-> Infix(x.expr, op, y.expr), joins |-> TRUE]
InvalidValue == Value(FalseExpr)

\* A number is compared, anything else searched for.
NewTermValue(tok) ==
  Value(IF Is("num", tok.value) THEN Infix(Hole, " = ", Lit(tok.value))
        ELSE Infix(Hole, "ILIKE",
               [LikeFull(tok.value) EXCEPT
                  !.open = IF tok.open = {} \/ tok.value.text # <<>> THEN Both ELSE tok.open]))

\* Numbers are bounds in quotes too; Null is no bound.
NewRangeValue(tok) ==
  LET Bound(op, bound) == IF bound = NullValue THEN None ELSE Infix(Hole, op, Quoted(bound))
      both == And(<<Bound(IF tok.lowIn THEN ">=" ELSE ">", tok.low),
                    Bound(IF tok.highIn THEN "<=" ELSE "<", tok.high)>>)
  IN  Value(IF both = None THEN IsNotNull(Hole) ELSE both)

OrLastTwoValues(stack) ==
  LET n == Len(stack)
  IN  Append(SubSeq(stack, 1, n - 2), Joined(stack[n - 1], "OR", stack[n]))

RECURSIVE OrAll(_)
OrAll(stack) == IF Len(stack) = 1 THEN stack[1] ELSE OrAll(OrLastTwoValues(stack))

\* One value, or all of them up to the parenthesis that closes them.  Words
\* that no operator joins are joined by OR.
RECURSIVE BuildValue(_, _, _)
BuildValue(tokens, stack, parenthesisLevel) ==
  IF tokens = <<>> THEN Read(InvalidValue, <<>>)
  ELSE
  LET kind == Head(tokens).t
      rest == Tail(tokens)
      addOrSeparator == kind \notin {"right", "and", "or", "not"} /\ stack # <<>>
                          /\ ~Last(stack).joins
      Push(read) ==
        LET pushed == Append(stack, read.value)
            new == IF addOrSeparator THEN OrLastTwoValues(pushed) ELSE pushed
        IN  IF parenthesisLevel = 0 THEN Read(new[1], read.rest)
            ELSE BuildValue(read.rest, new, parenthesisLevel)
      Join(op, read) ==
        LET new == Append(Front(stack), Joined(Last(stack), op, read.value))
        IN  IF parenthesisLevel = 0 THEN Read(new[1], read.rest)
            ELSE BuildValue(read.rest, new, parenthesisLevel)
      Negate(read) == Push(Read([expr |-> Not(read.value.expr), joins |-> TRUE], read.rest))
  IN  CASE kind = "left"  -> Push(BuildValue(rest, <<>>, 1))
        [] kind = "right" /\ parenthesisLevel > 0 /\ stack # <<>> -> Read(OrAll(stack), rest)
        [] kind = "and" /\ stack # <<>> -> Join("AND", BuildValue(rest, <<>>, 0))
        [] kind = "or" /\ stack # <<>>  -> Join("OR", BuildValue(rest, <<>>, 0))
        [] kind = "not"   -> Negate(BuildValue(rest, <<>>, 0))
        [] kind = "term"  -> Push(Read(NewTermValue(Head(tokens)), rest))
        [] kind = "range" -> Push(Read(NewRangeValue(Head(tokens)), rest))
        [] OTHER          -> Read(InvalidValue, rest)

ToExpression(value, field) == Replace(value.expr, Hole :> Col(field))

NewLeafStatement(fields, value) ==
  IF fields = <<>> THEN FalseExpr
  ELSE Or([i \in DOMAIN fields |-> ToExpression(value, fields[i])])

\* One statement added to the whole one: by the operator before it, or by OR,
\* and by AND where it is a negation.
RECURSIVE BuildStatement(_, _, _, _)
BuildStatement(tokens, whole, addDefaultOperator, in) ==
  IF tokens = <<>> THEN Read(FalseExpr, <<>>)
  ELSE
  LET tok == Head(tokens)
      rest == Tail(tokens)
      Combined(stmt, left) ==
        Read(CASE ~addDefaultOperator \/ whole = None -> stmt
               [] stmt.e = "not" -> Infix(whole, "AND", stmt)
               [] OTHER          -> Infix(whole, "OR", stmt), left)
      Leaf(fields, read) == Combined(NewLeafStatement(fields, read.value), read.rest)
      Join(op, read) == Read(Infix(whole, op, read.value), read.rest)
      Negation(read) == Combined(Not(read.value), read.rest)
      Parenthesis(read) ==
        Read(IF ~addDefaultOperator \/ whole = None THEN read.value
             ELSE Infix(whole, "OR", read.value), read.rest)
      Exists(read) ==
        IF tokens[2].t = "term"
        THEN Combined(IsNotNull(Col(tokens[2].value.text[1])), read.rest)
        ELSE Read(FalseExpr, read.rest)
  IN  CASE tok.t = "field" /\ Len(rest) <= 1 -> Read(FalseExpr, <<>>)
        [] tok.t = "field" /\ rest[1].t # "separator" -> Read(FalseExpr, rest)
        [] tok.t = "field" -> Leaf(<<in.resolve[tok.name]>>, BuildValue(Tail(rest), <<>>, 0))
        [] tok.t = "separator" -> Leaf(in.fields, BuildValue(rest, <<>>, 0))
        [] tok.t = "term"  -> Leaf(in.fields, Read(NewTermValue(tok), rest))
        [] tok.t = "and"   -> Join("AND", BuildStatement(rest, whole, FALSE, in))
        [] tok.t = "or"    -> Join("OR", BuildStatement(rest, whole, FALSE, in))
        [] tok.t = "not"   -> Negation(BuildStatement(rest, whole, FALSE, in))
        [] tok.t = "exists" /\ rest # <<>> -> Exists(BuildValue(rest, <<>>, 0))
        [] tok.t = "left"  -> Parenthesis(BuildStatement(rest, whole, FALSE, in))
        [] tok.t = "right" /\ whole # None -> Read(whole, rest)
        [] OTHER           -> Read(FalseExpr, rest)

RECURSIVE BuildWhereStatement(_, _, _)
BuildWhereStatement(tokens, whole, in) ==
  IF tokens = <<>> THEN IF whole = None THEN TrueExpr ELSE whole
  ELSE LET read == BuildStatement(tokens, whole, TRUE, in)
       IN  BuildWhereStatement(read.rest, read.value, in)

\* The tokens of a query, the fields searched when none is named, and the
\* columns of the fields.
TranslateToSQL(tokens, fields, resolve) ==
  BuildWhereStatement(tokens, None, [fields |-> fields, resolve |-> resolve])
=============================================================================
