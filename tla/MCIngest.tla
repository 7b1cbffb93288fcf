------------------------------ MODULE MCIngest ------------------------------
(***************************************************************************)
(* Ingestion for TLC: the tables documents are written to, the choice of   *)
(* the fields that become columns, and what becomes of a document.         *)
(* IngestTables makes that choice any choice, and takes names and types as *)
(* given, so that the three need not be interleaved: a behaviour observes  *)
(* one of them, and the others rest.                                       *)
(***************************************************************************)
EXTENDS IngestTables, ColumnPromotion, TLC

CONSTANTS i1, i2, f, g, Int64, String,
          Focuses   \* what is observed

VARIABLES focus, situation, history, batch, tries, columns, definitions, listed,
          encodings, rows, told

-----------------------------------------------------------------------------
(* The documents and the tables IngestContent is checked with.             *)

Word  == [is |-> "text", word |-> "word"]
Date  == [is |-> "text", word |-> "date"]
Quote == [is |-> "text", word |-> "quotation"]
Yes   == [is |-> "truth"]
Nil   == [is |-> "null"]
Num(size, negative, whole) ==
  [is |-> "number", size |-> size, negative |-> negative, whole |-> whole]
One   == Num(1, FALSE, TRUE)
Minus == Num(1, TRUE, TRUE)
Half  == Num(1, FALSE, FALSE)
Hundreds == Num(16, FALSE, TRUE)   \* in a UInt8, not in an Int8
Edge  == Num(127, FALSE, TRUE)     \* 2^63
Huge  == Num(200, FALSE, TRUE)
L(elems)  == [is |-> "list", elems |-> elems]
O(fields) == [is |-> "object", fields |-> fields]

a  == <<"a">>
b  == <<"b">>
ab == <<"a", ".", "b">>

\* What a field may be, and what two fields with one name may be.
Single ==
  {a :> v : v \in {Word, Date, Quote, Yes, Nil, One, Minus, Half, Hundreds, Edge, Huge,
                   L(<<>>), L(<<One, One>>), L(<<Date>>), L(<<One, Word>>),
                   L(<<L(<<One>>)>>),
                   L(<<O(b :> One), O(<<"x">> :> Word)>>), L(<<O(b :> One), One>>),
                   O(b :> Word), O(b :> L(<<O(b :> One)>>)),
                   O(b :> L(<<O(<<"b", " ", "x">> :> One)>>)),
                   O(b :> L(<<O(<<"b", ".", "x">> :> One)>>))}}

Several ==
  {(ab :> One) @@ (<<"a", "-", "b">> :> Word),
   (<<"A">> :> One) @@ (a :> Word),
   (ab :> Word) @@ (a :> O(b :> One)),
   (<<"1", "x">> :> One) @@ (<<"@timestamp">> :> Date),
   (a :> Word) @@ (b :> One) @@ (<<"l", "o", "c">> :> O((<<"l", "a", "t">> :> Word)
                                                     @@ (<<"l", "o", "n">> :> Word)))}

\* One batch of one or two documents, or two batches.
MCHistories ==
  {<<(<<d>>)>> : d \in Single \union Several}
    \union {<<(<<d, e>>)>> : d, e \in Single}
    \union {<<(<<d>>), (<<e>>)>> : d, e \in Single}

-----------------------------------------------------------------------------
Col(name, nullable) == [type |-> [of |-> "base", name |-> name], nullable |-> nullable]
Nothing == [n \in {} |-> 0]
OurOwn == (<<"@timestamp">> :> Col("DateTime64", FALSE)) @@ (<<"attributes">> :> Col("Map", FALSE))
Common == OurOwn @@ (<<"__quesma_index_name">> :> Col("LowCardinality(String)", FALSE))

Situation(layout, existing, shown, overrides, ignored) ==
  [layout |-> layout, columns |-> existing, listed |-> shown,
   overrides |-> overrides, ignored |-> ignored]

MCSituations ==
  {Situation("own", Nothing, {}, o, {}) :
     o \in {Nothing, a :> "keyword", a :> "long", a :> "unsigned_long",
            (<<"l", "o", "c">> :> "point")}}
    \union {Situation("own", Nothing, {}, Nothing, {ab})}
    \union {Situation("own", OurOwn @@ (a :> Col(t, FALSE)), {}, Nothing, {}) :
              t \in {"Int8", "UInt8", "LowCardinality(String)", "DateTime", "UUID", "Float64"}}
    \union {Situation("own", a :> Col(t, TRUE), {}, Nothing, {}) : t \in {"String", "Int64"}}
    \union {Situation("common", Common, {}, Nothing, {}),
            Situation("common", Common @@ (a :> Col("String", TRUE)), {}, Nothing, {}),
            Situation("common", Common @@ (a :> Col("Int64", TRUE)),
                      {a, <<"@timestamp">>}, Nothing, {})}

-----------------------------------------------------------------------------
Content == INSTANCE IngestContent WITH
  Situations <- MCSituations, Histories <- MCHistories,
  turn <- batch, db <- columns, known <- definitions

contentVars   == <<situation, history, batch, tries, columns, definitions, listed,
                   encodings, rows, told>>
ingestVars    == <<focus, vars, promotionVars, contentVars>>

\* One client: a new field in the second batch, whose documents disagree on
\* its type, and a value that does not fit the first field.
OneClient ==
  i1 :> << << (f :> Int64) >>,
           << (f :> String) @@ (g :> Int64), (g :> String) >>,
           << (g :> Int64) >> >>

\* Two clients, each with a new field.
TwoClients ==
  (i1 :> << << (f :> Int64) >> >>)
  @@ (i2 :> << << (f :> Int64) @@ (g :> Int64) >> >>)

NoFields   == {}
FirstField == {1}
LastField  == {NumFields}

IngestInit ==
  /\ focus \in Focuses
  /\ Init /\ PromotionInit
  /\ focus # "promotion" => cols = {}
  /\ focus # "tables" => db = NoColumns
  /\ IF focus = "content" THEN Content!Init
     ELSE /\ situation = "none" /\ history = <<>> /\ batch = 0 /\ tries = 0
          /\ columns = {} /\ definitions = {} /\ listed = {} /\ encodings = {}
          /\ rows = <<>> /\ told = "nothing"

Tables(A)   == focus = "tables" /\ A /\ UNCHANGED <<focus, promotionVars, contentVars>>
Promotes(A) == focus = "promotion" /\ A /\ UNCHANGED <<focus, vars, contentVars>>

IngestNext ==
  \/ Tables(Next)
  \/ Promotes(PromotionNext)
  \/ focus = "content" /\ Content!Next /\ UNCHANGED <<focus, vars, promotionVars>>

IngestSpec == IngestInit /\ [][IngestNext]_ingestVars

\* The fairness of both (Fairness, PromotionFairSpec).
IngestFairSpec ==
  /\ IngestSpec
  /\ \A i \in Ingesters : WF_ingestVars(Tables(Ingest(i)))
  /\ \A r \in Reloaders : WF_ingestVars(Tables(ReadTables(r) \/ Populate(r)))
  /\ WF_ingestVars(Promotes(PromotionNext))

-----------------------------------------------------------------------------
\* IngestContent: what a document becomes.
DocumentsAreKept == focus = "content" => Content!DocumentsAreKept

\* IngestTables: every request is acknowledged, unless its client gives up.
EveryIngestAnswered == focus = "tables" => EveryRequestAnswered

\* ColumnPromotion: what is always there becomes a column.
PresentBecomesColumn == focus = "promotion" => PresentIsPromoted
=============================================================================
