------------------------------ MODULE MCRouting ------------------------------
(***************************************************************************)
(* Configurations and requests for Routing.                                *)
(***************************************************************************)
EXTENDS Naturals, Sequences, SequencesExt

Target(name)         == [name |-> name, plain |-> TRUE, common |-> "unset", table |-> ""]
With(t, common)      == [t EXCEPT !.plain = FALSE, !.common = common]
Into(t, table)       == [t EXCEPT !.plain = FALSE, !.table = table]
es == Target("es")
ch == Target("ch")

To(targets) == [listed |-> TRUE, target |-> targets, common |-> FALSE, table |-> "",
                overrides |-> "none"]
Omitted     == [To(<<>>) EXCEPT !.listed = FALSE]

\* The settings of one index in one processor; <<>> leaves it out.
Everything == {<<>>, <<es>>, <<ch>>, <<es, ch>>, <<ch, es>>, <<With(ch, "true")>>,
               <<With(ch, "false")>>, <<With(ch, "'true'")>>, <<Into(ch, "t")>>,
               <<es, With(ch, "true")>>}
SomeEntries == {<<>>} \union {<<To(t)>> : t \in Everything}

Entries(all, a) == [i \in {"*"} \union (IF a = <<>> THEN {} ELSE {"a"}) |->
                      IF i = "*" THEN all ELSE a[1]]

Backends == <<[name |-> "es", type |-> "elasticsearch", url |-> TRUE],
              [name |-> "ch", type |-> "clickhouse", url |-> TRUE]>>

Frontend(name, type)  == [name |-> name, type |-> type, port |-> 8080, noAuth |-> FALSE]
Processor(name, type, common, indexes) ==
  [name |-> name, type |-> type, common |-> common, indexes |-> indexes]
Pipeline(name, frontend, processor, backends) ==
  [name |-> name, frontends |-> <<frontend>>, processors |-> <<processor>>, backends |-> backends]

Two(common, query, ingest) ==
  [frontends  |-> <<Frontend("fq", "elasticsearch-fe-query"), Frontend("fi", "elasticsearch-fe-ingest")>>,
   backends   |-> Backends,
   processors |-> <<Processor("pq", "quesma-v1-processor-query", common, query),
                    Processor("pi", "quesma-v1-processor-ingest", common, ingest)>>,
   pipelines  |-> <<Pipeline("q", "fq", "pq", <<"es", "ch">>), Pipeline("i", "fi", "pi", <<"es", "ch">>)>>]

One(common, query) ==
  LET both == Two(common, query, query)
  IN  [both EXCEPT !.frontends = <<@[1]>>, !.processors = <<@[1]>>, !.pipelines = <<@[1]>>]

None == [i \in {} |-> i]
Proxy(f) ==
  [f EXCEPT !.backends = <<@[1]>>,
            !.processors = [k \in DOMAIN @ |-> [@[k] EXCEPT !.type = "quesma-v1-processor-noop", !.indexes = None]],
            !.pipelines = [k \in DOMAIN @ |-> [@[k] EXCEPT !.backends = <<"es">>]]]

\* One index in every way, under fixed wildcards.
ForOneIndex ==
  {Two(common, Entries(To(<<ch>>), q), Entries(To(<<es, ch>>), i)) :
     common \in BOOLEAN, q \in SomeEntries, i \in SomeEntries}

\* The wildcards in every way, beside few settings of an index.
ForWildcards ==
  {Two(common, Entries(all, a), Entries(other, a)) :
     common \in BOOLEAN,
     all \in {Omitted} \union {To(t) : t \in {<<es>>, <<ch>>, <<With(ch, "true")>>, <<ch, es>>}},
     other \in {Omitted} \union {To(t) : t \in {<<>>, <<es>>, <<ch>>, <<es, ch>>, <<es, Into(ch, "t")>>}},
     a \in {<<>>, <<To(<<ch>>)>>, <<To(<<es>>)>>}}

WithoutIngestion ==
  {One(common, Entries(To(all), a)) :
     common \in BOOLEAN, all \in {<<es>>, <<ch>>}, a \in SomeEntries}

Plain == Two(FALSE, Entries(To(<<ch>>), <<To(<<ch>>)>>), Entries(To(<<ch, es>>), <<To(<<es, ch>>)>>))

\* Accepted in an unusual form, or not at all, for one reason each.
Unusual ==
  {Proxy(Plain), Proxy(One(FALSE, None)),
   [Plain EXCEPT !.pipelines = Reverse(@)],
   [Plain EXCEPT !.frontends[2].noAuth = TRUE],
   [Plain EXCEPT !.processors[1].indexes["a"].common = TRUE, !.processors[2].indexes["a"].common = TRUE],
   [Plain EXCEPT !.processors[1].indexes["a"].table = "t", !.processors[2].indexes["a"].table = "t"]}
  \union
  {[Plain EXCEPT !.frontends[1].port = 80], [Plain EXCEPT !.frontends[1].type = "other"],
   [Plain EXCEPT !.frontends = <<>>], [Plain EXCEPT !.frontends = @ \o @],
   [Plain EXCEPT !.frontends[1].port = 0, !.frontends[2].port = 0],
   [Plain EXCEPT !.backends = @ \o @], [Plain EXCEPT !.backends[1].type = "other"],
   [Plain EXCEPT !.backends[2].url = FALSE], [Plain EXCEPT !.backends = <<@[2]>>],
   [Plain EXCEPT !.pipelines = <<>>], [Plain EXCEPT !.pipelines = @ \o @],
   [Plain EXCEPT !.pipelines = <<@[2]>>], [Plain EXCEPT !.pipelines = <<@[1], @[1]>>],
   [Plain EXCEPT !.pipelines[1].name = ""], [Plain EXCEPT !.pipelines[1].frontends = @ \o @],
   [Plain EXCEPT !.pipelines[1].processors = <<"other">>],
   [Plain EXCEPT !.pipelines[1].backends = <<"ch">>], [Plain EXCEPT !.pipelines[1].backends = <<"other">>],
   [Plain EXCEPT !.processors[1].type = "quesma-v1-processor-noop"],
   [Plain EXCEPT !.processors[1].type = "other"], [Plain EXCEPT !.processors[1].common = TRUE],
   [Plain EXCEPT !.processors[1].indexes["a"].table = "t"],
   [Plain EXCEPT !.processors[1].indexes["a"].target = <<Target("other")>>],
   [Plain EXCEPT !.processors[1].indexes["a"].target = <<es, ch, ch>>],
   [Plain EXCEPT !.processors[1].indexes["*"].target = <<With(ch, "true")>>],
   [Plain EXCEPT !.processors[1].indexes["*"].overrides = "valid",
                 !.processors[2].indexes["*"].overrides = "valid"],
   [Plain EXCEPT !.processors[1].indexes["a"].overrides = "invalid",
                 !.processors[2].indexes["a"].overrides = "invalid"],
   Two(FALSE, Entries(To(<<ch>>), <<>>), None),
   [Plain EXCEPT !.processors[1].indexes = [i \in {"*", "a*"} |-> To(<<ch>>)]]}

SomeFiles == ForOneIndex \union ForWildcards \union WithoutIngestion \union Unusual

Asked(method, path, body) == [method |-> method, path |-> path, body |-> body]

\* A search and a document in every form, for an index and one left to the wildcard.
Main ==
  UNION {{Asked("GET", <<i, "_search">>, ""), Asked("POST", <<i, "_async_search">>, ""),
          Asked("POST", <<"_msearch">>, i), Asked("POST", <<i, "_msearch">>, ""),
          Asked("POST", <<i, "_doc">>, ""), Asked("PUT", <<"_bulk">>, i),
          Asked("POST", <<i, "_bulk">>, "")} : i \in {"a", "logs"}}

\* Every route, and some requests that are passed on.
Others ==
  {Asked("GET", path, "") : path \in
     {<<"a">>, <<"_search">>, <<"a", "_count">>, <<"a", "_mapping">>, <<"a", "_field_caps">>,
      <<"a", "_quesma_table_resolver">>, <<"a", "_eql", "search">>, <<"_cluster", "health">>,
      <<"_resolve", "index", "a">>, <<"_async_search", "quesma_1">>, <<"_async_search", "es_1">>,
      <<"_async_search", "status", "quesma_1">>, <<"_cat", "indices">>}}
  \union
  {Asked("POST", path, "") : path \in
     {<<"a", "_refresh">>, <<"a", "_terms_enum">>, <<"a", "_count">>, <<"a", "_update", "1">>}}
  \union
  UNION {{Asked("POST", <<i, "_search">>, ""), Asked("POST", <<i, "_bulk">>, ""),
          Asked("POST", <<"_scripts", "painless", "_execute">>, i)} :
           i \in {"a", "a*", "l*", "b*", "a,logs", ".kibana", "quesma_common"}}

Sampled == Unusual \union {f \in ForWildcards : f.processors[1].common}

RequestsOf == [f \in SomeFiles |-> IF f \in Sampled THEN Main \union Others ELSE Main]

SomePatterns ==
  [p \in {"", "a", "logs", "_search", "_msearch", "_bulk", ".kibana", "quesma_common", "a*", "l*", "b*", "a,logs"} |->
     CASE p = "a*"     -> [names |-> {}, globs |-> {"a"}]
       [] p = "l*"     -> [names |-> {}, globs |-> {"logs"}]
       [] p = "b*"     -> [names |-> {}, globs |-> {}]
       [] p = "a,logs" -> [names |-> {"a", "logs"}, globs |-> {}]
       [] OTHER        -> [names |-> {p}, globs |-> {}]]
=============================================================================
