------------------------------- MODULE Requests -------------------------------
(***************************************************************************)
(* From a task to the request each engine is sent, and from an answer to   *)
(* the verdict on it: presets.py (resolve, the grids, the identities) and  *)
(* the adapters' build and validate.  A parameter set is a record with the *)
(* keys it has; a field, a query or a filter is a name.  One step of the   *)
(* module puts one case through them.                                      *)
(***************************************************************************)
EXTENDS Integers, Sequences, FiniteSets, Functions, Maps

CONSTANTS Overrides,   \* what --set, a variant or a grid may override
          Buckets      \* bound: buckets of an answer

ASSUME BucketsAssumption == Buckets \in Nat

VARIABLE case

Engines == {"luxir", "rest"}
Nothing == <<>>
Given(condition, record) == IF condition THEN record ELSE Nothing
Get(p, key, default) == IF key \in DOMAIN p THEN p[key] ELSE default
Refused == [refused |-> TRUE]

Presets ==
    [GET_10     |-> [shape |-> "get", batch_size |-> 2, fields |-> {"id", "price_i"}],
     TOP_10     |-> [shape |-> "top_docs", limit |-> 10, fields |-> {"id"}, total_hits |-> FALSE],
     TOP_5_BODY |-> [shape |-> "top_docs", limit |-> 5, fields |-> {"id", "body"},
                     total_hits |-> FALSE],
     COUNT      |-> [shape |-> "top_docs", limit |-> 0, fields |-> {}],
     SORT       |-> [shape |-> "top_docs", limit |-> 10, fields |-> {"id"},
                     sort_field |-> "price_i", sort_dir |-> "asc", total_hits |-> FALSE],
     FACET_1M   |-> [shape |-> "facet", limit |-> 10, fields |-> {"id"},
                     facet_field |-> "cat1m_s", facet_limit |-> 10],
     FACET_METRIC |-> [shape |-> "facet", limit |-> 10, fields |-> {"id"},
                       facet_field |-> "cat1m_s", facet_limit |-> 10, metrics |-> {"price_avg"}],
     FACET_METRIC_SORT |->
                    [shape |-> "facet", limit |-> 10, fields |-> {"id"},
                     facet_field |-> "cat1m_s", facet_limit |-> 10, metrics |-> {"price_avg"},
                     facet_sort |-> "price_avg", facet_sort_dir |-> "desc"],
     FACET_NESTED |-> [shape |-> "nested_facet", limit |-> 10, fields |-> {"id"},
                       facet_field |-> "cat_s", facet_limit |-> 10,
                       subfacet_field |-> "cat100_s", subfacet_limit |-> 10],
     FACET_MULTI |-> [shape |-> "multi", limit |-> 10, fields |-> {"id"},
                      facets |-> {"cat10", "cat1k"}, stats |-> {"price_avg"}],
     FACET_DATE |-> [shape |-> "date_facet", limit |-> 10, fields |-> {"id"},
                     date_field |-> "date_dt", date_gap |-> 30],
     FILTERED   |-> [shape |-> "top_docs", limit |-> 0, fields |-> {}, query_class |-> "and_high_med",
                     filter_mode |-> "boolean", filters |-> <<"sort_90", "price_1mid">>],
     MIX        |-> [shape |-> "mix"]]

Tasks == DOMAIN Presets

\* What the adapters read of a shape; a preset without fields has the empty set of
\* them.  An override may change the shape of a preset: the keys that the preset
\* lacks then come with it, or no request is built.
Needed == [get |-> {"batch_size", "fields"}, top_docs |-> {"limit", "fields"},
           facet |-> {"limit", "fields", "facet_field", "facet_limit"},
           nested_facet |-> {"limit", "fields", "facet_field", "facet_limit",
                             "subfacet_field", "subfacet_limit"},
           date_facet |-> {"limit", "fields", "date_field", "date_gap"},
           multi |-> {"limit", "fields", "facets", "stats"}, mix |-> {}]
ASSUME OverridesAssumption ==
    \A task \in Tasks, over \in Overrides :
        LET set == over ++ Presets[task]
        IN  set.shape \in DOMAIN Needed /\ Needed[set.shape] \subseteq DOMAIN set

CountModes == {"exact", "skip"}
Tiers == {"90", "1"}

-----------------------------------------------------------------------------
\* presets.resolve: overrides win, then the defaults that are always recorded.
Resolve(task, mode, over) ==
    LET set == over ++ Presets[task] ++ [count_mode |-> mode]
        made == set ++ Given(set.shape # "mix", [request_cache |-> FALSE])
                    ++ Given(set.shape = "get", [get_impl |-> "boolean"])
        tier == Get(made, "filter_sel", "none")
        params == Restrict(made, DOMAIN made \ {"filter_sel"})
                    ++ Given(tier # "none", [filter_field |-> tier, filter_value |-> "t"])
    IN  IF \/ set.shape = "mix" /\ DOMAIN over # {}
           \/ tier \notin Tiers \cup {"none"}
           \/ /\ set.shape # "facet"
              /\ Get(set, "metrics", {}) # {} \/ Get(set, "facet_selected", {}) # {}
           \/ /\ "facet_sort" \in DOMAIN set
              /\ \/ set.facet_sort \notin Get(set, "metrics", {})
                 \/ Get(set, "facet_sort_dir", "desc") \notin {"asc", "desc"}
          THEN Refused ELSE params

\* A slip: only the parameters that every engine reads are inert for one.
InertSwapped(engine) == IF engine = "luxir" THEN {"max_parallel"} ELSE {"request_cache"}
Inert(engine) == IF engine = "luxir" THEN {"request_cache"} ELSE {"max_parallel"}

\* comparable_hash: what param_hash is taken of.
Comparable(engine, p) == Restrict(p, DOMAIN p \ Inert(engine))

\* The grids: preset, the column's parameter and the fixed posture.
Grids ==
    [facet          |-> [task |-> "FACET_1M", limit |-> 0, selected |-> FALSE, base |-> "none"],
     facet_metric   |-> [task |-> "FACET_METRIC", limit |-> 0, selected |-> FALSE, base |-> "facet"],
     facet_metric_sort |->
                       [task |-> "FACET_METRIC_SORT", limit |-> 0, selected |-> FALSE, base |-> "facet"],
     facet_selected |-> [task |-> "FACET_1M", limit |-> 0, selected |-> TRUE, base |-> "facet"],
     facet_top10    |-> [task |-> "FACET_1M", limit |-> 10, selected |-> FALSE, base |-> "facet"],
     facet_selected_top10 |->
                       [task |-> "FACET_1M", limit |-> 10, selected |-> TRUE, base |-> "facet_top10"],
     sort10         |-> [task |-> "SORT", limit |-> 10, selected |-> FALSE, base |-> "none"],
     sort10k        |-> [task |-> "SORT", limit |-> 10000, selected |-> FALSE, base |-> "none"]]
Columns == {"catu2m_s", "cat1k_s"}
Rows == Tiers \cup {"100"}

\* designated_values: the report must designate head and tail, and apart.
Designated(report, column) ==
    IF {"head", "tail"} \subseteq DOMAIN report[column]
         /\ report[column]["head"] # report[column]["tail"]
      THEN {report[column]["head"], report[column]["tail"]} ELSE {}

\* A slip: the fixed posture does not reach the members that retrieve.
GridCellPresetLimit(grid, row, column, parallel, report) ==
    LET spec == Grids[grid]
        swept == IF spec.task = "SORT" THEN [sort_field |-> column]
                 ELSE [facet_field |-> column, facet_limit |-> 10]
        over == swept ++ [match_all |-> TRUE, max_parallel |-> parallel,
                          request_cache |-> FALSE, total_hits |-> FALSE]
                  ++ Given(spec.selected, [facet_selected |-> Designated(report, column)])
                  ++ Given(row # "100", [filter_sel |-> row])
    IN  IF spec.selected /\ Designated(report, column) = {} THEN Refused
        ELSE Resolve(spec.task, "exact", over)
\* resolve_grid_cell.
GridCell(grid, row, column, parallel, report) ==
    LET spec == Grids[grid]
        swept == IF spec.task = "SORT" THEN [sort_field |-> column]
                 ELSE [facet_field |-> column, facet_limit |-> 10]
        over == [limit |-> spec.limit] ++ swept
                  ++ [match_all |-> TRUE, max_parallel |-> parallel,
                      request_cache |-> FALSE, total_hits |-> FALSE]
                  ++ Given(spec.selected, [facet_selected |-> Designated(report, column)])
                  ++ Given(row # "100", [filter_sel |-> row])
    IN  IF spec.selected /\ Designated(report, column) = {} THEN Refused
        ELSE Resolve(spec.task, "exact", over)

-----------------------------------------------------------------------------
\* filter_specs, wants_total.
Filters(p) ==
    IF Get(p, "filters", <<>>) # <<>> THEN p.filters
    ELSE IF "filter_field" \in DOMAIN p THEN <<p.filter_field>> ELSE <<>>
WantsTotal(p) == Get(p, "total_hits", TRUE)

\* The query and what narrows it.
Narrowed(engine, p) ==
    LET main == IF Get(p, "match_all", FALSE) THEN "all" ELSE "text"
        mode == Get(p, "filter_mode", "top_docs")
        as(how) == [query |-> [main |-> main, filters |-> Filters(p), as |-> how]]
    IN  IF Filters(p) = <<>> THEN as("plain")
        ELSE IF mode = "query"
          THEN IF main = "all" /\ Len(Filters(p)) = 1 THEN as("query") ELSE Refused
        ELSE IF mode \notin {"top_docs", "boolean"} THEN Refused
        ELSE as(IF engine = "rest" THEN "bool" ELSE mode)

\* The facets and statistics of the shape.
Aggregations(p) ==
    CASE p.shape = "facet" ->
           [ops |-> [field |-> p.facet_field, limit |-> p.facet_limit,
                     metrics |-> Get(p, "metrics", {}),
                     order |-> IF "facet_sort" \in DOMAIN p
                                 THEN <<p.facet_sort, Get(p, "facet_sort_dir", "desc")>>
                                 ELSE <<>>,
                     selected |-> Get(p, "facet_selected", {})]]
      [] p.shape = "nested_facet" ->
           [nested |-> <<p.facet_field, p.facet_limit, p.subfacet_field, p.subfacet_limit>>]
      [] p.shape = "date_facet" -> [dates |-> <<p.date_field, p.date_gap>>]
      [] p.shape = "multi" -> [multi |-> <<p.facets, p.stats>>]
      [] OTHER -> Nothing

\* LuxirAdapter.build and build_get; a max_parallel of 0 is left out.
LuxirRequest(p) ==
    IF p.shape = "get"
      THEN IF p.get_impl # "boolean" THEN Refused
           ELSE [ids |-> p.batch_size, fields |-> p.fields]
    ELSE IF p.shape = "mix" \/ Narrowed("luxir", p) = Refused THEN Refused
    ELSE [limit |-> p.limit] ++ Narrowed("luxir", p)
           ++ Given(p.fields # {}, [fields |-> p.fields])
           ++ Given(WantsTotal(p) /\ p.count_mode = "exact", [count_limit |-> -1])
           ++ Given("sort_field" \in DOMAIN p,
                    [sort |-> <<Get(p, "sort_field", ""), Get(p, "sort_dir", "asc")>>])
           ++ Aggregations(p)
           ++ Given(Get(p, "max_parallel", 0) # 0, [max_parallel |-> Get(p, "max_parallel", 0)])

\* RestAdapter.build and build_get; text comes from _source, a pinned selection
\* is refused.
RestRequest(p) ==
    LET texts == p.fields \cap {"body", "title"}
        cached == [request_cache |-> p.request_cache]
    IN  IF p.shape = "get" THEN [ids |-> p.batch_size, docvalues |-> p.fields] ++ cached
        ELSE IF Narrowed("rest", p) = Refused \/ Get(p, "facet_selected", {}) # {} THEN Refused
        ELSE [size |-> p.limit, source |-> texts, docvalues |-> p.fields \ texts]
               ++ Narrowed("rest", p) ++ cached
               ++ Given(~WantsTotal(p), [track_total_hits |-> FALSE])
               ++ Given(WantsTotal(p) /\ p.count_mode = "exact", [track_total_hits |-> TRUE])
               ++ Given(p.limit # 0 /\ texts = {}, [stored_fields |-> "_none_"])
               ++ Given("sort_field" \in DOMAIN p,
                        [sort |-> <<Get(p, "sort_field", ""), Get(p, "sort_dir", "asc")>>])
               ++ Aggregations(p)

Request(engine, p) ==
    IF p.shape = "mix" THEN Refused
    ELSE IF engine = "luxir" THEN LuxirRequest(p) ELSE RestRequest(p)

-----------------------------------------------------------------------------
\* What an answer holds: a total (-1 when it has none), a list of documents with
\* the fields they have, and a facet's buckets.  A bucket's metric is a number, -1
\* when it is null and -2 when the engine sent none.
Absent == -2
Faceted == {"facet", "nested_facet", "date_facet", "multi"}
Bucket(p) == [val : IF Get(p, "facet_selected", {}) # {} THEN {"head", "tail", "other"}
                    ELSE {"other"},
              metric : IF Get(p, "metrics", {}) # {} THEN {Absent, -1, 1, 2} ELSE {Absent},
              sub : IF p.shape = "nested_facet" THEN BOOLEAN ELSE {FALSE}]
Answers(p) ==
    {a \in [ok : BOOLEAN, total : {-1, 0, 2},
            docs : {<<>>, <<Get(p, "fields", {})>>, <<{}>>},
            facet : BOOLEAN,
            stats : IF p.shape = "multi" THEN BOOLEAN ELSE {FALSE},
            buckets : IF p.shape \in Faceted
                        THEN UNION {[1..n -> Bucket(p)] : n \in 0..Buckets} ELSE {<<>>}] :
        ~a.facet => a.buckets = <<>>}

\* check_bucket_metrics: nothing missing, and neighbours in the order asked for.
MetricsPass(p, buckets) ==
    Get(p, "metrics", {}) = {} \/
        /\ \A i \in DOMAIN buckets : buckets[i].metric # Absent
        /\ "facet_sort" \in DOMAIN p => \A i \in 1..(Len(buckets) - 1) :
              IF Get(p, "facet_sort_dir", "desc") = "desc"
                THEN buckets[i].metric >= buckets[i + 1].metric
                ELSE buckets[i].metric <= buckets[i + 1].metric

\* What both validations ask of documents, facets and statistics.
Payload(p, a) ==
    /\ p.limit # 0 => /\ a.total > 0 => a.docs # <<>>
                      /\ \A i \in DOMAIN a.docs : p.fields \subseteq a.docs[i]
    /\ p.shape \in Faceted =>
          /\ a.facet /\ (a.total > 0 => a.buckets # <<>>)
          /\ p.shape = "nested_facet" => \A i \in DOMAIN a.buckets : a.buckets[i].sub
    /\ p.shape = "multi" => a.stats

\* LuxirAdapter.validate: the answer of an error has no results.
LuxirAccepts(p, a) ==
    /\ a.ok /\ Payload(p, a) /\ MetricsPass(p, a.buckets)
    /\ (WantsTotal(p) /\ p.count_mode = "exact") => a.total # -1
    /\ \A v \in Get(p, "facet_selected", {}) :
          Cardinality({i \in DOMAIN a.buckets : a.buckets[i].val = v}) = 1

\* A slip: the metrics are there, in whatever order.
RestAcceptsUnordered(p, a) ==
    /\ a.ok /\ Payload(p, a)
    /\ Get(p, "metrics", {}) = {} \/ \A i \in DOMAIN a.buckets : a.buckets[i].metric # Absent
\* RestAdapter.validate: no time-out and no failed shard; a missing total passes.
RestAccepts(p, a) == a.ok /\ Payload(p, a) /\ MetricsPass(p, a.buckets)

-----------------------------------------------------------------------------
CaseInit == case = [kind |-> "none"]

\* A request for a task with overrides.
Ask ==
    /\ case.kind = "none"
    /\ \E engine \in Engines, task \in Tasks, mode \in CountModes, over \in Overrides :
          /\ Resolve(task, mode, over) # Refused
          /\ case' = [kind |-> "request", engine |-> engine,
                      params |-> Resolve(task, mode, over)]

\* The same cell of a grid and of the grid it is read against.
Sweep ==
    /\ case.kind = "none"
    /\ \E grid \in DOMAIN Grids, row \in Rows, column \in Columns, parallel \in {0, -1} :
          case' = [kind |-> "cell", grid |-> grid, row |-> row, column |-> column,
                   parallel |-> parallel]

\* An answer to a request.
Answer ==
    /\ case.kind = "none"
    /\ \E task \in Tasks \ {"MIX", "GET_10"}, mode \in CountModes, over \in Overrides :
          LET p == Resolve(task, mode, over)
          IN  /\ p # Refused
              /\ \E a \in Answers(p) : case' = [kind |-> "answer", params |-> p, answer |-> a]

CaseStep == Ask \/ Sweep \/ Answer

-----------------------------------------------------------------------------
\* comparable_hash makes "comparability mean 'same request'": parameter sets
\* that a report puts in one table for an engine are built into one request, or
\* are refused alike, whatever the inert ones are.
SameIdentitySameRequest ==
    case.kind = "request" =>
        \A over \in [request_cache : BOOLEAN, max_parallel : {-1, 0, 1}] :
            LET p == case.params
                q == IF p.shape = "mix" THEN p ELSE over ++ p
            IN  Comparable(case.engine, p) = Comparable(case.engine, q) =>
                    Request(case.engine, p) = Request(case.engine, q)

\* The engines are held alike: an answer with the total it was asked for is
\* accepted of one exactly if it is accepted of the other, unless it is pinned
\* (which REST refuses to ask).  What is accepted carries every metric, and in
\* the order asked for from the first bucket to the last.
HeldAlike ==
    case.kind = "answer" =>
        LET p == case.params
            a == case.answer
        IN  /\ (Request("rest", p) # Refused /\ a.total # -1) =>
                  (LuxirAccepts(p, a) <=> RestAccepts(p, a))
            /\ ((LuxirAccepts(p, a) \/ RestAccepts(p, a)) /\ "facet_sort" \in DOMAIN p) =>
                  \A i, j \in DOMAIN a.buckets : i < j =>
                      IF Get(p, "facet_sort_dir", "desc") = "desc"
                        THEN a.buckets[i].metric >= a.buckets[j].metric
                        ELSE a.buckets[i].metric <= a.buckets[j].metric

\* A payload grid is read against another, cell by cell, as the cost of what it
\* adds: the two requests differ in the facet's payload or in the documents
\* retrieved, and never in both; and the cells of one grid are all apart.
DeltaIsPayload ==
    case.kind = "cell" =>
        LET report == [c \in Columns |-> [head |-> "head", tail |-> "tail"]]
            wire(g, r, c) == GridCell(g, r, c, case.parallel, report)
            made(e, g, r, c) == Request(e, wire(g, r, c))
            base == Grids[case.grid].base
        IN  \A e \in Engines :
              LET x == made(e, case.grid, case.row, case.column)
              IN  x # Refused =>
                    /\ \A r \in Rows, c \in Columns :
                          <<r, c>> # <<case.row, case.column>> =>
                              made(e, case.grid, r, c) # x
                    /\ base # "none" =>
                          LET y == made(e, base, case.row, case.column)
                              apart == {k \in DOMAIN x \cup DOMAIN y :
                                  k \notin DOMAIN x \cap DOMAIN y \/ x[k] # y[k]}
                          IN  \/ /\ apart = {"ops"}
                                 /\ x.ops.field = y.ops.field /\ x.ops.limit = y.ops.limit
                              \/ apart # {} /\ apart \subseteq {"limit", "size", "stored_fields"}
=============================================================================
