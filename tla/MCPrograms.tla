----------------------------- MODULE MCPrograms -----------------------------
(* One behaviour of each program, on small inputs.  Builds, corpora and      *)
(* settings are interchangeable.                                            *)
EXTENDS Programs, TLC

CONSTANTS c1, b1, b2, k1, k2, e1, e2, p0, p8

MCOverrides ==
    {<<>>, [match_all |-> TRUE], [request_cache |-> TRUE], [max_parallel |-> -1],
     [filter_sel |-> "1"], [filter_sel |-> "7"], [filter_sel |-> "1", filter_mode |-> "query"],
     [filter_sel |-> "1", filter_mode |-> "query", match_all |-> TRUE],
     [facet_selected |-> {"head", "tail"}], [total_hits |-> FALSE],
     [metrics |-> {"price_avg"}], [facet_sort_dir |-> "asc"], [get_impl |-> "terms"]}
MCVariants == {{}, {"concurrency"}, {"limit"}, {"heap"}}
MCTools == {"corpus", "snapshot", "vectors", "pins", "selection"}
Symmetry == Permutations({b1, b2}) \cup Permutations({k1, k2})
              \cup Permutations({e1, e2}) \cup Permutations({p0, p8})
=============================================================================
