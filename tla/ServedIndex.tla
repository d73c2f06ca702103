----------------------------- MODULE ServedIndex -----------------------------
(***************************************************************************)
(* The index a feed builds and a measurement probes.  The engine is not in *)
(* the repository: it is modelled from what the feeds ask of it and what   *)
(* the adapters read of it.  A segment is the interval <<first, last>> of  *)
(* the documents it holds; the writer's segments, the last commit and the  *)
(* reader that serves queries agree only after a flush and a refresh.      *)
(***************************************************************************)
EXTENDS Integers, Sequences, FiniteSets, FiniteSetsExt

CONSTANTS Tiers,   \* segment_docs of the declared topology
          Merges   \* bound: background merges of a behaviour

ASSUME TiersAssumption ==
    Tiers \in Seq(Nat \ {0}) /\ Tiers # <<>> /\ Merges \in Nat

VARIABLE index

\* refresh: the interval refresh runs; held: the translog does not flush by
\* itself; guard: the merge policy leaves this many segments alone.
NoIndex == [exists |-> FALSE, segs |-> {}, reader |-> {}, committed |-> {},
            merging |-> {}, refresh |-> FALSE, held |-> TRUE, guard |-> FALSE]

Size(s) == s[2] - s[1] + 1
\* No document is in two segments: their number is the sum of the segments'.
Docs(S) == Cardinality(UNION {s[1]..s[2] : s \in S})

\* The documents of the first k ranges, and how many segments have n of them.
Declared(k) == MapThenSumSet(LAMBDA j : Tiers[j], 1..k)
Shape(S) == [n \in 1..Declared(Len(Tiers)) |-> Cardinality({s \in S : Size(s) = n})]
Tiered(k) == [n \in 1..Declared(Len(Tiers)) |-> Cardinality({j \in 1..k : Tiers[j] = n})]

-----------------------------------------------------------------------------
\* What the requests do.  New documents arrive in one segment or in two.
Ingested(i, n) ==
    LET d == Docs(i.segs)
        pieces == {{<<d + 1, d + n>>}} \cup
                  {{<<d + 1, d + c>>, <<d + c + 1, d + n>>} : c \in 1..(n - 1)}
    IN  IF n = 0 THEN {i} ELSE {[i EXCEPT !.segs = @ \cup new] : new \in pieces}

Refreshed(i) == [i EXCEPT !.reader = i.segs]
Flushed(i) == [i EXCEPT !.committed = i.segs]

\* _forcemerge?max_num_segments=n&flush=true: neighbours are merged, which ones
\* is the engine's choice.
ForceMerged(i, n) ==
    LET last(K, k) == Max({s[2] : s \in {s \in i.segs :
                             \A j \in K : j[1] > k[1] => s[1] < j[1]}})
        groups == {K \in SUBSET i.segs : /\ Cardinality(K) = n
                                         /\ \E k \in K : k[1] = 1}
        merged == IF Cardinality(i.segs) <= n THEN {i.segs}
                  ELSE {{<<k[1], last(K, k)>> : k \in K} : K \in groups}
    IN  {[i EXCEPT !.segs = S, !.committed = S] : S \in merged}

\* parse_topology: every segment the engine lists is committed and searchable.
Parses(i) == i.segs = i.committed /\ i.segs = i.reader
\* What one answer shows: the segments, and those that say they are merging.
Observed(i) == [segs |-> i.segs, merging |-> i.merging]

\* assert_quiescent_topology: the count asked for, and no active merge.
Quiescent(obs, active, count) ==
    /\ count # 0 => Cardinality(obs.segs) = count
    /\ ~active /\ obs.merging = {}

\* assert_topology: the complete declared shape, not merely its count.
IsTopology(k, obs, active) ==
    /\ Docs(obs.segs) = Declared(k) /\ Shape(obs.segs) = Tiered(k)
    /\ ~active /\ obs.merging = {}

-----------------------------------------------------------------------------
\* What the engine does by itself.
StartMerge(merges) ==
    /\ index.exists /\ ~index.guard /\ index.merging = {} /\ merges < Merges
    /\ \E a, b \in index.segs :
          /\ b[1] = a[2] + 1
          /\ index' = [index EXCEPT !.merging = {a, b}]

FinishMerge ==
    /\ index.merging # {}
    /\ LET first == Min({s[1] : s \in index.merging})
           last == Max({s[2] : s \in index.merging})
       IN  index' = [index EXCEPT !.merging = {},
                       !.segs = (@ \ index.merging) \cup {<<first, last>>}]

IntervalRefresh ==
    index.refresh /\ index.reader # index.segs /\ index' = Refreshed(index)

TranslogFlush ==
    /\ index.exists /\ ~index.held /\ index.committed # index.segs
    /\ index' = Flushed(index)
=============================================================================
