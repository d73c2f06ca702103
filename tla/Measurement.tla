----------------------------- MODULE Measurement -----------------------------
(***************************************************************************)
(* A feed, the engine it feeds and the cell then measured on it: the       *)
(* engine goes on refreshing, flushing and merging under both.             *)
(***************************************************************************)
EXTENDS TopologyFeed, MeasuredCell

CONSTANTS Args,      \* command lines of the feed
          Sources,   \* how many documents the corpus may hold
          Faults     \* bound: requests that fail in a behaviour

ASSUME MeasurementAssumption ==
    Args \subseteq RestArgs \cup LuxirArgs /\ Sources \subseteq Nat /\ Faults \in Nat

VARIABLES merges,    \* background merges started
          faults     \* requests failed

vars == <<index, feed, cellVars, merges, faults>>

Init ==
    /\ index \in {NoIndex, [NoIndex EXCEPT !.exists = TRUE]}
    /\ FeedInit(Args, Sources) /\ CellInit
    /\ feed.args.topology = cell.args.topology
    /\ merges = 0 /\ faults = 0

FeedNext == FeedStep /\ UNCHANGED <<cellVars, merges, faults>>

FeedFails ==
    /\ faults < Faults /\ RequestFails /\ faults' = faults + 1
    /\ UNCHANGED <<cellVars, merges>>

Timeout == Deadline /\ UNCHANGED <<cellVars, merges, faults>>

\* The cell is measured once the dataset is fed.
Begin ==
    /\ feed.pc = "done" /\ Step("waiting", "validate") /\ Validation
    /\ UNCHANGED <<index, feed, merges, faults>>

CellNext == CellStep /\ UNCHANGED <<index, feed, merges, faults>>

CellFails ==
    /\ faults < Faults /\ CellRaises /\ faults' = faults + 1
    /\ UNCHANGED <<index, feed, merges>>

Serves == cell' = Served(index') /\ UNCHANGED <<feed, conn, asks, outcome, faults>>
MergeStarts == StartMerge(merges) /\ merges' = merges + 1 /\ Serves
MergeEnds == FinishMerge /\ UNCHANGED merges /\ Serves
Background == (IntervalRefresh \/ TranslogFlush) /\ UNCHANGED merges /\ Serves

Stopped ==
    /\ feed.pc = "failed" \/ cell.pc \in {"passed", "flawed", "failed"}
    /\ UNCHANGED vars

Next == FeedNext \/ FeedFails \/ Timeout \/ Begin \/ CellNext \/ CellFails
        \/ MergeStarts \/ MergeEnds \/ Background \/ Stopped

Spec == Init /\ [][Next]_vars
\* The programs go on, every request has a deadline, and a merge ends; that a
\* request fails is never assumed.
FairSpec == Spec /\ WF_vars(FeedNext) /\ WF_vars(Timeout) /\ WF_vars(Begin)
                 /\ WF_vars(CellNext) /\ WF_vars(MergeEnds)

-----------------------------------------------------------------------------
\* A topology feed that ends well has read its corpus to the end and last saw
\* the declared tiers, whole, committed and served; REST's merge policy then
\* leaves them as they are, through every later measurement.
FedAsDeclared ==
    (feed.pc = "done" /\ feed.args.topology) =>
        /\ feed.left = 0 /\ feed.sent = Docs(index.segs)
        /\ Shape(feed.obs.segs) = Tiered(Len(Tiers)) /\ feed.obs.merging = {}
        /\ index.guard => Observed(index) = feed.obs /\ Parses(index)

\* Where a feed may end that no finally block restores: before the PUT was
\* answered (it may have made the index), in the refusal of --flush-every with
\* several --clients, which comes after it, and in the restoring request.
Unguarded == {"delete", "put", "clients", "restore"}

\* Once the index is made and the options are accepted, the feed that ends leaves
\* it refreshing by itself and its translog free to flush, whatever failed but
\* the restoring request.
SettingsRestored ==
    (feed.args.kind = "rest" /\ feed.pc \in Over /\ feed.at \notin Unguarded) =>
        index.refresh /\ ~index.held

\* The cell whose result file has no error was served from one set of segments
\* from the first probe to the second, with no merge running, and from the
\* segments it declares.
CleanCellWasStable ==
    (cell.pc = "passed" /\ cell.args.indexed) =>
        /\ cell.ran = {cell.before} /\ cell.before = cell.after
        /\ cell.before.merging = {}
        /\ cell.args.count # 0 => Cardinality(cell.before.segs) = cell.args.count
        /\ cell.args.topology => Shape(cell.before.segs) = Tiered(Len(Tiers))

\* An accepted answer is the answer to the query it is accepted for, whatever a
\* deadline or a broken socket did to the connection before; and the replay
\* begins only when each query of the file was answered and accepted.
OwnAnswers ==
    /\ \A q \in 1..Queries : outcome[q] # "foreign"
    /\ cell.pc \in {"replay", "after", "after merges", "record", "passed", "flawed"} =>
          \A q \in 1..Queries : outcome[q] = "ok"

\* Every feed ends, and every cell that begins comes to a verdict: each wait has
\* a deadline, and no merge restarts what waited for it.
Ends ==
    /\ <>(feed.pc \in Over)
    /\ [](feed.pc = "done" => <>(cell.pc \in {"passed", "flawed", "failed"}))
=============================================================================
