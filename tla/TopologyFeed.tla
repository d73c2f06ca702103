---------------------------- MODULE TopologyFeed ----------------------------
(***************************************************************************)
(* The main programs of feed_rest.py and feed_luxir.py around the senders  *)
(* that BulkFeed and LuxirFeed model: an index is dropped and made anew,   *)
(* fed whole or in the declared ranges of a topology, each range proved by *)
(* a probe of the serving reader, its settings restored, published, and    *)
(* settled.  Any request may fail; a source may be short or long.          *)
(***************************************************************************)
EXTENDS ServedIndex

VARIABLE feed

\* The command line, within what parser.error lets through.
RestArgs ==
    {a \in [kind : {"rest"}, topology : BOOLEAN, flush : BOOLEAN, many : BOOLEAN,
            reset : BOOLEAN, refresh : BOOLEAN, optimize : BOOLEAN, settle : BOOLEAN] :
        a.topology => ~a.flush /\ a.reset /\ a.refresh /\ ~a.optimize}
LuxirArgs == [kind : {"luxir"}, topology : {TRUE}, flush : {FALSE}, many : {FALSE},
              reset : {FALSE}, refresh : {TRUE}, optimize : {FALSE}, settle : {FALSE}]

FeedInit(Args, Sources) ==
    \E a \in Args, n \in Sources :
       feed = [args |-> a, left |-> n, range |-> 1, sent |-> 0, at |-> "nowhere",
               late |-> FALSE, obs |-> Observed(NoIndex),
               pc |-> IF a.kind = "rest" THEN "delete" ELSE "stream"]

\* The block whose finally restores the settings.
Guarded == {"bulk", "range", "refresh", "flush", "force", "reopen", "prove",
            "merges", "extra"}
Asking == Guarded \cup {"delete", "put", "restore", "publish", "optimize", "count",
                        "final", "final merges", "settle flush", "settle refresh",
                        "settle", "settle merges", "stream"}
Over == {"done", "failed"}

\* An exception, and where it was raised: through the finally block, or out of
\* the program.
Raised(f) ==
    [f EXCEPT !.at = f.pc,
              !.pc = IF f.pc \in Guarded /\ f.args.kind = "rest" THEN "restore"
                     ELSE "failed"]

Goto(to) == feed' = [feed EXCEPT !.pc = to]
Raise == feed' = Raised(feed) /\ UNCHANGED index
\* One request that does "effect" to the index and goes on.
Request(from, effect, to) == feed.pc = from /\ index' = effect /\ Goto(to)

-----------------------------------------------------------------------------
\* DELETE (a 404 is not an error), then PUT with the construction settings; the
\* clients of a flushed feed are counted only after both.
Delete ==
    Request("delete", IF feed.args.reset THEN NoIndex ELSE index, "put")

Created ==
    LET held == feed.args.flush \/ feed.args.topology
    IN  [NoIndex EXCEPT !.exists = TRUE, !.held = held, !.guard = held]

Put ==
    /\ feed.pc = "put" /\ ~index.exists
    /\ index' = Created
    /\ IF feed.args.flush /\ feed.args.many
         THEN feed' = [Raised(feed) EXCEPT !.at = "clients"]
         ELSE Goto(IF feed.args.topology THEN "range" ELSE "bulk")

PutRefused == feed.pc = "put" /\ index.exists /\ Raise

\* send_chunks over the whole corpus; --flush-every commits its pieces.
SendCorpus ==
    /\ feed.pc = "bulk"
    /\ \E i \in Ingested(index, feed.left) :
          index' = IF feed.args.flush THEN Flushed(i) ELSE i
    /\ feed' = [feed EXCEPT !.pc = "restore", !.left = 0, !.sent = feed.left]

\* One declared range; a source that ends inside it is caught here.
SendRange ==
    /\ feed.pc = "range"
    /\ LET n == Min({Tiers[feed.range], feed.left})
           sent == [feed EXCEPT !.left = @ - n, !.sent = @ + n]
       IN  /\ index' \in Ingested(index, n)
           /\ feed' = IF n < Tiers[feed.range] THEN Raised(sent)
                      ELSE [sent EXCEPT !.pc = "refresh"]

RefreshRange == Request("refresh", Refreshed(index), "flush")
FlushRange == Request("flush", Flushed(index), "force")
ForceRange ==
    /\ feed.pc = "force" /\ index.merging = {}
    /\ index' \in ForceMerged(index, feed.range) /\ Goto("reopen")
\* A force merge does not promise to reopen the reader the probe must see.
ReopenRange == Request("reopen", Refreshed(index), "prove")

\* The REST probe asks twice: for the segments, then for the merges.
ProbeSegments(from, to) ==
    /\ feed.pc = from /\ UNCHANGED index
    /\ feed' = IF Parses(index)
                 THEN [feed EXCEPT !.obs = Observed(index), !.pc = to]
                 ELSE Raised(feed)
ActiveMerges == (IF feed.args.kind = "rest" THEN index ELSE feed.obs).merging # {}

\* A slip: the probe's count is compared, not its shape.
RangeCounted ==
    /\ feed.pc = "merges" /\ UNCHANGED index
    /\ LET next == [feed EXCEPT !.range = @ + 1,
                       !.pc = IF feed.range = Len(Tiers) THEN "extra"
                              ELSE IF feed.args.kind = "rest" THEN "range" ELSE "stream"]
       IN  feed' = IF Cardinality(feed.obs.segs) = feed.range THEN next ELSE Raised(feed)
RangeProved ==
    /\ feed.pc = "merges" /\ UNCHANGED index
    /\ LET next == [feed EXCEPT !.range = @ + 1,
                       !.pc = IF feed.range = Len(Tiers) THEN "extra"
                              ELSE IF feed.args.kind = "rest" THEN "range" ELSE "stream"]
       IN  feed' = IF IsTopology(feed.range, feed.obs, ActiveMerges)
                     THEN next ELSE Raised(feed)

\* Any record after the last range.
NothingMore ==
    /\ feed.pc = "extra" /\ UNCHANGED index
    /\ feed' = IF feed.left > 0 THEN Raised(feed)
               ELSE [feed EXCEPT !.pc = IF feed.args.kind = "rest" THEN "restore"
                                        ELSE "count"]

\* A slip: the settings are restored on success only.
RestoreAfterSuccess ==
    /\ feed.pc = "restore"
    /\ index' = IF feed.at # "nowhere" THEN index
                ELSE [index EXCEPT !.refresh = TRUE, !.held = FALSE]
    /\ Goto(IF feed.at # "nowhere" THEN "failed" ELSE "publish")
\* The finally block; segments_per_tier keeps its construction value.
Restore ==
    /\ feed.pc = "restore"
    /\ index' = [index EXCEPT !.refresh = TRUE, !.held = FALSE]
    /\ Goto(IF feed.at # "nowhere" THEN "failed" ELSE "publish")

Publish ==
    Request("publish", IF feed.args.refresh THEN Refreshed(index) ELSE index, "optimize")

Optimize ==
    /\ feed.pc = "optimize"
    /\ IF feed.args.optimize
         THEN /\ index.merging = {}
              /\ \E i \in ForceMerged(index, 1) :
                    index' = IF feed.args.refresh THEN Refreshed(i) ELSE i
         ELSE UNCHANGED index
    /\ Goto(IF feed.args.topology THEN "final" ELSE "count")

FinalProved ==
    /\ feed.pc = "final merges" /\ UNCHANGED index
    /\ feed' = IF IsTopology(Len(Tiers), feed.obs, ActiveMerges)
                 THEN [feed EXCEPT !.pc = "count"] ELSE Raised(feed)

Count ==
    Request("count", index,
            IF feed.args.settle /\ feed.args.refresh /\ ~feed.args.topology
              THEN "settle flush" ELSE "done")

-----------------------------------------------------------------------------
\* settle(): flush, refresh and probe until no merge is active.
SettleFlush == Request("settle flush", Flushed(index), "settle refresh")
SettleRefresh == Request("settle refresh", Refreshed(index), "settle")

\* A slip: the loop waits on what it probed first, and asks no clock.
SettleForever ==
    /\ feed.pc = "settle merges" /\ UNCHANGED index
    /\ feed' = IF Quiescent(feed.obs, ActiveMerges, 0) THEN [feed EXCEPT !.pc = "done"]
               ELSE feed
\* Only a merge that is still active is waited for; the deadline ends the wait.
SettleMerges ==
    /\ feed.pc = "settle merges" /\ UNCHANGED index
    /\ feed' = IF Quiescent(feed.obs, ActiveMerges, 0) THEN [feed EXCEPT !.pc = "done"]
               ELSE IF feed.late THEN Raised(feed)
               ELSE [feed EXCEPT !.pc = "settle flush"]

Deadline == feed.pc \in {"settle flush", "settle refresh", "settle", "settle merges"}
            /\ ~feed.late /\ feed' = [feed EXCEPT !.late = TRUE] /\ UNCHANGED index

-----------------------------------------------------------------------------
\* feed_luxir.py: each range is one stream that ends in a commit of at most
\* "range" segments, waiting for merges; a short source breaks the stream.
StreamRange ==
    /\ feed.pc = "stream" /\ index.merging = {}
    /\ LET n == Min({Tiers[feed.range], feed.left})
           sent == [feed EXCEPT !.left = @ - n, !.sent = @ + n]
           base == IF index.exists THEN index
                   ELSE [NoIndex EXCEPT !.exists = TRUE]
       IN  \E i \in Ingested(base, n) :
              IF n < Tiers[feed.range]
                THEN index' = i /\ feed' = Raised(sent)
                ELSE /\ \E m \in ForceMerged(i, feed.range) : index' = Refreshed(m)
                     /\ feed' = [sent EXCEPT !.pc = "prove"]

-----------------------------------------------------------------------------
\* A request fails: one that was sending may have indexed part of its documents,
\* one whose answer is lost may have dropped or made the index.
RequestFails ==
    /\ feed.pc \in Asking
    /\ index' \in CASE feed.pc \in {"bulk", "range"} ->
                         UNION {Ingested(index, n) : n \in 0..feed.left}
                    [] feed.pc = "delete" -> {index, NoIndex}
                    [] feed.pc = "put" -> {index} \cup IF index.exists THEN {} ELSE {Created}
                    [] OTHER -> {index}
    /\ feed' = Raised(feed)

FeedStep ==
    \/ Delete \/ Put \/ PutRefused \/ SendCorpus \/ SendRange \/ RefreshRange \/ FlushRange
    \/ ForceRange \/ ReopenRange
    \/ ProbeSegments("prove", "merges") \/ RangeProved \/ NothingMore
    \/ Restore \/ Publish \/ Optimize
    \/ ProbeSegments("final", "final merges") \/ FinalProved \/ Count
    \/ SettleFlush \/ SettleRefresh \/ ProbeSegments("settle", "settle merges")
    \/ SettleMerges \/ StreamRange
=============================================================================
