----------------------------- MODULE LuxirFeed -----------------------------
(***************************************************************************)
(* python/feed_luxir.py: feed_streams cuts the corpus at byte positions,   *)
(* streams each range over a connection of its own as blocks that end with *)
(* a record (range_blocks), and commits once after all have drained.  A    *)
(* corpus is its size in bytes and the positions at which a record ends:   *)
(* a newline is the byte before each of them.                              *)
(***************************************************************************)
EXTENDS Integers

CONSTANTS
  Jobs,         \* what feed_streams may be asked to feed
  Block         \* block_bytes

ASSUME JobsAssumption ==
  /\ Block \in Nat \ {0}
  /\ \A j \in Jobs :
       /\ j.size \in Nat /\ j.streams \in Nat \ {0} /\ j.commit \in BOOLEAN
       /\ j.ends \subseteq 1 .. j.size

VARIABLES
  job,          \* the corpus, --streams and --commit
  pc,           \* per stream: start, stream, drained, or failed
  first, pos,   \* per stream: where its first record begins; how far it has read
  remaining,    \* per stream: of range_blocks
  accepted,     \* per stream: how far the engine has taken it
  bad,          \* per stream: an answer reports an error
  published,    \* has a commit published what was accepted?
  main          \* the main thread: join, commit, check, fed, raised

vars == <<job, pc, first, pos, remaining, accepted, bad, published, main>>

Stream == 0 .. job.streams - 1

\* bounds[i].
Bound(i) == (job.size * i) \div job.streams

\* Where a readline that starts at p stops.
LineEnd(p) ==
  IF \E e \in job.ends : e > p
  THEN CHOOSE e \in job.ends : e > p /\ \A f \in job.ends : f > p => e <= f
  ELSE job.size

RecordEnd(p) == p = 0 \/ p \in job.ends \/ p = job.size

Minimum(a, b) == IF a < b THEN a ELSE b

Init ==
  /\ job \in Jobs
  /\ pc = [i \in Stream |-> "start"]
  /\ first = [i \in Stream |-> 0] /\ pos = [i \in Stream |-> 0]
  /\ remaining = [i \in Stream |-> 0] /\ accepted = [i \in Stream |-> 0]
  /\ bad = [i \in Stream |-> FALSE]
  /\ published = FALSE /\ main = "join"

-----------------------------------------------------------------------------
(* worker(i): stream_request over stream_records.                          *)

\* range_blocks begins: the previous range owns a record cut by the boundary.
Seek(i) == IF Bound(i) = 0 \/ Bound(i) \in job.ends THEN Bound(i) ELSE LineEnd(Bound(i))

Open(i) ==
  /\ pc[i] = "start"
  /\ pc' = [pc EXCEPT ![i] = "stream"]
  /\ first' = [first EXCEPT ![i] = Seek(i)] /\ pos' = [pos EXCEPT ![i] = Seek(i)]
  /\ remaining' = [remaining EXCEPT ![i] = Bound(i + 1) - Seek(i)]
  /\ UNCHANGED <<job, accepted, bad, published, main>>

\* A slip: the record the last block cuts is left to the next range.
YieldShort(i) ==
  /\ pc[i] = "stream" /\ remaining[i] > 0
  /\ LET cut == pos[i] + Minimum(Block, remaining[i])
         to == IF RecordEnd(cut) \/ cut = Bound(i + 1) THEN cut ELSE LineEnd(cut)
     IN /\ pos' = [pos EXCEPT ![i] = to]
        /\ remaining' = [remaining EXCEPT ![i] = @ - (to - pos[i])]
  /\ UNCHANGED <<job, pc, first, accepted, bad, published, main>>

\* A block, and the rest of the record it cuts.
Yield(i) ==
  /\ pc[i] = "stream" /\ remaining[i] > 0
  /\ LET cut == pos[i] + Minimum(Block, remaining[i])
         to == IF cut \in job.ends THEN cut ELSE LineEnd(cut)
     IN /\ pos' = [pos EXCEPT ![i] = to]
        /\ remaining' = [remaining EXCEPT ![i] = @ - (to - pos[i])]
  /\ UNCHANGED <<job, pc, first, accepted, bad, published, main>>

\* A slip: an answer is taken for an "ok".
DrainUnread(i) ==
  /\ pc[i] = "stream" /\ remaining[i] <= 0
  /\ pc' = [pc EXCEPT ![i] = "drained"]
  /\ \E p \in first[i] .. pos[i] : accepted' = [accepted EXCEPT ![i] = p]
  /\ UNCHANGED <<job, first, pos, remaining, bad, published, main>>

\* The stream's end line has been sent and the engine answers: all of it was
\* taken, or an answer line reports an error and part of it was.
Drain(i) ==
  /\ pc[i] = "stream" /\ remaining[i] <= 0
  /\ pc' = [pc EXCEPT ![i] = "drained"]
  /\ \/ accepted' = [accepted EXCEPT ![i] = pos[i]] /\ UNCHANGED bad
     \/ /\ \E p \in first[i] .. pos[i] : accepted' = [accepted EXCEPT ![i] = p]
        /\ bad' = [bad EXCEPT ![i] = TRUE]
  /\ UNCHANGED <<job, first, pos, remaining, published, main>>

\* The connection fails or the answer is an HTTP error, at any point.
Break(i) ==
  /\ pc[i] \in {"start", "stream"}
  /\ pc' = [pc EXCEPT ![i] = "failed"]
  /\ \E p \in first[i] .. pos[i] : accepted' = [accepted EXCEPT ![i] = p]
  /\ UNCHANGED <<job, first, pos, remaining, bad, published, main>>

-----------------------------------------------------------------------------
(* feed_streams after the threads, and main.                               *)

Ended(i) == pc[i] \in {"drained", "failed"}

\* A slip: the commit follows the first stream to drain.
JoinFirst ==
  /\ main = "join" /\ \E i \in Stream : pc[i] = "drained"
  /\ main' = "commit"
  /\ UNCHANGED <<job, pc, first, pos, remaining, accepted, bad, published>>

\* All threads are joined; a failure is raised before the commit.
Join ==
  /\ main = "join" /\ \A i \in Stream : Ended(i)
  /\ main' = IF \E i \in Stream : pc[i] = "failed" THEN "raised"
             ELSE IF job.commit THEN "commit" ELSE "check"
  /\ UNCHANGED <<job, pc, first, pos, remaining, accepted, bad, published>>

\* One commit publishes what the streams brought; it may fail either way.
Commit ==
  /\ main = "commit"
  /\ \/ published' = TRUE /\ main' = "check"
     \/ published' \in BOOLEAN /\ main' = "raised"
  /\ UNCHANGED <<job, pc, first, pos, remaining, accepted, bad>>

\* main looks for errors in the answers, then asks for the count.
Check ==
  /\ main = "check"
  /\ main' \in IF \E i \in Stream : bad[i] THEN {"raised"} ELSE {"fed", "raised"}
  /\ UNCHANGED <<job, pc, first, pos, remaining, accepted, bad, published>>

Done == main \in {"fed", "raised"} /\ UNCHANGED vars

Worker(i) == Open(i) \/ Yield(i) \/ Drain(i) \/ Break(i)

Next == Join \/ Commit \/ Check \/ Done \/ \E i \in Stream : Worker(i)

Spec == Init /\ [][Next]_vars

-----------------------------------------------------------------------------
(* Properties.                                                             *)

\* Positions, and the phases of streams and of the main thread.
TypeOK ==
  /\ job \in Jobs
  /\ pc \in [Stream -> {"start", "stream", "drained", "failed"}]
  /\ first \in [Stream -> 0 .. job.size] /\ pos \in [Stream -> 0 .. job.size]
  /\ remaining \in [Stream -> Int] /\ accepted \in [Stream -> 0 .. job.size]
  /\ bad \in [Stream -> BOOLEAN] /\ published \in BOOLEAN
  /\ main \in {"join", "commit", "check", "fed", "raised"}

\* What a stream sends begins and ends with whole records, at any moment, so
\* the engine's framing sees the records of the corpus and no others.
RecordAligned == \A i \in Stream : RecordEnd(first[i]) /\ RecordEnd(pos[i])

\* A drained range ends where the next one begins, the first begins the
\* corpus and the last one ends it, for every number of streams: the ranges
\* partition the corpus exactly (range_blocks, lines 46-50), also where a
\* record is longer than a range or than a block.
RangesMeet ==
  \A i \in Stream : pc[i] = "drained" =>
    /\ i = 0 => first[i] = 0
    /\ i = job.streams - 1 => pos[i] = job.size
    /\ i + 1 \in Stream /\ pc[i + 1] \in {"stream", "drained"} => pos[i] = first[i + 1]

\* No two streams ever send the same record, also while others have failed.
StreamsApart ==
  \A i, j \in Stream : i < j /\ pos[i] > first[i] /\ pos[j] > first[j] => pos[i] <= first[j]

\* No record is left out between two ranges and none is in two of them.
RangesPartition == RangesMeet /\ StreamsApart

\* Nothing is published before every stream has drained, and never after one
\* that failed (feed_streams 168-184, docs/full-text-benchmark.md 236).
PublishedAfterDrain == published => \A i \in Stream : pc[i] = "drained"

\* A feed reported as a success was taken whole, and published unless the
\* commit was declined.
FedIsWhole ==
  main = "fed" =>
    /\ first[0] = 0 /\ \A i \in Stream : accepted[i] = pos[i]
    /\ \A i \in Stream : pos[i] = IF i + 1 \in Stream THEN first[i + 1] ELSE job.size
    /\ job.commit => published
=============================================================================
