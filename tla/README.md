# searchbench: a verification development

TLA+ models of searchbench, a benchmark that feeds a corpus into search engines
(OpenSearch, Elasticsearch, Luxir), replays recorded query workloads against
them and compares latencies and throughput. What a benchmark promises is that
its numbers mean what they say: every request of a measured phase is counted
once, no answer is credited to another request, a phase neither ends early nor
hangs, a report is complete or there is none, the index that is measured holds
the corpus and has the segments it is said to have, what a table shows was
measured with the request the table is about, on the engine and corpus of now,
and a campaign leaves nothing running. These are the properties stated here,
model-checked with TLC and, for the ones that matter most, proved with TLAPS.

Contents: 1 inventory, 2 how the parts interact, 3 modules and the code,
4 runs and bounds, 5 fairness, 6 what is proved, 7 disagreements found,
8 what is only model-checked, 9 what is not modelled, 10 plan.

## 1. Inventory

| component | state it keeps | operations | what is hard | what makes it correct |
|---|---|---|---|---|
| **replay event loops** `driver/bench_replay.cpp` (`EventLoop`, `Connection`, `Phase`) | per connection: state, record, cursor, deadline, socket; per loop: `active_`, successes, errors, error samples; shared: `Phase::started` | `run`, `begin_or_idle`, `has_next`, `assign_and_start`, `begin_write`, `open_connection`, `handle_event`, `handle_write/read/connect`, `handle_timeout`, `finish_current`, `fail` | functions that call each other after a failure; event flags that outlive their socket; threads that race for one tally; timeouts against late answers; connections kept across phases | each started request ends in one credit or charge; answers match requests; cap, floor, deadline and order end a phase when they should; it ends |
| **replay coordinator** same file, `run()` | `Phase`, `worker_errors`, barrier and latch, the aggregate, the output file | pin, latch, two barriers per phase, `check_workers`, `merge_stats`, `stop_workers`, writing the report | plain memory shared by threads, ordered by the barrier alone; a worker that throws | no data race, complete reports, no deadlock |
| **REST ingest** `python/feed_rest.py` | generator of `_bulk` bodies, shared tallies and first error, per-client connection; index settings | `send_chunks`, `bulk_chunks_from_stream`, `feed_topology`, `settle`, `main` | several clients on one generator; requests failing after part was indexed; flush boundaries; settings to restore; merges that start by themselves | a feed that returns is whole and counted; a declared topology is there; settings come back |
| **Luxir ingest** `python/feed_luxir.py` | per stream: file position, remaining bytes; the answers | `range_blocks`, `feed_streams`, commit, `feed_topology` | byte bounds within records, on newlines, on each other; one stream of several failing; commit order | ranges partition the corpus by records; one commit, after all have drained |
| **topology checks** `python/topologies.py`, `topology_probe.py`, `verify_topology.py` | segments and merges of an index | `index_topology`, `assert_topology`, `assert_quiescent_topology` | writer, commit and reader differ; an answer is of one moment | what is reported is what is served |
| **driver front end** `python/driver.py`, `async_http.py`, `adapters.py`, `presets.py` | asyncio queue and workers, persistent connections, probes, the verdict; a task's parameters | `run_fixed`, `async_main`, `build` and `validate` of two adapters, `resolve`, `resolve_grid_cell` | a connection reused after a failed request; an index that changes under the replay; parameters that one engine ignores | one outcome per query, its own; a clean cell was stable; same identity, same request |
| **grid legs, results and contexts** `python/grid.py`, `results_io.py`, `controls.py` | result files, content-addressed contexts, the generation before, the health control | `archive_results`, `run_engine`, `write_context`, `load_result`, `record_health_control`, `load_results`, `render_tables` | a kill between any two steps; files of other settings, builds and corpora | what exit 0 means; what a table shows |
| **query board** `python/report.py`, `failure_result.py`, `variants.py` | a directory of results | corpus, topology, drift, startup and agreement lines | one kind of difference per function | a board without a warning is one experiment |
| **dataset lifecycle** `scripts/engine-common.sh`, `start-*.sh`, `stop-*.sh` | data directory and identity per dataset, server processes, PID file | `ensure_dataset`, `archive_engine_data`, `record/verify_identity`, `ensure_running`, `wait_ready`, `stop_pidfile`, start and stop | commands killed between two files; servers left running, crashed, or given up on; postures of ingest and measurement | what is reused is whole; what is measured is what was asked for |
| **process isolation** `python/network_namespace.py`, `scripts/run-isolated.sh` | the namespace's processes, PID files, signal handlers | `supervise`, `cleanup`, `namespace_processes`, `signal_processes` | pids freed and reused; forks during a listing of /proc; signals during the cleanup; processes that ignore signals | no host process signalled; nobody left; it ends |
| **corpus and engine preparation** `scripts/prepare-corpus.sh`, `python/corpus_transform.py`, `corpus_cache.py`, `install_snapshot.py` | archives, corpus, report, checksums, installations and links | fetch, verify, transform, rename; resolve, download, unpack, link; `designate_values` | a kill between two renames; files believed by presence and age; ranks among values that may not occur | what passes its reader's test is what the reader takes it for |
| **vector benchmark** `python/vector_benchmark.py`, `vector_datasets.py`, `pin_vector_sources.py` | a directory per corpus with a marker, the server, the results; prepared corpora, pins | feed or reuse, merge, layout, recall, replay, publish; prepare; pin | a server or marker left by a kill; another client on the index | recall and throughput are of one, whole index |
| **query tooling** `python/select_queries.py`, `query_source.py`, ... | the admitted queries and their manifest | `select`, replace the files | results of several engines and lanes; two files | quoted queries are the agreed ones |
| **grid scripts** `scripts/grid.sh`, `quick.sh`, `run-baseline.sh`, ... | the order of commands | stop, ensure, start, verify, measure, per engine and cell | traps, partial failure | as dataset lifecycle |
| **sampling and capture** `python/sampler.py`, `request_capture.py`, `cpu_layout.py`, `installs.py`, `schema.py` | none kept | read /proc, statistics, installation trees | pure input and output | - |

`PROJECT.json` lists each with its status, and the hazards at their lines.

## 2. How the parts interact

A campaign (`run-baseline.sh`, `grid.sh`, `quick.sh`), possibly under
`run-isolated.sh`, **calls** `engine-common.sh`, which **starts and stops**
engine servers through scripts that leave PID files, and **feeds** them through
`feed_rest.py` or `feed_luxir.py`. `grid.py` runs one leg per engine: it moves
the results of before out of the way and **runs** `driver.py` once per cell.
The driver **validates** the queries against the running server, **probes** its
segments, **spawns** `bench_replay` and probes again; the main thread and the
workers of `bench_replay` **share memory** under a barrier, and it writes one
JSON file. The driver's result **names** a context file by the hash of its
content. `grid.py` and `report.py` later **select** among whatever files a
directory holds. `prepare-corpus.sh`, `install_snapshot.py` and
`vector_datasets.py` made what all of them read, and are believed by what they
left.

The contracts between the models follow these calls:

- *ReplayPhases* shows that `run()` makes lock-step rounds of the phases
  (`PhasesImplementLockStep`). *ReplayLoop*, which begins and ends a phase for all
  workers at once, implements the same `LockStep` (`LoopsRunInLockStep`). So the two
  are halves of one program that meet in one promise, and both are proved to keep it.
- *BulkFeed* and *LuxirFeed* show that a feed that returns is whole and that one
  which fails raises. *Datasets* and *TopologyFeed* use exactly this: a feed
  either sends the whole source (or the whole range) or fails, having left a part.
- *Measurement* composes: the feed's main program (*TopologyFeed*), the index it
  leaves (*ServedIndex*) and the cell measured on it (*MeasuredCell*). The engine
  goes on refreshing, flushing and merging under both.
- *MeasuredCell*'s replay is one step that ends in a report or an exception, which
  is what *ReplayPhases* shows of it (`ReportIsComplete`, `RunExits`). A report that
  was cut short without notice does not parse, and is an exception too.
- *Campaign* treats a driver as what *MeasuredCell* makes of it: a result with
  errors of either kind, or none. Its `Asked` is what *Requests* shows of the
  adapters (`SameIdentitySameRequest`, proved).
- *Isolation* treats the campaign as any set of processes; it assumes nothing of
  the commands that *Datasets* models.

## 3. Modules and the code

`PROJECT.json` maps the definitions to their lines. A definition under the comment
"A slip" is a plausible bug, used to show that a property can fail.

### ReplayLoop (with ClosedLoop, ReplayRefinement, ReplayLoopProofs)

The event loops. One step of the model is the handling of one event of one
connection, with everything the code does before it returns to `epoll_wait`,
except where other threads can see the middle: `has_next` loads `Phase::started`
(`Check`) and `assign_and_start` increments it (`Claim`), and these are two
steps. `finish_current -> assign_and_start -> begin_write -> open_connection ->
finish_current ...` is a chain of nested calls in the code; here it is the loop
through `check` and `claim`, which ends as the code's ends. What is left of
`handle_event` after `handle_write` (the test of `EPOLLERR|EPOLLHUP` against
`connection.record != record`) is a step `resume` with the frame `seen` of its
local variables, because the chain may have run in between.

- `active` is the `size_t active_` with its width (`WordSize`): run()'s first loop
  takes it below zero before `++active_` is reached, and it must come out right.
- `sock`, `wire` and `inbox` are the kernel's: what the peer did to the socket,
  which requests were written and which answers wait. Answers carry the request's
  cursor, so that crediting one to the wrong request can be said.
- The records are positions of `order_`; with one position the pointer comparison
  cannot tell two requests apart, which is a run of its own.
- Bodies, parsing, payload checks and histograms are an outcome: an answer is good
  or bad. `Throw` is any exception of a worker (`epoll_wait`, the histogram's
  maximum, an allocation).

`ClosedLoop` is the abstract promise: clients with one request each, rounds,
credits and charges. `ReplayRefinement` maps the loops onto it: a connection with a
record is a busy client, a round is a measured phase, and the books are the sums of the
workers' tallies. TLC checks the mapping as a property of `loop_threads`
and `ReplayLoopProofs` proves it. A second mapping, onto `LockStep`, has the workers'
phases for its parties' rounds. `EachQueryOnce` says what the books leave open, namely
which requests they count: a repetition without `--duration` that no cap cuts short
starts `OrderSize` requests, each ends in one credit or charge, and every position of
the order was passed by the cursor of the one connection whose stride meets it.

### ReplayPhases (with LockStep, PhasesRefinement, ReplayPhasesProofs)

`run()` as threads that meet at a latch and at one `std::barrier` of
`threads + 1`. Every step touches shared memory at most once, so a data race is
two enabled steps on one field, one of them a write: `RaceFree` lists the pairs
(`PhaseRaceFree` for the phase, `ResultsRaceFree` for errors and tallies). A barrier is a set of the parties that arrived
and the parity of its openings. The output file is modelled with the stream's
buffer: opening truncates it, `<<` may fail and is noticed, the destructor's
flush may fail and is not. The buffer may hold the whole report until then, so a
program that exits with 0 or 1 leaves a report that is whole, cut short or empty;
`ReportIsComplete` says that no failed or unfinished run ends so, and that nothing
of an earlier run is left.

`LockStep` states what the barrier is for, in one page; `PhasesRefinement` holds
the refinement mapping.

### Isolation (with IsolationProofs)

`supervise()` and `cleanup()`, with the kernel they run on: pids name nothing, a
host process, a member of the namespace, a member that was killed, or a zombie,
and a pid that is free may be given out again at any time (`birth` counts, and
with the pid identifies a process). A listing of /proc is a snapshot whose
entries are looked at one by one later; `pidfd_open` pins a birth; the namespace
check and the signal are steps of their own, so a pid may change hands between
any two. The command may end, fork, ignore SIGTERM and survive SIGKILL;
`left.late` remembers that something forked during the cleanup, because what is
promised of such a campaign is less. One engine's PID file stands for all; the lock file, `unshare` and the options run
before and are left out.

### BulkFeed (with MCBulkFeed, BulkFeedProofs)

`send_chunks`: clients take a body from the generator under the lock, send it
outside, and add it to the tallies under the lock. A request may fail after any
part of it was indexed. The generator raises when the source ends before the limit
or a record has no id. `args` are the arguments of the call, which clients run
among them; a single client is the caller's own thread and may flush.

### LuxirFeed (with MCLuxirFeed, LuxirFeedProofs)

`range_blocks` and `feed_streams`: a corpus is its size and the positions where
records end; streams begin at the first record at or after their byte bound and
read blocks, giving back the tail of a block that cuts a record, until the range
is used up. The engine accepts or rejects; main commits when all futures are
done, then looks at the answers.

### Datasets (with DatasetsProofs)

One command at a time: its remaining steps are a sequence (`todo`), built as the
script builds them, and servers and files persist between commands. `fork`,
`write` and `ready` are the start script's lines, since a kill can come between
them. Servers come up, die, exit on SIGTERM, and keep a directory open that is
moved away (`lost`); one that a start gave up on may outlive its SIGTERM
(`left.lingering` counts those). `Undisturbed` says that no command was killed
and no server lingered: the condition of the properties that need it. Luxir's start script is the one modelled; the JVM engines let
the server write its PID file and wait for it. run-baseline's loop over postures is
one session here. Two datasets stand for two that neither a document count nor a
collection name tells apart, as the numeric postures of one corpus are.

### ServedIndex, TopologyFeed, MeasuredCell, Measurement (with MCMeasurement, MeasurementProofs)

`ServedIndex` is the engine as far as the code sees it: the writer's segments, the
last commit and the reader, each a set of intervals of document numbers; ingest,
refresh, flush, force merge; and what the engine does by itself (interval refresh,
translog flush, a merge of two neighbours). `Parses`, `Quiescent` and `IsTopology`
are `parse_topology` and the two assertions.

`TopologyFeed` has one action per request of the feeders' main programs: DELETE and
PUT, the corpus or the declared ranges, each refreshed, flushed, merged, reopened
and proved by two requests of a probe, the settings in the `finally` block, publish,
optimize, the final probe and `settle`. Any request may fail, a sending one after
any part of its documents. `feed.at` remembers where an exception was raised, so
that a property can say what is promised after which. A DELETE or PUT whose answer is
lost may have been carried out: the index is then gone, or made with its construction
settings (`Created`), and the feed fails before the `try` block that restores them. `Unguarded` names the four places that `SettingsRestored` exempts:
DELETE, PUT, the refusal of `--flush-every` with several clients after it, and the
restoring request.

`MeasuredCell` is `run_fixed` (a queue, workers, one connection each; `conn[w]` is
what was sent on the open socket and is unread, so that an answer has the query it
belongs to), the two probes and the verdict of `async_main`. `cell.ran` collects
every set of segments that served while the replay ran: it is what the two probes
are to vouch for.

### Campaign (with MCCampaign)

One action per step of a leg that a kill can fall between: the archiving of one
file, the driver's context and result (each opened, then written), what the leg
checks of them, the control. The world changes between legs: engines are rebuilt,
the corpus and its report are made again, not at once. Parameters are split in the
ones each engine turns into the request and `max_parallel`, which REST never reads.
`Shown`, `ShownBefore` and `ValidControl` are `load_results`, the previous
generation and `control_mismatches`, evaluated in every state: a report may be
rendered at any time, in the middle of a leg too. `Gated` has the reader's hard gates
as they work: the corpus for every engine, the build for the REST engines only,
because no build of Luxir is ever selected and none is recorded in its results
(`installs.py:62-63`), so that the comparison is of nothing with nothing.

### Requests

`presets.py` as records: the presets, `resolve`, `comparable_hash` and
`resolve_grid_cell`; the two adapters as functions from parameters to requests and
from answers to verdicts. A request is made for every preset with every override
of the instance and for every cell of every grid. Presets and overrides are merged
with `++` of `Maps`, the left map filled up with the keys it lacks (TLC's `@@` is
nothing the provers know).
`Needed` names the keys that an adapter reads without a default, and
`OverridesAssumption` asks that an override which changes the shape of a preset bring
them along: without them the code raises a KeyError before there is any request.

### Board

`report.py` of one directory: the values that a board's cells record, and each
function that looks for differences. The property is that a board free of INVALID,
WARNING and mismatch lines is a controlled experiment, in the code's own sense of
declared.

### Preparation, CorpusTransform

Five programs that make files others believe: a file is what it was made of and
its time; a program may be killed between two steps and run again after an edit.
`BelievedIsWhole` has one clause per reader, stated of the reader's test.
The source of a pin may be replaced at any time while it is pinned: between the looks
at its time, the hash, the stamp, `verify_file`'s own hash and stamp, and the manifest's
`.part` and its rename, each a step. Replaced between the last look and the writing of
a stamp, it is believed although the stamp is of the file before. A stamp's `looked`
is no part of the file: it is the time of that last look, and the clause about stamps
leaves out files replaced after it.
Files are named by tuples (`<<"home", build>>`), so that two names differ by their
first part. `CorpusTransform` is the stream of documents, the counts and the values
that a report designates for the grids to pin. Its `sort_i` is the code's
multiplication and addition modulo a power of two; `SortKeyAssumption` says what makes
the keys of a corpus distinct, that the multiplier has an inverse and that there are no
more lines than keys. TLC evaluates it for the instance; the code's constants, an odd
multiplier and 2^32, satisfy it for every corpus of up to 2^32 lines.

### VectorCampaign

A campaign of `vector_benchmark.py`: feed or reuse, wait for one segment, record the
layout, then per cell recall, replay and result. `data[k].version` counts what the
index has been, `Intrude` is another client, and a kill leaves the server.

### Programs (with MCPrograms, ProgramsProofs)

The programs that run by themselves, side by side: each behaviour is of one of
them. It lets one run check them all, and changes nothing in any. The proofs about
Campaign, VectorCampaign, Board, Requests, Preparation and CorpusTransform are all in
`ProgramsProofs`; those of the campaigns are of their own specifications, the others
of `Programs`.

## 4. Runs and bounds

Eight runs pass; four exhibit a disagreement (section 7). States are distinct
states of the complete search.

| run | states | instance | what it shows |
|---|---|---|---|
| `loop_threads` | 634,623 | 2 threads, a warmup capped at 1, then a phase capped at 2 over the same sockets, `active_` of width 8 | `ActiveMatches`, `PhaseComplete`, `StaleEventsSpareFresh`, `AnswerMatchesRequest`, `CapOvershootBounded`, `RunEnds`, refinement of ClosedLoop |
| `phases` | 8,272 | 3 workers, a warmup, 2 repetitions | `RaceFree`, `ReportIsComplete`, `RunExits`, refinement of LockStep |
| `isolation` | 958,712 | 3 pids, a fork of the campaign, one of the host, one signal | `NobodyLeft`, `RemainSurvivedKill`, `HostNeverSignalled`, `CleanupEnds` |
| `bulk` | 196,269 | 3 clients on sources of 0 to 5 documents; 1 client, chunks of 1 to 4, a flush every 0 to 5 | `FeedIsWhole`, `LossBounded`, `FlushesKeepUp`, `FeedEnds` |
| `luxir` | 218,592 | every corpus of up to 5 bytes, 1 to 3 streams, blocks of 2; smaller ones over 4 streams | `RecordAligned`, `PublishedAfterDrain`, `FedIsWhole` |
| `measured` | 211,413 | tiers of 2 and 1 documents, sources of 2 to 4, every command line, 2 queries on 2 connections, a merge and a failing request | `FedAsDeclared`, `SettingsRestored`, `CleanCellWasStable`, `OwnAnswers`, `Ends` |
| `datasets` | 5,850,177 | 2 datasets, 2 corpora, 2 servers, 3 commands of which 1 may be killed | `ReusableIsWhole`, `MeasuredAsAsked` |
| `programs` | 1,062,840 (up to symmetry) | 2 legs of a grid, all presets with 13 overrides and all grid cells, boards of up to 3 results, 2 runs of each preparation and 1 change, corpora of up to 4 documents, 2 vector campaigns and an intrusion | `ContextsServe`, `ShownIsThisRequest`, `StaleHidden`, `SuccessMeansWhole`, `SameIdentitySameRequest`, `HeldAlike`, `DeltaIsPayload`, `CleanBoardIsControlled`, `BelievedIsWhole`, `DesignatedIsExact`, `VectorFedIsAsked` |

Why the bounds are enough for the interesting cases to happen:

- *ReplayLoop.* `StartBound` is when a timed phase's deadline has passed at the
  latest; it lies above the cap, so that reaching the cap first, overshooting it and
  meeting the deadline first are all possible. Two clients are enough for a
  connection to fail while another is in flight; two threads for every race on
  `started`; three records for strided cursors to go round unevenly; `WordSize` is
  above the number of clients and small enough to see the wrap below zero. The
  stale-event property fails when one connection goes round the order within one
  handler: with 3 records and 2 clients, the passing run's, that takes three more
  requests, which its caps do not allow; with 1 and 1, the failing run's, the next
  request is enough.
- *ReplayPhases.* Three workers make "some have arrived, some not, one has
  failed" possible at each opening; two repetitions let a tally of the first be
  taken for the second's.
- *Isolation.* The command, one process it forks and one pid to be reused. A
  campaign that forks during the cleanup is in the run; what is claimed of it is
  that no host process is signalled and that the cleanup ends.
- *BulkFeed, LuxirFeed.* Every source, limit, chunk size and boundary up to the
  bound are initial states; records may be longer than ranges and blocks, and
  ranges empty. The theorems of section 6 have no bounds.
- *Measurement.* Two tiers of different sizes tell a shape from a count, and three
  documents can be one, two or three segments; sources one short, exact and one
  long meet every end of a range. One merge can fall between any two requests; one
  failure anywhere. Two connections and two queries let a late answer meet the next
  query.
- *Campaign.* Two legs are what it takes for one to leave what the next must not
  show; two builds, corpora, settings of each kind are what it takes to differ.
  They are interchangeable, hence the symmetry (no liveness is checked in that run).
- *Board.* Two results can differ in one thing each, of the two engines or of one; a
  third makes "declared by another cell" possible.
- *Requests.* An override is one knob, or the few that only mean something together;
  each way a filter may be applied, both directions of a facet's order, and values
  that resolve refuses are among them. Presets, count modes, engines, grids and their
  cells are all enumerated.
- *Preparation.* Two runs with one edit or replaced file between: a kill in the
  first is what the second, or a reader, meets.
- *VectorCampaign.* Two documents tell a whole feed from a part, two cells one
  campaign's index from what it became, two campaigns a reuse.
- *Datasets.* Three commands are what it takes for one to leave a dataset, a
  second to leave a server and a third to be wrong. Two servers are what it takes
  for one to be lost and another to be started.

Deadlock is not checked in the two runs of Datasets, whose commands stop at
`Commands`, nor in `programs`, whose programs end; in every other run it is.

## 5. Fairness

- *ReplayLoop*: each worker goes on (`WF` of its step: the threads run, and
  `poll_timeout_ms` bounds every `epoll_wait` by a second, so timers are served);
  request deadlines and the phase's deadline pass. The server, the network and
  exceptions (`Throw`) are not fair: nothing says an answer ever comes.
- *ReplayPhases*: each thread goes on. That `EventLoop::run` returns is one of its
  steps, justified by `RunEnds` above.
- *Isolation*: the supervisor runs and its deadlines pass (`Tick`). Nothing is
  assumed of the command or its processes, not even that SIGKILL ends them.
- *BulkFeed*: each client and the joining thread go on; requests time out after
  300 s.
- *Measurement*: the feeder and the driver go on, `settle`'s deadline passes, the
  cell begins once the feed is done, and a merge that runs ends (a force merge waits
  for it). That a request fails, or that a merge starts, is never assumed.
- *LuxirFeed*, *Datasets* and *Programs* state safety only.

## 6. What is proved

TLAPS proves the following for all values of the constants, under the assumptions
that the modules name (`...Assumption`). Each theorem of the form `Spec => []Inv`
rests on an inductive invariant, with one lemma per action or group of actions that
touch the same state.

**ReplayLoopProofs.** From `IInv`: `TypeOK`; `Owned` (a worker only ever handles its
own connections); `Resting` (`assign_and_start` works on a connection at rest); and
`ClientOK`, which ties each connection's state, record, socket, `wire` and `inbox`
together. `AnswersMatch` is not inductive on its own: that a socket carries only
the current request depends on a socket being closed on every path that ends a
request early, which `ClientOK` records per state. The rest each has an invariant of
its own on top of it:

- `CapOvershoot` counts (`CapInv`): `started` plus the workers that stand between
  `has_next` and the increment is at most the cap plus threads minus one. With one
  thread this gives `SingleThreadCap`, the exact cap.
- `ActiveCounts`: `active_` is the number of the worker's busy connections, except
  inside a handler, where it is one more in the event loop and one less in `run()`'s
  first loop (`Counted`) - modulo the word, since that loop takes it below zero. That
  it comes out right needs only that a word holds one more than the connections.
- `PhasesAreComplete`: in a timed phase a connection that was started is at rest only
  when `has_next` refused it (`Rested`), and a refusal is never taken back (`Over`);
  so a phase whose `active_` is zero has reached its cap, or its floor and its deadline.
  The same invariant gives `PhasesStartIdle`: `run()` never throws over a connection
  that is not idle, however the phase before ended.
- `StaleEventsNeedALap`: the frame of `handle_event` holds the record of the request
  the event was for (`Framed`), and a request's record is its cursor's position in the
  order (`CursorsFit`). Where the test of the pointers lets the event through, the
  request it hits is the same, or in a timed phase one a whole number of rounds later.
  `OneRoundSparesFresh` follows: a run that goes through the order once is safe from
  the finding `loop_stale_event`, whatever the counts. `loop_threads` checks the same
  property of timed phases whose caps end them before a connection can go round.
- `LoopsImplementClosedLoop`: the workers' steps under the refinement mapping are
  starts, credits, charges and rounds of `ClosedLoop`, or stutters; sums over the
  workers (`Total`) change by what one worker adds, and a phase that is not measured
  has empty books (`Booked`).
- `LoopsRunInLockStep` maps the same steps onto `LockStep`: a worker begins a phase
  only when it is told, and no phase begins while a worker is in the one before.
- `QueriesRunOnce` is `EachQueryOnce`. The tally `started` is one number for all
  threads and the cursors are many, so neither says of the other what was sent.
  `Strided` is about cursors: each is on its connection's stride, and in such a
  repetition a connection at rest has its cursor past the end, or the cap was met.
  `Tallied` is the link: the positions that cursors have passed (`Given`) are positions of
  the order and as many as `started` says, unless a worker has failed. When all
  workers have parked every cursor has passed its part of the order, so that `Given` is
  the order and `started` its size. That the books then hold as many comes
  from the abstract side: `BooksBalance` is `ClosedLoop`'s own invariant (requests
  started are credits, charges and busy clients), carried over by the refinement.
  TLC agreed before the proof, on two threads, two connections, three records and
  two repetitions with any failures (293,810 states).

**ReplayPhasesProofs.** `PInv` relates every party's place to the parity of the
barrier's openings: a worker that has passed an opening has the other parity. From
it: `NothingRaces`, `MergesAreCurrent`, `ReportsAreComplete`, and
`PhasesImplementLockStep` (initial states and every step of the coordinator,
the workers and the barrier map to LockStep's).

**IsolationProofs.** From `TypeInv`, `PinInv` (a pidfd names the birth that was
looked at), `KidInv` and `LeftInv` (who can be left in which part of a round):
`HostIsSafe`, `LastWaitIsFree`, `CleanupLeavesNobody`. `KillInv` adds that in the round
of SIGKILL whoever does not yet die is still to be visited, or pinned under the birth
it has, and that no round follows in which somebody else is left:
`RemainingWereKilled`.

**BulkFeedProofs.** From `IInv`: chunks in hand are disjoint (`ChunksApart`); what
is neither in hand nor lost is indexed once (`IndexedOnce`); without an error a
client that is done found the source exhausted (`Exhausted`); tallied documents
plus those in hand are the ones given out (`Tallied`, with the cardinalities of
finite sets). `NoDuplicates` and `SuccessIsWhole` follow. What a client holds lies
within one body of the generator (`OneBody`), so a document in hand is told by its
holder and its place in the body; by the pigeonhole principle there are at most
clients times chunk of them (`HandsAreFew`), which is `LossIsBounded`.
`FlushesAreKept` is about the one client of a feed that flushes: the documents sent are
`flush_every` times the flushes plus its count, which is short of a flush unless one
follows (`FlushInv`). A quotient is then what the property divides for, as long as a
body is not longer than a flush; that is the property's own condition, because the
code flushes at most once a body. The assumption on the arguments: finitely many
clients, at least one of which runs, and only one if there are flushes.

**LuxirFeedProofs.** Lemmas about positions: `Bound` is monotone and spans the file
(division), the end of a line is the least record end after a position (by
well-foundedness), `Align` is monotone. The invariant places each
stream between its aligned bounds. `ExactPartition` and `SuccessIsWhole` follow,
with `WholeRecords` and `OneCommitLast`.

**MeasurementProofs.** Four invariants of the composition. `AnswersInv`: a socket carries
the one query its worker waits for and nothing else (`OneInFlight`), which every way
of ending a request must keep; and each query that left the queue has a verdict or is
in flight (`Accounted`), so that when the queue is empty and nobody waits, no error
means all accepted. `AnswersAreOwn` follows, for any number of queries and
connections. `SettingsInv` says in which part of the feed the index has its usual
settings, and where an exception leads from each; `Alike` is the lemma that no
request but those of DELETE, PUT and the `finally` block touches a setting.
`SettingsComeBack` follows, for any topology, corpus and number of failures.

`FeedInv` is about segments, which are intervals of documents. Its heart is `Parts`:
the segments of an index part the documents `1 .. n` among them, each document in
one. A refresh adds the interval of the documents since the last, a merge replaces two
neighbours by their union (`Joins`), and neither loses or repeats one. As long as
nothing failed, the documents are those that were sent (`DocumentsStay`). While the
construction settings guard the index nothing merges, so the shape that was proved
when the last tier was sent is the shape of the index that is published (`SeenInv`):
`FedWhole`. `StableInv` orders what a cell sees. A set of segments never
comes back once a merge has changed it, because a merge makes their number smaller
(`Since`); so two equal probes enclose one set of segments, and with no merge
announced in either, nothing else was served: `CellWasStable`.

**DatasetsProofs.** The invariant follows a command along its line of steps. A line
(`Line`) is the whole sequence of a script once it knows what it has to do; the steps
that remain are the end of one (`Spells`), also after a step has put a feed session
or an own server before them. For each place on each line `Point` says which server
may be alive (`OneServer`: that of the PID file, or the one just forked), how it was
started (`Posture`: its dataset, its cache, whether it is ingesting), where the PID
file is gone (`Stopped`), and what the records say of the directories (`Recorded`: a
dataset has an identity only where its directory holds that corpus, but for the one
step between archiving the data and forgetting the identity). `ReusedIsWhole` and
`MeasuredIsAsked` follow, for any datasets, corpora, servers and number of commands,
under the properties' own condition `Undisturbed`.

**ProgramsProofs**, one part for each program.

- *Grid legs.* `CInv` has four parts besides types: `AllNamed` (a whole file's context
  is there, and a driver about to write has put its own there), `Own` (a file under a
  name has that name's parameters), `Fresh` (what a leg finds under its own names once
  it has archived is its own) and `Counted` (while a leg has counted no failure, each
  cell it is done with is a good result of this leg and session; an exit code of 0
  means the cell's file is good). `ContextsAreThere`, `NothingStale` and
  `SuccessIsWhole` follow, for any number of cells and legs; the last also uses that
  for Luxir only one file can match a table exactly, and that what one leg wrote, its
  control included, is of one build (`OneBuild`), which no gate would notice. `LegOrdered`
  adds that under each name the generation before is older than the result, because a
  leg only archives what it found: with it, `ShownAsAsked`.
- *Vector campaign.* `VInv`: a marked directory was fed to the last row (`Fed`), what a
  campaign saw of its index it saw in the order of the index's versions
  (`VersionsOrdered`), and a published cell saw one version from layout to replay
  (`OneVersion`). `OneIndexMeasured` follows, for any corpora, cells, campaigns, kills
  and intrusions.
- *Board.* `CleanBoards` is a theorem about `report.py`'s functions: for any board of
  any variants, if none of its lines has anything to say, the cells it tabulates agree in
  all that their variants do not declare.
- *Requests.* `AdaptersAgree`: an answer with the total it was asked for is accepted of
  one engine exactly if it is accepted of the other, and what is accepted is in the
  order asked for from the first bucket to the last (the code compares neighbours
  only: `Falling` carries it from the first to the last). `IdentityIsRequest`:
  parameter sets of one comparable hash are built into one request, or refused alike.
  Both for any set of overrides that satisfies `OverridesAssumption`.
  `GridsAreDeltas` is `DeltaIsPayload`: what a cell's parameters hold under each key is
  known from the override, the preset and the defaults (`CellIs`), what its request
  holds under each key from the parameters (`LuxirCell`, `RestCell`), so two requests
  are compared key by key - with the base grid's (`OneDelta`), and with those of the
  other cells (`CellsApart`). It is of the code's own grids, for any `max_parallel`; that
  the argument goes by key, and not by evaluating each cell, is what makes it say
  why: the entries outside `Variable` do not depend on grid, row or column.
- *Preparations.* `Made`: every file is older than the clock (`Timed`), so what is
  newer than its source was made of it (`Stamps`; for a pin, `PinsKept` says at each
  step what the last look or hash saw, or that the source is later); while a corpus is
  half made (`Half`) a checksum of before is older than the part that will be renamed, so
  the rename makes it stale (`CorpusKept`); an installation is renamed into place whole,
  and what the link names is in place (`Homes`); the sums of a prepared corpus are of
  that corpus (`VectorsKept`); a selection is of results that could be compared
  (`Selected`). A frame lemma (`Writes`) says which files each program may touch
  (`Owned`), and leaves one obligation per program and clause. `WhatIsBelieved`
  follows, for any number of runs and changes and a kill between any two steps. TLC
  agreed on `Made` with 3 runs and 2 changes (1,888,436 states) before it was proved.
- *Transformed corpus.* `Streamed`: a count is the number of documents that have the
  name, sort keys are those of the ordinals, and a stream ends at its limit.
  `KeysApart` is that a multiplication by an invertible number is injective
  (`SortKeyAssumption`). `PinsAreExact` follows: designated values occur as often as
  the report says, none is more frequent than "head" or, of those that occur, rarer
  than "tail", and no two documents have one key.

Type invariants are theorems too (`TypeCorrect`, `IsolationTypes`, `BulkFeedTypes`,
`LuxirFeedTypes`, `CampaignTypes`, `VectorTypes`, and as parts of `PInv`, of the invariants
of MeasurementProofs, of DatasetsProofs' `Invariance` and of `Timed`, `Streamed`,
`Boards` and `Cases`), which is why no run checks one. That `--duration 0` replays
never leave the order is part of `TypeCorrect`; that ranges partition a corpus is
`ExactPartition`.

What the theorems assume of the constants are the modules' `...Assumption`s, each of
which TLC evaluates on a run: counts are natural numbers, a replay has a connection, a
thread, a record and a repetition, no more threads than connections, and a word that
can count the connections (`ConfigAssumption`); the markers "none" and "part" are no
corpora or datasets (`ConstantsAssumption` of Datasets); and the two of Requests and
CorpusTransform described in section 3. No theorem assumes a bound of section 4: the
bounds (`Commands`, `Kills`, `Attempts`, `Changes`, `Legs`, ...) are constants, and the
theorems hold for all their values.

## 7. Disagreements between the code and what is said of it

Four runs end in a counterexample and are listed as findings:

- `loop_stale_event`: with one record the pointer comparison in `handle_event`
  takes the next request for the failed one, and fails it too.
- `isolation_signal`: a signal in the `finally` block before both are ignored skips
  the cleanup.
- `datasets_left_running`: `ensure_running` keeps a server of another dataset.
- `grid_flawed`: a cell whose topology changed is tabulated with its numbers, in a
  report that says such a cell fails.

Others were met while modelling. They appear as the conditions of properties,
each of which is false without its condition:

- With several threads a capped phase may overshoot its cap; a comment says it lands
  exactly (`driver/bench_replay.cpp:314-316`). `CapOvershoot` and `SingleThreadCap`
  prove what holds.
- The floor of a phase is one tally for all clients, while the comment at
  `driver/bench_replay.cpp:325-327` says that every client contributes a sample.
  `PhaseComplete` speaks of the tally.
- A write error that surfaces when the output stream is destroyed is not reported
  (`driver/bench_replay.cpp:1581`), and exit 0 or 1 may leave a file that is cut short
  or empty; `ReportIsComplete` claims no more than that nothing older is left.
- SIGKILL is sent once: a process forked after the last listing is reported as
  surviving a SIGKILL it was not sent (`network_namespace.py:56-60`), and a chain of
  processes that fork and exit can hide from listings. `NobodyLeft` and
  `RemainSurvivedKill` are claimed without forks during the cleanup.
- `--flush-every` flushes after the chunk that passes the boundary, not "at every
  N-doc boundary" (`feed_rest.py:284`); `FlushesKeepUp` counts flushes.
- That `--flush-every` allows one client only is found after the index was made with
  its construction settings (`feed_rest.py:383`), outside the block that restores
  them; so is a PUT that was carried out and whose answer is lost. `SettingsRestored`
  exempts both (`Unguarded`).
- A comment calls the engine's build a hard gate of the tables (`grid.py:659-661`). For
  Luxir there is none: `engine_build_matches` (568-572) compares None with None, and
  the cells of a Luxir that was built again are shown without a mark. Only the control
  is compared by its binary (`controls.py:69`). `ShownIsThisRequest` claims the build
  for the REST engines; `SuccessMeansWhole` claims one build for the leg and its control.
- A source that is replaced between the second look at its time and the writing of its
  stamp (`pin_vector_sources.py:25-31`), or between hash and stamp of `verify_file`
  (`corpus_cache.py:23-26`), is older than a stamp that is not its own, and is believed.
  The stamp clause of `BelievedIsWhole` leaves out these windows.
- `settle` says it waits for merges, but its probe stands outside the `try`
  (`feed_rest.py:254`): a merge that ends between the flush and the probe leaves an
  uncommitted segment, and the feed fails. `Ends` claims that it ends, not how.
- `prepare-corpus.sh` renames the corpus before its report: killed in between, with an
  older report beside it, the next run finds the corpus ready
  (`prepare-corpus.sh:109-111`). grid.py refuses the pair, and that is what
  `BelievedIsWhole` states.
- A knob that one variant declares counts as declared for all cells of its engine in
  the parameters' drift line (`report.py:446-451`), and a startup by what the first
  result that shows it declares (`report.py:349`). `CleanBoardIsControlled` has both
  as conditions.
- The failures of the requests that warm an engine before a leg are gathered and
  dropped (`Warm`); an answer without a total passes on the REST side and fails on
  Luxir's (`HeldAlike` is of answers with one); a smoke that is killed leaves a
  scratch directory that every later smoke refuses (`vector_benchmark.py:101`); the
  context of a cell is observed after its replay.
- A command that is killed between recording an identity and stopping the feeding
  server (`engine-common.sh:228-230`) leaves an ingest session for the next to
  measure; one killed between archiving data and archiving its identity (177-181)
  leaves an identity beside no data, which a later empty directory inherits; a
  server that outlives the SIGTERM of `wait_ready` answers for the next one.
  `ReusableIsWhole` and `MeasuredAsAsked` are claimed when `Undisturbed`.

## 8. What is only model-checked

Liveness (`RunEnds`, `RunExits`, `CleanupEnds`, `FeedEnds`, `Ends`): the prover has no
support for fairness or ENABLED.

Every other property of a passing run is stated by a theorem of section 6, with two
reservations. `OneRoundSparesFresh` has a condition, a run without warmup and without
`--duration`, because `StaleEventsSpareFresh` is false of timed phases whose order is
short (the finding `loop_stale_event`); for those `StaleEventsNeedALap` is the theorem,
and TLC checks the property itself on an instance where a lap cannot be met. And the
refinements are proved of safety: the abstract specifications have no fairness.

## 9. What is not modelled, and why

- Data that no property tells apart: bodies, headers, HTTP parsing, payload checks,
  latency histograms, JSON, option parsing, logging, the layout and ratios of
  tables.
- Time. Deadlines pass at any moment; how long a retry waits, and that a latency may
  exceed the histogram's maximum, are outside the models.
- `sampler.py`, `request_capture.py`, `show_request.py`, `cpu_layout.py`, `installs.py`,
  `schema.py`: they read what is there and write it down, and no state outlives
  them.
- `import_luceneutil_queries.py` and `query_source.py` convert a file once, one line
  after the other; `materialize_workload` writes requests as bytes; `vector_tool.cpp` is
  arithmetic over vectors; `engines/download.sh` fetches a release once.
- Of modelled components: `unshare`, the lock file and option parsing of the
  isolation wrapper; the cooling wait of engine-common.sh and the query-cache setting,
  for which an index is closed and opened; the JVM engines' start scripts, where
  the server writes the PID file; signals to the feeders; the fields and mappings
  of an index; the checks of an engine's installation; the remaining scripts'
  options and loops.

## 10. Plan

Done, in this order: ReplayLoop, ReplayPhases, Isolation, BulkFeed, LuxirFeed, Datasets;
ServedIndex, TopologyFeed, MeasuredCell, Measurement; Campaign, Requests, Board;
Preparation, CorpusTransform, VectorCampaign; their proofs, of every safety property
that the passing runs check. What is left, in the order of its worth:

1. One specification of both halves of the replay driver, in which `ReplayPhases`'
   barrier begins and ends `ReplayLoop`'s phases. Both halves implement `LockStep` by
   theorems; that their composition does is still an argument and no theorem.
2. The query-cache setting: close, put, open, with a failure in between
   (`engine-common.sh:458`), in ServedIndex and Datasets.
3. The start scripts of the JVM engines in Datasets, and the session of a server in
   MeasuredCell, so that a restart during a replay can be said.
4. Signals to the feeders (`feed_rest.py:168`).
