----------------------------- MODULE ReplayLoop -----------------------------
(***************************************************************************)
(* The closed-loop replay driver, driver/bench_replay.cpp: worker threads, *)
(* each an EventLoop over its own HTTP connections, replay one Phase after *)
(* another.  A connection has at most one request on the wire and starts   *)
(* its next request as soon as the current one ended.                      *)
(*                                                                         *)
(* A worker handles one event at a time; workers meet only in the atomic   *)
(* Phase::started, which has_next loads and assign_and_start increments    *)
(* in separate steps.  The server, the network and the clock are           *)
(* nondeterministic: a request may be answered, answered badly, reset or   *)
(* never answered, and its deadline may pass at any moment.                *)
(***************************************************************************)
EXTENDS Integers, FiniteSets

CONSTANTS
  Concurrency,      \* --concurrency: connections over all threads
  Threads,          \* --threads: worker threads
  OrderSize,        \* records in the workload, hence positions of order_
  Duration,         \* --duration > 0: measured phases end by time
  MaxRequests,      \* --max-requests, 0 = no cap
  Warmup,           \* is there a warmup phase before the measured ones?
  WarmupRequests,   \* --warmup-requests, 0 = no cap
  Repetitions,      \* --repetitions
  MaxErrorSamples,  \* MAX_ERROR_SAMPLES
  WordSize,         \* 2^64 in the code: active_ is a size_t and wraps
  StartBound        \* model bound: a timed phase's deadline has passed once
                    \* this many requests of it have started

ASSUME ConfigAssumption ==
  /\ Concurrency \in Nat \ {0}
  /\ Threads \in 1 .. Concurrency
  /\ OrderSize \in Nat \ {0}
  /\ Duration \in BOOLEAN /\ Warmup \in BOOLEAN
  /\ MaxRequests \in Nat /\ WarmupRequests \in Nat
  /\ Repetitions \in Nat \ {0}
  /\ MaxErrorSamples \in Nat
  /\ WordSize \in Nat /\ WordSize > Concurrency
  /\ StartBound \in Nat

VARIABLES
  kind,       \* Phase::kind
  stage,      \* phases begun so far
  late,       \* has Phase::deadline passed?
  started,    \* Phase::started, the workers' shared tally
  pc,         \* where each worker is
  conn,       \* the connection a worker is handling
  booted,     \* connections run()'s first loop is done with
  active,     \* active_
  seen,       \* the frame of handle_event around a write
  state,      \* Connection::state
  record,     \* Connection::record, as a position of order_
  cursor,     \* Connection::cursor
  expired,    \* has Connection::request_deadline passed?
  sock,       \* Connection::fd and what the peer did to it
  wire,       \* requests written to the socket and not yet answered
  inbox,      \* requests whose answers wait in the socket
  successes,  \* successes_, summed over buckets
  errors,     \* errors_, summed over buckets
  samples     \* samples_.size()

phaseVars == <<kind, stage>>
frameVars == <<booted, active, seen>>
netVars   == <<sock, wire, inbox>>
statVars  == <<successes, errors, samples>>
vars == <<kind, stage, late, started, pc, conn, booted, active, seen, state,
          record, cursor, expired, sock, wire, inbox, successes, errors,
          samples>>

Worker    == 0 .. Threads - 1
Client    == 0 .. Concurrency - 1
Position  == 0 .. OrderSize - 1
NoRecord  == -1
NotSeen   == [record |-> NoRecord, cursor |-> 0, peer |-> "none"]
Wrap(n)   == n % WordSize

\* The slice of connections a worker owns: count and first_connection of run().
Share(t) == Concurrency \div Threads
              + (IF t < Concurrency % Threads THEN 1 ELSE 0)
First(t) == t * (Concurrency \div Threads)
              + (IF t < Concurrency % Threads THEN t ELSE Concurrency % Threads)
Mine(t)  == First(t) .. First(t) + Share(t) - 1

\* The fields run() sets for the phase before it releases the workers; they
\* outlive the phase, stop_workers only sets its kind.
Stages        == Repetitions + (IF Warmup THEN 1 ELSE 0)
StageKind(n)  == IF Warmup /\ n = 1 THEN "WARMUP" ELSE "MEASURED"
DurationMode  == StageKind(stage) = "WARMUP" \/ Duration
PhaseMax      == IF StageKind(stage) = "WARMUP" THEN WarmupRequests ELSE MaxRequests
PhaseMin      == IF StageKind(stage) = "MEASURED" /\ Duration THEN Concurrency ELSE 0
Measuring     == kind = "MEASURED"
Late          == late \/ started >= StartBound

InFlight == {"CONNECTING", "WRITING", "READING"}
Gone     == {"fin", "rst"}

Init ==
  /\ kind = "STOP" /\ stage = 0 /\ late = FALSE /\ started = 0
  /\ pc = [t \in Worker |-> "parked"]
  /\ conn = [t \in Worker |-> 0]
  /\ booted = [t \in Worker |-> 0]
  /\ active = [t \in Worker |-> 0]
  /\ seen = [t \in Worker |-> NotSeen]
  /\ state = [c \in Client |-> "IDLE"]
  /\ record = [c \in Client |-> NoRecord]
  /\ cursor = [c \in Client |-> 0]
  /\ expired = [c \in Client |-> FALSE]
  /\ sock = [c \in Client |-> "none"]
  /\ wire = [c \in Client |-> {}]
  /\ inbox = [c \in Client |-> {}]
  /\ successes = [t \in Worker |-> 0]
  /\ errors = [t \in Worker |-> 0]
  /\ samples = [t \in Worker |-> 0]

-----------------------------------------------------------------------------
(* The coordinator: run() between the barriers.                            *)

BeginPhase ==
  /\ \A t \in Worker : pc[t] = "parked"
  /\ stage < Stages
  /\ stage' = stage + 1
  /\ kind' = StageKind(stage + 1)
  /\ late' = FALSE
  /\ started' = 0
  /\ pc' = [t \in Worker |-> "run"]
  /\ UNCHANGED <<conn, frameVars, state, record, cursor, expired, netVars, statVars>>

\* stop_workers: after the last repetition, or when check_workers threw.
StopWorkers ==
  /\ \A t \in Worker : pc[t] \in {"parked", "failed"}
  /\ stage = Stages \/ \E t \in Worker : pc[t] = "failed"
  /\ kind' = "STOP"
  /\ pc' = [t \in Worker |-> "stopped"]
  /\ UNCHANGED <<stage, late, started, conn, frameVars, state, record, cursor,
                 expired, netVars, statVars>>

-----------------------------------------------------------------------------
(* Shared pieces of the handlers.  Each constrains the primed variables    *)
(* named in its comment.                                                   *)

\* record_error, called with a record in hand: errors, samples.
RecordError(t) ==
  IF Measuring
  THEN /\ errors' = [errors EXCEPT ![t] = @ + 1]
       /\ samples' = [samples EXCEPT ![t] = IF @ < MaxErrorSamples THEN @ + 1 ELSE @]
  ELSE UNCHANGED <<errors, samples>>

\* close_socket: sock, wire, inbox.  What the peer still sends is lost.
CloseSocket(c) ==
  /\ sock' = [sock EXCEPT ![c] = "none"]
  /\ wire' = [wire EXCEPT ![c] = {}]
  /\ inbox' = [inbox EXCEPT ![c] = {}]

\* A slip: finish_current forgets to clear the record.
FinishKeepingRecord(t, c) ==
  /\ state' = [state EXCEPT ![c] = "IDLE"]
  /\ conn' = [conn EXCEPT ![t] = c]
  /\ pc' = [pc EXCEPT ![t] = "check"]
  /\ UNCHANGED record

\* finish_current up to its call of assign_and_start: record, state, pc, conn.
FinishCurrent(t, c) ==
  /\ record' = [record EXCEPT ![c] = NoRecord]
  /\ state' = [state EXCEPT ![c] = "IDLE"]
  /\ conn' = [conn EXCEPT ![t] = c]
  /\ pc' = [pc EXCEPT ![t] = "check"]

\* A slip: a failed request leaves its socket open for the next one.
FailKeepingSocket(t, c) ==
  RecordError(t) /\ FinishCurrent(t, c) /\ UNCHANGED <<netVars, successes>>

\* fail_current: the request is charged, its socket goes with it.
FailCurrent(t, c) ==
  /\ RecordError(t)
  /\ CloseSocket(c)
  /\ FinishCurrent(t, c)
  /\ UNCHANGED successes

\* The handler returns with request p of c waiting in state st on socket s.
Await(t, c, st, p, s, next) ==
  /\ state' = [state EXCEPT ![c] = st]
  /\ record' = [record EXCEPT ![c] = p]
  /\ sock' = [sock EXCEPT ![c] = s]
  /\ conn' = [conn EXCEPT ![t] = c]
  /\ pc' = [pc EXCEPT ![t] = next]
  /\ UNCHANGED <<inbox, statVars>>

\* handle_write of request q on socket s: all sent, EAGAIN part way, or a
\* write error.  A request is known by its connection's cursor after it.
HandleWrite(t, c, p, q, s, next) ==
  \/ /\ s # "rst"
     /\ Await(t, c, "READING", p, s, next)
     /\ wire' = [wire EXCEPT ![c] = @ \union {q}]
  \/ /\ s # "rst"
     /\ Await(t, c, "WRITING", p, s, next)
     /\ UNCHANGED wire
  \/ FailCurrent(t, c)

\* open_connection: no socket or a refused connect (connect_failed), a
\* connect under way, or one that completed at once.
OpenConnection(t, c, p, q, next) ==
  \/ /\ RecordError(t)
     /\ state' = [state EXCEPT ![c] = "RETRY"]
     /\ record' = [record EXCEPT ![c] = NoRecord]
     /\ pc' = [pc EXCEPT ![t] = next]
     /\ UNCHANGED <<conn, successes, netVars>>
  \/ Await(t, c, "CONNECTING", p, "connecting", next) /\ UNCHANGED wire
  \/ HandleWrite(t, c, p, q, "up", next)

\* complete_response: the oldest answer is credited or charged to the
\* connection's current request; the socket survives only with keep-alive.
CompleteResponse(t, c) ==
  /\ \E ok \in BOOLEAN :
       IF ok THEN /\ successes' = [successes EXCEPT ![t] = IF Measuring THEN @ + 1 ELSE @]
                  /\ UNCHANGED <<errors, samples>>
             ELSE RecordError(t) /\ UNCHANGED successes
  /\ \/ CloseSocket(c)
     \/ /\ \E q \in inbox[c] :
             /\ \A r \in inbox[c] : q <= r
             /\ inbox' = [inbox EXCEPT ![c] = @ \ {q}]
        /\ UNCHANGED <<sock, wire>>
  /\ FinishCurrent(t, c)

\* handle_read with something to read: a complete answer, or bytes that do
\* not parse, an EOF inside the answer, a read error.
HandleRead(t, c) ==
  \/ inbox[c] # {} /\ CompleteResponse(t, c)
  \/ FailCurrent(t, c)

-----------------------------------------------------------------------------
(* Worker steps: entering run(), then assign_and_start.                    *)

\* run(): a measured phase starts from zeroed statistics.
Run(t) ==
  /\ pc[t] = "run"
  /\ pc' = [pc EXCEPT ![t] = "boot"]
  /\ booted' = [booted EXCEPT ![t] = 0]
  /\ active' = [active EXCEPT ![t] = 0]
  /\ successes' = [successes EXCEPT ![t] = IF Measuring THEN 0 ELSE @]
  /\ errors' = [errors EXCEPT ![t] = IF Measuring THEN 0 ELSE @]
  /\ UNCHANGED <<phaseVars, late, started, conn, seen, state, record, cursor,
                 expired, netVars, samples>>

\* The first loop of run(): a connection that is not idle is an error.
Boot(t) ==
  /\ pc[t] = "boot" /\ booted[t] < Share(t)
  /\ LET c == First(t) + booted[t]
         idle == state[c] = "IDLE"
     IN  /\ cursor' = [cursor EXCEPT ![c] = IF idle THEN c ELSE @]
         /\ conn' = [conn EXCEPT ![t] = c]
         /\ pc' = [pc EXCEPT ![t] = IF idle THEN "enter" ELSE "failed"]
  /\ UNCHANGED <<phaseVars, late, started, frameVars, state, record, expired,
                 netVars, statVars>>

BootDone(t) ==
  /\ pc[t] = "boot" /\ booted[t] = Share(t)
  /\ pc' = [pc EXCEPT ![t] = IF active[t] = 0 THEN "parked" ELSE "poll"]
  /\ UNCHANGED <<phaseVars, late, started, conn, frameVars, state, record,
                 cursor, expired, netVars, statVars>>

\* Slips: the cap is inclusive; the deadline comes before the floor.
Continues(c) == IF DurationMode THEN ~Late ELSE cursor[c] < OrderSize
HasNextInclusive(c) ==
  (PhaseMax = 0 \/ started <= PhaseMax) /\ (started < PhaseMin \/ Continues(c))
HasNextNoFloor(c) ==
  (PhaseMax = 0 \/ started < PhaseMax) /\ Continues(c)

\* has_next: the cap first, then the floor, then the deadline or the order.
HasNext(c) ==
  /\ PhaseMax = 0 \/ started < PhaseMax
  /\ \/ started < PhaseMin
     \/ DurationMode /\ ~Late
     \/ ~DurationMode /\ cursor[c] < OrderSize

\* Where assign_and_start returns to: run()'s loop, the rest of handle_event
\* after its write, or the wait for events.
ReturnTo(t) ==
  IF booted[t] < Share(t) THEN "booted"
  ELSE IF seen[t] # NotSeen THEN "resume" ELSE "poll"

\* assign_and_start finds a next request ("enter" when run() calls it,
\* "check" when finish_current or service_timers does).
CheckNext(t) ==
  /\ pc[t] \in {"enter", "check"}
  /\ HasNext(conn[t])
  /\ pc' = [pc EXCEPT ![t] = "claim"]
  /\ UNCHANGED <<phaseVars, late, started, conn, frameVars, state, record,
                 cursor, expired, netVars, statVars>>

\* ... or none: the connection rests, and its caller counts it out.
CheckRest(t) ==
  /\ pc[t] \in {"enter", "check"}
  /\ ~HasNext(conn[t])
  /\ state' = [state EXCEPT ![conn[t]] = "IDLE"]
  /\ record' = [record EXCEPT ![conn[t]] = NoRecord]
  /\ \/ /\ pc[t] = "enter"
        /\ pc' = [pc EXCEPT ![t] = "boot"]
        /\ booted' = [booted EXCEPT ![t] = @ + 1]
        /\ UNCHANGED active
     \/ /\ pc[t] = "check"
        /\ pc' = [pc EXCEPT ![t] = ReturnTo(t)]
        /\ active' = [active EXCEPT ![t] = Wrap(@ - 1)]
        /\ UNCHANGED booted
  /\ UNCHANGED <<phaseVars, late, started, conn, seen, cursor, expired,
                 netVars, statVars>>

\* The rest of assign_and_start: the tally, the record, the first write.
Claim(t) ==
  /\ pc[t] = "claim"
  /\ started' = started + 1
  /\ LET c == conn[t]
         p == IF DurationMode THEN cursor[c] % OrderSize ELSE cursor[c]
         q == cursor[c] + Concurrency
     IN  /\ cursor' = [cursor EXCEPT ![c] = q]
         /\ expired' = [expired EXCEPT ![c] = FALSE]
         /\ \/ sock[c] = "none" /\ OpenConnection(t, c, p, q, ReturnTo(t))
            \/ sock[c] # "none" /\ HandleWrite(t, c, p, q, sock[c], ReturnTo(t))
  /\ UNCHANGED <<phaseVars, late, frameVars>>

\* A slip: a connection that is idle again by now is not counted in.
BootedIfBusy(t) ==
  /\ pc[t] = "booted"
  /\ active' = [active EXCEPT ![t] = IF state[conn[t]] = "IDLE" THEN @ ELSE Wrap(@ + 1)]
  /\ booted' = [booted EXCEPT ![t] = @ + 1]
  /\ pc' = [pc EXCEPT ![t] = "boot"]
  /\ UNCHANGED <<phaseVars, late, started, conn, seen, state, record, cursor,
                 expired, netVars, statVars>>

\* run()'s loop counts the connection in once assign_and_start returned true,
\* however many requests of it failed on the way.
Booted(t) ==
  /\ pc[t] = "booted"
  /\ active' = [active EXCEPT ![t] = Wrap(@ + 1)]
  /\ booted' = [booted EXCEPT ![t] = @ + 1]
  /\ pc' = [pc EXCEPT ![t] = "boot"]
  /\ UNCHANGED <<phaseVars, late, started, conn, seen, state, record, cursor,
                 expired, netVars, statVars>>

-----------------------------------------------------------------------------
(* Worker steps: event_loop, one event or timer at a time.                 *)

\* event_loop ends, and the worker goes to the second barrier.  Events of idle
\* connections that epoll_wait had already returned are handled before that.
LeaveLoop(t) ==
  /\ pc[t] = "poll" /\ active[t] = 0
  /\ pc' = [pc EXCEPT ![t] = "parked"]
  /\ UNCHANGED <<phaseVars, late, started, conn, frameVars, state, record,
                 cursor, expired, netVars, statVars>>

\* handle_event on an idle connection whose peer went away.
IdleHangup(t, c) ==
  /\ pc[t] = "poll" /\ state[c] = "IDLE" /\ sock[c] \in Gone
  /\ CloseSocket(c)
  /\ UNCHANGED <<phaseVars, late, started, pc, conn, frameVars, state, record,
                 cursor, expired, statVars>>

\* service_timers: a refused connection is due for its next request.
RetryDue(t, c) ==
  /\ pc[t] = "poll" /\ active[t] # 0 /\ state[c] = "RETRY"
  /\ state' = [state EXCEPT ![c] = "IDLE"]
  /\ conn' = [conn EXCEPT ![t] = c]
  /\ pc' = [pc EXCEPT ![t] = "check"]
  /\ UNCHANGED <<phaseVars, late, started, frameVars, record, cursor, expired,
                 netVars, statVars>>

\* A slip: service_timers overlooks connections still connecting.
TimeoutOnceConnected(t, c) ==
  /\ pc[t] = "poll" /\ active[t] # 0
  /\ state[c] \in {"WRITING", "READING"} /\ expired[c]
  /\ FailCurrent(t, c)
  /\ UNCHANGED <<phaseVars, late, started, frameVars, cursor, expired>>

\* handle_event or service_timers past the request's deadline.
Timeout(t, c) ==
  /\ pc[t] = "poll" /\ active[t] # 0
  /\ state[c] \in InFlight /\ expired[c]
  /\ FailCurrent(t, c)
  /\ UNCHANGED <<phaseVars, late, started, frameVars, cursor, expired>>

\* handle_connect: SO_ERROR says the connect failed, or the request is written.
HandleConnect(t, c) ==
  /\ pc[t] = "poll" /\ active[t] # 0
  /\ state[c] = "CONNECTING" /\ ~expired[c]
  /\ FailCurrent(t, c) \/ HandleWrite(t, c, record[c], cursor[c], "up", "poll")
  /\ UNCHANGED <<phaseVars, late, started, frameVars, cursor, expired>>

\* handle_event with EPOLLOUT: the write, inside a frame that remembers the
\* record and the event's flags.
WriteEvent(t, c) ==
  /\ pc[t] = "poll" /\ active[t] # 0
  /\ state[c] = "WRITING" /\ ~expired[c]
  /\ seen' = [seen EXCEPT ![t] =
                [record |-> record[c], cursor |-> cursor[c], peer |-> sock[c]]]
  /\ HandleWrite(t, c, record[c], cursor[c], sock[c], "resume")
  /\ UNCHANGED <<phaseVars, late, started, booted, active, cursor, expired>>

\* A slip: the rest of handle_event does not ask whether the record changed.
FrameAlwaysSame(t) == TRUE

\* The rest of that handle_event: nothing more if the record changed, else
\* the flags of the event are applied to the connection as it is now.
FrameSame(t)  == record[conn[t]] = seen[t].record
FrameReads(t) == FrameSame(t) /\ state[conn[t]] = "READING" /\ seen[t].peer \in Gone
FrameFails(t) ==
  /\ FrameSame(t) /\ ~FrameReads(t)
  /\ \/ state[conn[t]] \in InFlight /\ seen[t].peer = "rst"
     \/ state[conn[t]] = "WRITING" /\ seen[t].peer = "fin"

\* There are bytes, an EOF or an error to read.
Readable(c) == inbox[c] # {} \/ sock[c] \in Gone

Resume(t) ==
  /\ pc[t] = "resume"
  /\ seen' = [seen EXCEPT ![t] = NotSeen]
  /\ \/ FrameReads(t) /\ Readable(conn[t]) /\ HandleRead(t, conn[t])
     \/ FrameFails(t) /\ FailCurrent(t, conn[t])
     \/ /\ ~FrameFails(t) /\ ~(FrameReads(t) /\ Readable(conn[t]))
        /\ pc' = [pc EXCEPT ![t] = "poll"]
        /\ UNCHANGED <<conn, state, record, netVars, statVars>>
  /\ UNCHANGED <<phaseVars, late, started, booted, active, cursor, expired>>

\* handle_event without EPOLLOUT on a connection whose peer went away.
WriteHangup(t, c) ==
  /\ pc[t] = "poll" /\ active[t] # 0
  /\ state[c] = "WRITING" /\ ~expired[c] /\ sock[c] \in Gone
  /\ FailCurrent(t, c)
  /\ UNCHANGED <<phaseVars, late, started, frameVars, cursor, expired>>

\* handle_event with something to read.
ReadEvent(t, c) ==
  /\ pc[t] = "poll" /\ active[t] # 0
  /\ state[c] = "READING" /\ ~expired[c]
  /\ Readable(c)
  /\ HandleRead(t, c)
  /\ UNCHANGED <<phaseVars, late, started, frameVars, cursor, expired>>

\* epoll_wait, epoll_ctl or the histogram throws: the worker leaves run().
Throw(t) ==
  /\ pc[t] \in {"booted", "resume"} \/ (pc[t] = "poll" /\ active[t] # 0)
  /\ pc' = [pc EXCEPT ![t] = "failed"]
  /\ UNCHANGED <<phaseVars, late, started, conn, frameVars, state, record,
                 cursor, expired, netVars, statVars>>

-----------------------------------------------------------------------------
(* The server, the network and the clock.                                  *)

Answer(c) ==
  /\ sock[c] = "up"
  /\ \E q \in wire[c] :
       /\ \A r \in wire[c] : q <= r
       /\ wire' = [wire EXCEPT ![c] = @ \ {q}]
       /\ inbox' = [inbox EXCEPT ![c] = @ \union {q}]
  /\ UNCHANGED <<phaseVars, late, started, pc, conn, frameVars, state, record,
                 cursor, expired, sock, statVars>>

PeerCloses(c) ==
  /\ sock[c] = "up"
  /\ \E how \in Gone : sock' = [sock EXCEPT ![c] = how]
  /\ UNCHANGED <<phaseVars, late, started, pc, conn, frameVars, state, record,
                 cursor, expired, wire, inbox, statVars>>

RequestExpires(c) ==
  /\ state[c] \in InFlight /\ ~expired[c]
  /\ expired' = [expired EXCEPT ![c] = TRUE]
  /\ UNCHANGED <<phaseVars, late, started, pc, conn, frameVars, state, record,
                 cursor, netVars, statVars>>

DeadlinePasses ==
  /\ kind # "STOP" /\ DurationMode /\ ~late
  /\ late' = TRUE
  /\ UNCHANGED <<phaseVars, started, pc, conn, frameVars, state, record, cursor,
                 expired, netVars, statVars>>

-----------------------------------------------------------------------------

Coordinator == BeginPhase \/ StopWorkers

\* What a worker does by itself; Throw is left out, nothing makes it happen.
WorkerStep(t) ==
  \/ Run(t) \/ Boot(t) \/ BootDone(t) \/ CheckNext(t) \/ CheckRest(t)
  \/ Claim(t) \/ Booted(t) \/ LeaveLoop(t) \/ Resume(t)
  \/ \E c \in Mine(t) :
       \/ IdleHangup(t, c) \/ RetryDue(t, c) \/ Timeout(t, c)
       \/ HandleConnect(t, c) \/ WriteEvent(t, c) \/ WriteHangup(t, c)
       \/ ReadEvent(t, c)

Environment ==
  \/ \E c \in Client : Answer(c) \/ PeerCloses(c) \/ RequestExpires(c)
  \/ DeadlinePasses

\* The process has left run(): nothing happens any more.
Ended == (\A t \in Worker : pc[t] = "stopped") /\ UNCHANGED vars

Next ==
  \/ Coordinator
  \/ \E t \in Worker : WorkerStep(t) \/ Throw(t)
  \/ Environment
  \/ Ended

Spec == Init /\ [][Next]_vars

\* Threads run and time passes; the server owes nothing.
Fairness ==
  /\ WF_vars(Coordinator)
  /\ \A t \in Worker : WF_vars(WorkerStep(t))
  /\ \A c \in Client : WF_vars(RequestExpires(c))
  /\ WF_vars(DeadlinePasses)

FairSpec == Spec /\ Fairness

-----------------------------------------------------------------------------
(* Properties.                                                             *)

\* Every variable keeps its type (one invariant for the whole module).
TypeOK ==
  /\ kind \in {"STOP", "WARMUP", "MEASURED"}
  /\ stage \in 0 .. Stages
  /\ late \in BOOLEAN
  /\ started \in Nat
  /\ pc \in [Worker -> {"parked", "run", "boot", "enter", "check", "claim",
                        "booted", "resume", "poll", "failed", "stopped"}]
  /\ conn \in [Worker -> Client]
  /\ booted \in [Worker -> Nat]
  /\ active \in [Worker -> 0 .. WordSize - 1]
  /\ seen \in [Worker -> [record : Position \union {NoRecord}, cursor : Nat,
                          peer : {"none", "connecting", "up"} \union Gone]]
  /\ state \in [Client -> {"IDLE", "RETRY"} \union InFlight]
  /\ record \in [Client -> Position \union {NoRecord}]
  /\ cursor \in [Client -> Nat]
  /\ expired \in [Client -> BOOLEAN]
  /\ sock \in [Client -> {"none", "connecting", "up"} \union Gone]
  /\ wire \in [Client -> SUBSET Nat]
  /\ inbox \in [Client -> SUBSET Nat]
  /\ successes \in [Worker -> Nat]
  /\ errors \in [Worker -> Nat]
  /\ samples \in [Worker -> Nat]

\* A worker's statistics, as of the current phase: run() has yet to zero them
\* while the worker stands before it.
Credited(t) == IF pc[t] = "run" THEN 0 ELSE successes[t]
Charged(t)  == IF pc[t] = "run" THEN 0 ELSE errors[t]

Busy == {c \in Client : record[c] # NoRecord}

\* A socket carries the connection's current request and nothing else, so no
\* answer is credited to another request: what times out or fails takes its
\* socket along, and an idle connection is owed nothing, not even across the
\* phases.
AnswerMatchesRequest ==
  \A c \in Client :
    /\ wire[c] \union inbox[c] \subseteq {cursor[c]}
    /\ wire[c] \union inbox[c] # {} => state[c] = "READING"

\* active_ counts the worker's connections that are not at rest when the event
\* loop looks at it, although the nested finish_current calls of run()'s first
\* loop take it below zero on the way.
ActiveMatches ==
  \A t \in Worker : pc[t] = "poll" =>
    active[t] = Cardinality({c \in Mine(t) : state[c] # "IDLE"})

\* The has_next load and the fetch_add of assign_and_start are two steps: each
\* other thread may start one request beyond the cap, and no more.
CapOvershootBounded ==
  PhaseMax > 0 => started <= PhaseMax + Threads - 1

\* Phase::started: "a capped phase lands on exactly max_requests instead of
\* overshooting".
CapExact == PhaseMax > 0 => started <= PhaseMax

AllParked == stage > 0 /\ \A t \in Worker : pc[t] = "parked"

\* A timed phase does not end early: when all workers are done and the cap was
\* not reached, the deadline has passed and the floor was met, however many
\* requests failed or were answered late; a phase shorter than one request
\* still takes its samples.
PhaseComplete ==
  DurationMode /\ AllParked /\ ~(PhaseMax > 0 /\ started >= PhaseMax) =>
    Late /\ started >= PhaseMin

\* "timeouts, connection failures [...] count as errors": when the rest of
\* handle_event fails a connection over the flags of its event, it fails the
\* request whose socket raised them, never one started since on a new socket.
StaleEventsSpareFresh ==
  \A t \in Worker :
    pc[t] = "resume" /\ FrameFails(t) => cursor[conn[t]] = seen[t].cursor

\* Every phase ends and the run terminates, whatever the server does: timeouts
\* end requests, the deadline, the cap or the order ends the phase.
RunEnds == <>[](\A t \in Worker : pc[t] = "stopped")
=============================================================================
