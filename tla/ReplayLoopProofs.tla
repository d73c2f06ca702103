-------------------------- MODULE ReplayLoopProofs --------------------------
(***************************************************************************)
(* Proofs about ReplayLoop, for every number of connections, threads,      *)
(* records and phases.  TypeOK is not inductive: assign_and_start indexes  *)
(* order_ without a modulus and run() indexes a slice of the connections,  *)
(* so the invariant says where each worker stands (Owned, Resting) and     *)
(* what each connection's socket carries (ClientOK).  The bound on the cap *)
(* has an invariant of its own, which counts the workers that have passed  *)
(* has_next and are yet to increment Phase::started.  So have active_      *)
(* (Counted: a worker's counter against its busy connections, one apart    *)
(* inside a handler), the end of a phase (Rested: a connection at rest is  *)
(* one has_next has refused) and stale events (Framed: the record a        *)
(* handler's frame still holds).  The refinements show, step by step, that *)
(* the workers together are the closed loop of ClosedLoop and that their   *)
(* phases are LockStep's rounds; between the two, the cursors' strides     *)
(* (Strided) and the positions they have passed (Tallied) say what a       *)
(* repetition goes through.                                                *)
(***************************************************************************)
EXTENDS ReplayRefinement, FiniteSetTheorems, TLAPS

-----------------------------------------------------------------------------
(* The workers' slices of the connections.                                 *)

\* A product grows by at least one factor from one multiplier to the next.
LEMMA MulMono ==
  ASSUME NEW a \in Nat, NEW b \in Nat, NEW q \in Nat, a < b
  PROVE  a * q + q <= b * q
<1>1. b - a - 1 \in Nat
  OBVIOUS
<1>2. b * q = a * q + q + (b - a - 1) * q
  OBVIOUS
<1>3. (b - a - 1) * q \in Nat /\ a * q \in Nat /\ b * q \in Nat
  BY <1>1
<1> QED BY <1>2, <1>3

\* Every worker owns connections that exist, and no two workers share one.
LEMMA Slices ==
  /\ \A t \in Worker : First(t) \in Nat /\ Share(t) \in Nat /\ Mine(t) \subseteq Client
  /\ \A t, u \in Worker : t # u => Mine(t) \cap Mine(u) = {}
<1> DEFINE d == Concurrency \div Threads
           r == Concurrency % Threads
<1>1. d \in Nat /\ r \in 0 .. Threads - 1 /\ Concurrency = Threads * d + r
  BY ConfigAssumption
<1>2. Threads \in Nat /\ Concurrency \in Nat
  BY ConfigAssumption
<1>3. ASSUME NEW t \in Worker
      PROVE  /\ t * d \in Nat
             /\ First(t) = t * d + (IF t < r THEN t ELSE r)
             /\ Share(t) = d + (IF t < r THEN 1 ELSE 0)
  BY <1>1, <1>2 DEF First, Share, Worker
<1> HIDE DEF d, r
<1>4. ASSUME NEW t \in Worker, NEW u \in Worker, t < u
      PROVE  First(t) + Share(t) <= First(u)
  <2>1. t * d + d <= u * d
    BY <1>1, <1>2, <1>4, MulMono DEF Worker
  <2> QED BY <1>1, <1>2, <1>3, <1>4, <2>1 DEF Worker
<1>5. ASSUME NEW t \in Worker
      PROVE  First(t) + Share(t) <= Concurrency
  <2>1. t * d + d <= Threads * d
    BY <1>1, <1>2, MulMono DEF Worker
  <2>2. Threads * d \in Nat
    BY <1>1, <1>2
  <2> QED BY <1>1, <1>2, <1>3, <2>1, <2>2 DEF Worker
<1>6. ASSUME NEW t \in Worker
      PROVE  First(t) \in Nat /\ Share(t) \in Nat
  BY <1>1, <1>2, <1>3 DEF Worker
<1>7. ASSUME NEW t \in Worker
      PROVE  Mine(t) \subseteq Client
  BY <1>2, <1>5, <1>6 DEF Mine, Client
<1>8. ASSUME NEW t \in Worker, NEW u \in Worker, t < u
      PROVE  Mine(t) \cap Mine(u) = {}
  <2>1. First(t) + Share(t) <= First(u)
    BY <1>4, <1>8
  <2>2. /\ First(t) \in Nat /\ Share(t) \in Nat
        /\ First(u) \in Nat /\ Share(u) \in Nat
    BY <1>6
  <2> HIDE DEF First, Share
  <2> QED BY <2>1, <2>2 DEF Mine
<1>9. ASSUME NEW t \in Worker, NEW u \in Worker, t # u
      PROVE  Mine(t) \cap Mine(u) = {}
  BY <1>2, <1>8, <1>9 DEF Worker
<1> QED BY <1>6, <1>7, <1>9

\* The first loop of run() visits the worker's own connections.
LEMMA BootVisitsMine ==
  ASSUME NEW t \in Worker, NEW n \in Nat, n < Share(t)
  PROVE  First(t) + n \in Mine(t)
<1>1. First(t) \in Nat /\ Share(t) \in Nat
  BY Slices
<1> HIDE DEF First, Share
<1> QED BY <1>1 DEF Mine

\* active_ stays a machine word.
LEMMA WrapType ==
  ASSUME NEW n \in Int
  PROVE  Wrap(n) \in 0 .. WordSize - 1
<1>1. WordSize \in Nat /\ WordSize > 0
  BY ConfigAssumption
<1> QED BY <1>1 DEF Wrap

\* A stage is a warmup or a measured phase.
LEMMA StageKindType ==
  /\ Stages \in Nat
  /\ \A n \in Nat : StageKind(n) \in {"STOP", "WARMUP", "MEASURED"}
BY ConfigAssumption DEF Stages, StageKind

-----------------------------------------------------------------------------
(* Type correctness.                                                       *)

PlaceOf == {"parked", "run", "boot", "enter", "check", "claim", "booted",
            "resume", "poll", "failed", "stopped"}
SockOf  == {"none", "connecting", "up", "fin", "rst"}

\* The types of the variables that the shared pieces of the handlers change.
HandlerTypes ==
  /\ pc \in [Worker -> PlaceOf]
  /\ conn \in [Worker -> Client]
  /\ state \in [Client -> {"IDLE", "RETRY", "CONNECTING", "WRITING", "READING"}]
  /\ record \in [Client -> Position \union {NoRecord}]
  /\ sock \in [Client -> SockOf]
  /\ wire \in [Client -> SUBSET Nat]
  /\ inbox \in [Client -> SUBSET Nat]
  /\ successes \in [Worker -> Nat]
  /\ errors \in [Worker -> Nat]
  /\ samples \in [Worker -> Nat]

\* ... and of the others.
PlainTypes ==
  /\ kind \in {"STOP", "WARMUP", "MEASURED"}
  /\ stage \in 0 .. Stages
  /\ late \in BOOLEAN
  /\ started \in Nat
  /\ booted \in [Worker -> Nat]
  /\ active \in [Worker -> 0 .. WordSize - 1]
  /\ seen \in [Worker -> [record : Position \union {NoRecord}, cursor : Nat,
                          peer : SockOf]]
  /\ cursor \in [Client -> Nat]
  /\ expired \in [Client -> BOOLEAN]

\* TypeOK is the types of what handlers change and of what they leave alone.
LEMMA TypeSplit == TypeOK <=> HandlerTypes /\ PlainTypes
<1>1. {"none", "connecting", "up"} \union Gone = SockOf
  BY DEF Gone, SockOf
<1>2. {"IDLE", "RETRY"} \union InFlight
        = {"IDLE", "RETRY", "CONNECTING", "WRITING", "READING"}
  BY DEF InFlight
<1> QED BY <1>1, <1>2 DEF TypeOK, HandlerTypes, PlainTypes, PlaceOf

\* The same of the next state.
LEMMA TypeSplitNext == TypeOK' <=> HandlerTypes' /\ PlainTypes'
<1>1. {"none", "connecting", "up"} \union Gone = SockOf
  BY DEF Gone, SockOf
<1>2. {"IDLE", "RETRY"} \union InFlight
        = {"IDLE", "RETRY", "CONNECTING", "WRITING", "READING"}
  BY DEF InFlight
<1> QED BY <1>1, <1>2 DEF TypeOK, HandlerTypes, PlainTypes, PlaceOf

\* record_error keeps the error tallies natural numbers.
LEMMA RecordErrorTypes ==
  ASSUME HandlerTypes, NEW t \in Worker, RecordError(t)
  PROVE  errors' \in [Worker -> Nat] /\ samples' \in [Worker -> Nat]
BY DEF HandlerTypes, RecordError

\* fail_current keeps the types.
LEMMA FailCurrentTypes ==
  ASSUME HandlerTypes, NEW t \in Worker, NEW c \in Client, FailCurrent(t, c)
  PROVE  HandlerTypes'
<1>1. errors' \in [Worker -> Nat] /\ samples' \in [Worker -> Nat]
  BY RecordErrorTypes DEF FailCurrent
<1> QED BY <1>1 DEF HandlerTypes, FailCurrent, CloseSocket, FinishCurrent, PlaceOf, SockOf

\* handle_write keeps the types.
LEMMA HandleWriteTypes ==
  ASSUME HandlerTypes, NEW t \in Worker, NEW c \in Client, NEW p \in Position \union {NoRecord},
         NEW q \in Nat, NEW s \in SockOf, NEW next \in PlaceOf,
         HandleWrite(t, c, p, q, s, next)
  PROVE  HandlerTypes'
<1>1. CASE FailCurrent(t, c)
  BY <1>1, FailCurrentTypes
<1>2. CASE Await(t, c, "WRITING", p, s, next) /\ UNCHANGED wire
  BY <1>2 DEF HandlerTypes, Await, statVars
<1>3. CASE /\ Await(t, c, "READING", p, s, next)
           /\ wire' = [wire EXCEPT ![c] = @ \union {q}]
  BY <1>3 DEF HandlerTypes, Await, statVars
<1> QED BY <1>1, <1>2, <1>3 DEF HandleWrite

\* open_connection keeps the types.
LEMMA OpenConnectionTypes ==
  ASSUME HandlerTypes, NEW t \in Worker, NEW c \in Client, NEW p \in Position,
         NEW q \in Nat, NEW next \in PlaceOf,
         OpenConnection(t, c, p, q, next)
  PROVE  HandlerTypes'
<1>1. CASE HandleWrite(t, c, p, q, "up", next)
  BY <1>1, HandleWriteTypes DEF SockOf
<1>2. CASE Await(t, c, "CONNECTING", p, "connecting", next) /\ UNCHANGED wire
  BY <1>2 DEF HandlerTypes, Await, statVars, SockOf
<1>3. CASE /\ RecordError(t)
           /\ state' = [state EXCEPT ![c] = "RETRY"]
           /\ record' = [record EXCEPT ![c] = NoRecord]
           /\ pc' = [pc EXCEPT ![t] = next]
           /\ UNCHANGED <<conn, successes, netVars>>
  BY <1>3, RecordErrorTypes DEF HandlerTypes, netVars
<1> QED BY <1>1, <1>2, <1>3 DEF OpenConnection

\* handle_read keeps the types.
LEMMA HandleReadTypes ==
  ASSUME HandlerTypes, NEW t \in Worker, NEW c \in Client, HandleRead(t, c)
  PROVE  HandlerTypes'
<1>1. CASE FailCurrent(t, c)
  BY <1>1, FailCurrentTypes
<1>2. CASE CompleteResponse(t, c)
  <2>1. /\ successes' \in [Worker -> Nat]
        /\ errors' \in [Worker -> Nat] /\ samples' \in [Worker -> Nat]
    BY <1>2, RecordErrorTypes DEF CompleteResponse, HandlerTypes
  <2>2. /\ sock' \in [Client -> SockOf]
        /\ wire' \in [Client -> SUBSET Nat] /\ inbox' \in [Client -> SUBSET Nat]
    BY <1>2 DEF CompleteResponse, CloseSocket, HandlerTypes, SockOf
  <2> QED BY <1>2, <2>1, <2>2 DEF CompleteResponse, FinishCurrent, HandlerTypes, PlaceOf
<1> QED BY <1>1, <1>2 DEF HandleRead

-----------------------------------------------------------------------------
(* The inductive invariant behind TypeOK and AnswerMatchesRequest.         *)

\* A worker in the middle of a handler handles a connection of its own.
Owned ==
  \A t \in Worker :
    /\ booted[t] <= Share(t)
    /\ pc[t] \in {"enter", "check", "claim", "booted", "resume"} => conn[t] \in Mine(t)
    /\ pc[t] \in {"enter", "booted"} => booted[t] < Share(t)

\* assign_and_start works on a connection at rest, and past has_next a phase
\* without duration has a record for it.
Resting ==
  \A t \in Worker :
    /\ pc[t] \in {"enter", "check", "claim"} => state[conn[t]] = "IDLE"
    /\ pc[t] = "claim" /\ ~DurationMode => cursor[conn[t]] < OrderSize

\* A connection has a record exactly while its request is under way; its socket
\* carries that request or its answer, not both, and only while it reads.
ClientOK(c) ==
  /\ state[c] \in InFlight => record[c] \in Position
  /\ state[c] \notin InFlight => record[c] = NoRecord
  /\ wire[c] = {} \/ inbox[c] = {}
  /\ wire[c] \union inbox[c] \subseteq {cursor[c]}
  /\ wire[c] \union inbox[c] # {} => state[c] = "READING"

IInv == TypeOK /\ Owned /\ Resting /\ \A c \in Client : ClientOK(c)

\* The invariant holds before the first phase.
LEMMA InitIInv == Init => IInv
<1> SUFFICES ASSUME Init PROVE IInv
  OBVIOUS
<1>1. 0 \in Client /\ 0 \in 0 .. Stages /\ 0 \in 0 .. WordSize - 1
  BY ConfigAssumption, StageKindType DEF Client
<1>2. TypeOK
  <2>1. HandlerTypes
    BY <1>1 DEF Init, HandlerTypes, PlaceOf, SockOf
  <2>2. PlainTypes
    BY <1>1 DEF Init, PlainTypes, NotSeen, SockOf
  <2> QED BY <2>1, <2>2, TypeSplit
<1>3. Owned
  <2>1. \A t \in Worker : Share(t) \in Nat
    BY Slices
  <2> HIDE DEF Share
  <2> QED BY <2>1 DEF Init, Owned
<1>4. Resting /\ \A c \in Client : ClientOK(c)
  BY DEF Init, Resting, ClientOK, InFlight
<1> QED BY <1>2, <1>3, <1>4 DEF IInv

-----------------------------------------------------------------------------
(* Every step keeps the types.                                             *)

\* assign_and_start keeps the types: it takes a record that exists (this is
\* where Resting is needed: order_ is indexed without a modulus).
LEMMA ClaimTypes ==
  ASSUME IInv, NEW t \in Worker, Claim(t)
  PROVE  TypeOK'
<1> DEFINE c == conn[t]
           p == IF DurationMode THEN cursor[c] % OrderSize ELSE cursor[c]
           q == cursor[c] + Concurrency
<1>1. HandlerTypes /\ PlainTypes
  BY TypeSplit DEF IInv
<1>2. c \in Client /\ cursor[c] \in Nat
  BY <1>1 DEF HandlerTypes, PlainTypes
<1>3. p \in Position
  <2>1. OrderSize \in Nat \ {0}
    BY ConfigAssumption
  <2>2. CASE DurationMode
    BY <1>2, <2>1, <2>2 DEF Position
  <2>3. CASE ~DurationMode
    BY <1>2, <2>1, <2>3 DEF IInv, Resting, Claim, Position
  <2> QED BY <2>2, <2>3
<1>4. q \in Nat
  BY <1>2, ConfigAssumption
<1>5. ReturnTo(t) \in PlaceOf
  BY DEF ReturnTo, PlaceOf
<1>6. PlainTypes'
  <2>1. /\ started' = started + 1
        /\ cursor' = [cursor EXCEPT ![c] = q]
        /\ expired' = [expired EXCEPT ![c] = FALSE]
        /\ UNCHANGED <<kind, stage, late, booted, active, seen>>
    BY DEF Claim, phaseVars, frameVars
  <2> HIDE DEF c, p, q
  <2> QED BY <1>1, <1>2, <1>3, <1>4, <2>1 DEF PlainTypes
<1>7. HandlerTypes'
  <2>1. CASE OpenConnection(t, c, p, q, ReturnTo(t))
    BY <2>1, <1>1, <1>2, <1>3, <1>4, <1>5, OpenConnectionTypes
  <2>2. CASE HandleWrite(t, c, p, q, sock[c], ReturnTo(t))
    <3>1. sock[c] \in SockOf
      BY <1>1, <1>2 DEF HandlerTypes
    <3> QED BY <2>2, <3>1, <1>1, <1>2, <1>3, <1>4, <1>5, HandleWriteTypes
  <2> QED BY <2>1, <2>2 DEF Claim
<1> QED BY <1>6, <1>7, TypeSplitNext

\* Every step keeps the types.
LEMMA NextTypes ==
  ASSUME IInv, [Next]_vars
  PROVE  TypeOK'
<1>1. HandlerTypes /\ PlainTypes
  BY TypeSplit DEF IInv
<1>2. \A t \in Worker : \A c \in Mine(t) : c \in Client
  BY Slices
<1>3. CASE BeginPhase
  <2>1. stage + 1 \in 0 .. Stages /\ stage + 1 \in Nat
    BY <1>1, <1>3, StageKindType DEF BeginPhase, PlainTypes
  <2>2. kind' \in {"STOP", "WARMUP", "MEASURED"}
    BY <1>3, <2>1, StageKindType DEF BeginPhase
  <2> QED BY <1>1, <1>3, <2>1, <2>2, TypeSplitNext
         DEF BeginPhase, PlainTypes, HandlerTypes, PlaceOf, frameVars, netVars, statVars
<1>4. CASE StopWorkers
  BY <1>1, <1>4, TypeSplitNext
  DEF StopWorkers, PlainTypes, HandlerTypes, PlaceOf, frameVars, netVars, statVars
<1>5. ASSUME NEW t \in Worker, Run(t) PROVE TypeOK'
  <2>1. 0 \in 0 .. WordSize - 1
    BY ConfigAssumption
  <2> QED BY <1>1, <1>5, <2>1, TypeSplitNext
         DEF Run, PlainTypes, HandlerTypes, PlaceOf, phaseVars, netVars
<1>6. ASSUME NEW t \in Worker, Boot(t) PROVE TypeOK'
  <2>1. booted[t] \in Nat
    BY <1>1 DEF PlainTypes
  <2>2. First(t) + booted[t] \in Client /\ First(t) + booted[t] \in Nat
    BY <1>2, <1>6, <2>1, BootVisitsMine, Slices DEF Boot, Client
  <2> HIDE DEF First
  <2> QED BY <1>1, <1>6, <2>2, TypeSplitNext
         DEF Boot, PlainTypes, HandlerTypes, PlaceOf, phaseVars, frameVars, netVars, statVars
<1>7. ASSUME NEW t \in Worker, BootDone(t) \/ CheckNext(t) \/ LeaveLoop(t) \/ Throw(t)
      PROVE  TypeOK'
  BY <1>1, <1>7, TypeSplitNext
  DEF BootDone, CheckNext, LeaveLoop, Throw, PlainTypes, HandlerTypes, PlaceOf,
      phaseVars, frameVars, netVars, statVars
<1>8. ASSUME NEW t \in Worker, CheckRest(t) PROVE TypeOK'
  <2>1. Wrap(active[t] - 1) \in 0 .. WordSize - 1
    BY <1>1, WrapType DEF PlainTypes
  <2>2. ReturnTo(t) \in PlaceOf
    BY DEF ReturnTo, PlaceOf
  <2>3. PlainTypes'
    BY <1>1, <1>8, <2>1 DEF CheckRest, PlainTypes, phaseVars
  <2>4. HandlerTypes'
    BY <1>1, <1>8, <2>2 DEF CheckRest, HandlerTypes, PlaceOf, netVars, statVars
  <2> QED BY <2>3, <2>4, TypeSplitNext
<1>9. ASSUME NEW t \in Worker, Claim(t) PROVE TypeOK'
  BY <1>9, ClaimTypes
<1>10. ASSUME NEW t \in Worker, Booted(t) PROVE TypeOK'
  <2>1. Wrap(active[t] + 1) \in 0 .. WordSize - 1
    BY <1>1, WrapType DEF PlainTypes
  <2>2. PlainTypes'
    BY <1>1, <1>10, <2>1 DEF Booted, PlainTypes, phaseVars
  <2>3. HandlerTypes'
    BY <1>1, <1>10 DEF Booted, HandlerTypes, PlaceOf, netVars, statVars
  <2> QED BY <2>2, <2>3, TypeSplitNext
<1>11. ASSUME NEW t \in Worker, Resume(t) PROVE TypeOK'
  <2>1. PlainTypes'
    BY <1>1, <1>11 DEF Resume, PlainTypes, NotSeen, SockOf, phaseVars
  <2>2. conn[t] \in Client
    BY <1>1 DEF HandlerTypes
  <2>3. CASE HandleRead(t, conn[t]) \/ FailCurrent(t, conn[t])
    BY <1>1, <2>1, <2>2, <2>3, HandleReadTypes, FailCurrentTypes, TypeSplitNext
  <2>4. CASE /\ pc' = [pc EXCEPT ![t] = "poll"]
             /\ UNCHANGED <<conn, state, record, netVars, statVars>>
    BY <1>1, <2>1, <2>4, TypeSplitNext DEF HandlerTypes, PlaceOf, netVars, statVars
  <2> QED BY <1>11, <2>3, <2>4 DEF Resume
<1>12. ASSUME NEW t \in Worker, NEW c \in Mine(t), IdleHangup(t, c) PROVE TypeOK'
  BY <1>1, <1>2, <1>12, TypeSplitNext
  DEF IdleHangup, CloseSocket, PlainTypes, HandlerTypes, SockOf, phaseVars, frameVars, statVars
<1>13. ASSUME NEW t \in Worker, NEW c \in Mine(t), RetryDue(t, c) PROVE TypeOK'
  BY <1>1, <1>2, <1>13, TypeSplitNext
  DEF RetryDue, PlainTypes, HandlerTypes, PlaceOf, phaseVars, frameVars, netVars, statVars
<1>14. ASSUME NEW t \in Worker, NEW c \in Mine(t), Timeout(t, c) \/ WriteHangup(t, c)
       PROVE  TypeOK'
  <2>1. PlainTypes'
    BY <1>1, <1>14 DEF Timeout, WriteHangup, PlainTypes, phaseVars, frameVars
  <2> QED BY <1>1, <1>2, <1>14, <2>1, FailCurrentTypes, TypeSplitNext DEF Timeout, WriteHangup
<1>15. ASSUME NEW t \in Worker, NEW c \in Mine(t), HandleConnect(t, c) PROVE TypeOK'
  <2>1. PlainTypes'
    BY <1>1, <1>15 DEF HandleConnect, PlainTypes, phaseVars, frameVars
  <2>2. c \in Client /\ record[c] \in Position \union {NoRecord} /\ cursor[c] \in Nat
    BY <1>1, <1>2 DEF HandlerTypes, PlainTypes
  <2>3. "up" \in SockOf /\ "poll" \in PlaceOf
    BY DEF SockOf, PlaceOf
  <2> QED BY <1>1, <1>15, <2>1, <2>2, <2>3, FailCurrentTypes, HandleWriteTypes, TypeSplitNext
         DEF HandleConnect
<1>16. ASSUME NEW t \in Worker, NEW c \in Mine(t), WriteEvent(t, c) PROVE TypeOK'
  <2>1. /\ c \in Client /\ record[c] \in Position \union {NoRecord}
        /\ cursor[c] \in Nat /\ sock[c] \in SockOf
    BY <1>1, <1>2 DEF HandlerTypes, PlainTypes
  <2>2. PlainTypes'
    BY <1>1, <1>16, <2>1 DEF WriteEvent, PlainTypes, phaseVars
  <2>3. "resume" \in PlaceOf
    BY DEF PlaceOf
  <2> QED BY <1>1, <1>16, <2>1, <2>2, <2>3, HandleWriteTypes, TypeSplitNext DEF WriteEvent
<1>17. ASSUME NEW t \in Worker, NEW c \in Mine(t), ReadEvent(t, c) PROVE TypeOK'
  <2>1. PlainTypes'
    BY <1>1, <1>17 DEF ReadEvent, PlainTypes, phaseVars, frameVars
  <2> QED BY <1>1, <1>2, <1>17, <2>1, HandleReadTypes, TypeSplitNext DEF ReadEvent
<1>18. ASSUME NEW c \in Client, Answer(c) PROVE TypeOK'
  BY <1>1, <1>18, TypeSplitNext
  DEF Answer, PlainTypes, HandlerTypes, phaseVars, frameVars, statVars
<1>19. ASSUME NEW c \in Client, PeerCloses(c) PROVE TypeOK'
  BY <1>1, <1>19, TypeSplitNext
  DEF PeerCloses, PlainTypes, HandlerTypes, Gone, SockOf, phaseVars, frameVars, statVars
<1>20. ASSUME NEW c \in Client, RequestExpires(c) PROVE TypeOK'
  BY <1>1, <1>20, TypeSplitNext
  DEF RequestExpires, PlainTypes, HandlerTypes, phaseVars, frameVars, netVars, statVars
<1>21. CASE DeadlinePasses
  BY <1>1, <1>21, TypeSplitNext
  DEF DeadlinePasses, PlainTypes, HandlerTypes, phaseVars, frameVars, netVars, statVars
<1>22. CASE UNCHANGED vars
  BY <1>1, <1>22, TypeSplitNext DEF vars, PlainTypes, HandlerTypes
<1> QED
  BY <1>3, <1>4, <1>5, <1>6, <1>7, <1>8, <1>9, <1>10, <1>11, <1>12, <1>13, <1>14,
     <1>15, <1>16, <1>17, <1>18, <1>19, <1>20, <1>21, <1>22
  DEF Next, Coordinator, WorkerStep, Environment, Ended

-----------------------------------------------------------------------------
(* Every step keeps every connection in order.                             *)

\* A failed connection is at rest with nothing owed to it.
LEMMA FailCurrentClients ==
  ASSUME TypeOK, NEW t \in Worker, NEW c \in Client, FailCurrent(t, c),
         \A e \in Client : ClientOK(e),
         \A e \in Client \ {c} : cursor'[e] = cursor[e]
  PROVE  \A d \in Client : ClientOK(d)'
<1> SUFFICES ASSUME NEW d \in Client PROVE ClientOK(d)'
  OBVIOUS
<1>1. HandlerTypes
  BY TypeSplit
<1>2. CASE d = c
  BY <1>1, <1>2 DEF FailCurrent, CloseSocket, FinishCurrent, ClientOK, HandlerTypes, InFlight
<1>3. CASE d # c
  <2>1. /\ state'[d] = state[d] /\ record'[d] = record[d]
        /\ wire'[d] = wire[d] /\ inbox'[d] = inbox[d] /\ cursor'[d] = cursor[d]
    BY <1>1, <1>3 DEF FailCurrent, CloseSocket, FinishCurrent, HandlerTypes
  <2> QED BY <2>1 DEF ClientOK
<1> QED BY <1>2, <1>3

\* A write puts the current request, alone, on a socket that carried none.
LEMMA HandleWriteClients ==
  ASSUME TypeOK, NEW t \in Worker, NEW c \in Client, NEW p \in Position, NEW q, NEW s,
         NEW next, HandleWrite(t, c, p, q, s, next),
         \A e \in Client : ClientOK(e), wire[c] = {}, inbox[c] = {},
         \A e \in Client \ {c} : cursor'[e] = cursor[e], cursor'[c] = q
  PROVE  \A d \in Client : ClientOK(d)'
<1> SUFFICES ASSUME NEW d \in Client PROVE ClientOK(d)'
  OBVIOUS
<1>1. HandlerTypes
  BY TypeSplit
<1>2. CASE FailCurrent(t, c)
  BY <1>2, FailCurrentClients
<1>3. ASSUME NEW st, Await(t, c, st, p, s, next), d # c,
             UNCHANGED wire \/ wire' = [wire EXCEPT ![c] = @ \union {q}]
      PROVE  ClientOK(d)'
  <2>1. /\ state'[d] = state[d] /\ record'[d] = record[d]
        /\ wire'[d] = wire[d] /\ inbox'[d] = inbox[d] /\ cursor'[d] = cursor[d]
    BY <1>1, <1>3 DEF Await, HandlerTypes
  <2> QED BY <2>1 DEF ClientOK
<1>4. ASSUME Await(t, c, "READING", p, s, next), d = c,
             wire' = [wire EXCEPT ![c] = @ \union {q}]
      PROVE  ClientOK(d)'
  BY <1>1, <1>4 DEF Await, HandlerTypes, ClientOK, InFlight
<1>5. ASSUME Await(t, c, "WRITING", p, s, next), d = c, UNCHANGED wire
      PROVE  ClientOK(d)'
  BY <1>1, <1>5 DEF Await, HandlerTypes, ClientOK, InFlight
<1> QED BY <1>2, <1>3, <1>4, <1>5 DEF HandleWrite

\* Reading takes the answer out of the socket, or the socket away.
LEMMA HandleReadClients ==
  ASSUME TypeOK, NEW t \in Worker, NEW c \in Client, HandleRead(t, c),
         \A e \in Client : ClientOK(e), UNCHANGED cursor
  PROVE  \A d \in Client : ClientOK(d)'
<1> SUFFICES ASSUME NEW d \in Client PROVE ClientOK(d)'
  OBVIOUS
<1>1. HandlerTypes
  BY TypeSplit
<1>2. CASE FailCurrent(t, c)
  BY <1>2, FailCurrentClients
<1>3. CASE CompleteResponse(t, c) /\ inbox[c] # {}
  <2>1. CASE d # c
    <3>1. /\ state'[d] = state[d] /\ record'[d] = record[d]
          /\ wire'[d] = wire[d] /\ inbox'[d] = inbox[d]
      BY <1>1, <1>3, <2>1 DEF CompleteResponse, CloseSocket, FinishCurrent, HandlerTypes
    <3> QED BY <3>1 DEF ClientOK
  <2>2. CASE d = c
    <3>1. wire[c] = {} /\ inbox[c] = {cursor[c]}
      BY <1>3 DEF ClientOK
    <3>2. wire'[c] = {} /\ inbox'[c] = {}
      BY <1>1, <1>3, <3>1 DEF CompleteResponse, CloseSocket, HandlerTypes
    <3>3. state'[c] = "IDLE" /\ record'[c] = NoRecord
      BY <1>1, <1>3 DEF CompleteResponse, FinishCurrent, HandlerTypes
    <3> QED BY <2>2, <3>2, <3>3 DEF ClientOK, InFlight
  <2> QED BY <2>1, <2>2
<1> QED BY <1>2, <1>3 DEF HandleRead

\* assign_and_start puts a request on an empty socket.
LEMMA ClaimClients ==
  ASSUME IInv, NEW t \in Worker, Claim(t)
  PROVE  \A d \in Client : ClientOK(d)'
<1> DEFINE c == conn[t]
           p == IF DurationMode THEN cursor[c] % OrderSize ELSE cursor[c]
           q == cursor[c] + Concurrency
<1>1. TypeOK /\ HandlerTypes /\ PlainTypes /\ \A e \in Client : ClientOK(e)
  BY TypeSplit DEF IInv
<1>2. c \in Client /\ cursor[c] \in Nat
  BY <1>1 DEF HandlerTypes, PlainTypes
<1>3. p \in Position
  <2>1. OrderSize \in Nat \ {0}
    BY ConfigAssumption
  <2>2. CASE DurationMode
    BY <1>2, <2>1, <2>2 DEF Position
  <2>3. CASE ~DurationMode
    BY <1>2, <2>1, <2>3 DEF IInv, Resting, Claim, Position
  <2> QED BY <2>2, <2>3
<1>4. wire[c] = {} /\ inbox[c] = {}
  BY <1>1, <1>2 DEF IInv, Resting, Claim, ClientOK
<1>5. cursor'[c] = q /\ \A e \in Client \ {c} : cursor'[e] = cursor[e]
  BY <1>1, <1>2 DEF Claim, PlainTypes
<1>6. CASE \E s : HandleWrite(t, c, p, q, s, ReturnTo(t))
  BY <1>1, <1>2, <1>3, <1>4, <1>5, <1>6, HandleWriteClients
<1>7. CASE Await(t, c, "CONNECTING", p, "connecting", ReturnTo(t)) /\ UNCHANGED wire
  <2> SUFFICES ASSUME NEW d \in Client PROVE ClientOK(d)'
    OBVIOUS
  <2>1. inbox' = inbox /\ wire' = wire /\ record'[c] = p /\ state'[c] \in InFlight
        /\ \A e \in Client \ {c} : state'[e] = state[e] /\ record'[e] = record[e]
    BY <1>1, <1>2, <1>7 DEF Await, HandlerTypes, InFlight
  <2> HIDE DEF c, p, q
  <2> QED BY <1>1, <1>2, <1>3, <1>4, <1>5, <2>1 DEF ClientOK
<1>8. CASE /\ state' = [state EXCEPT ![c] = "RETRY"]
           /\ record' = [record EXCEPT ![c] = NoRecord]
           /\ UNCHANGED netVars
  <2> SUFFICES ASSUME NEW d \in Client PROVE ClientOK(d)'
    OBVIOUS
  <2>1. inbox' = inbox /\ wire' = wire /\ state'[c] = "RETRY" /\ record'[c] = NoRecord
        /\ \A e \in Client \ {c} : state'[e] = state[e] /\ record'[e] = record[e]
    BY <1>1, <1>2, <1>8 DEF netVars, HandlerTypes
  <2> HIDE DEF c, p, q
  <2> QED BY <1>1, <1>2, <1>4, <1>5, <2>1 DEF ClientOK, InFlight
<1> QED BY <1>6, <1>7, <1>8 DEF Claim, OpenConnection

\* Every step keeps every connection in order.
LEMMA NextClients ==
  ASSUME IInv, [Next]_vars
  PROVE  \A d \in Client : ClientOK(d)'
<1>1. TypeOK /\ HandlerTypes /\ PlainTypes /\ \A e \in Client : ClientOK(e)
  BY TypeSplit DEF IInv
<1>2. \A t \in Worker : \A c \in Mine(t) : c \in Client
  BY Slices
<1>3. ASSUME UNCHANGED <<state, record, cursor, wire, inbox>>
      PROVE  \A d \in Client : ClientOK(d)'
  BY <1>1, <1>3 DEF ClientOK
<1>4. CASE BeginPhase \/ StopWorkers \/ DeadlinePasses \/ UNCHANGED vars
  BY <1>3, <1>4 DEF BeginPhase, StopWorkers, DeadlinePasses, vars, netVars
<1>5. ASSUME NEW t \in Worker,
             \/ Run(t) \/ BootDone(t) \/ CheckNext(t) \/ Booted(t) \/ LeaveLoop(t) \/ Throw(t)
      PROVE  \A d \in Client : ClientOK(d)'
  BY <1>3, <1>5 DEF Run, BootDone, CheckNext, Booted, LeaveLoop, Throw, netVars
<1>6. ASSUME NEW c \in Client, PeerCloses(c) \/ RequestExpires(c)
      PROVE  \A d \in Client : ClientOK(d)'
  BY <1>3, <1>6 DEF PeerCloses, RequestExpires, netVars
<1>7. ASSUME NEW t \in Worker, Boot(t)
      PROVE  \A d \in Client : ClientOK(d)'
  <2>1. First(t) + booted[t] \in Client
    BY <1>1, <1>2, <1>7, BootVisitsMine DEF Boot, PlainTypes
  <2> HIDE DEF First
  <2>2. /\ UNCHANGED <<state, record, wire, inbox>>
        /\ \A e \in Client : state[e] # "IDLE" => cursor'[e] = cursor[e]
    BY <1>1, <1>7, <2>1 DEF Boot, netVars, PlainTypes
  <2>3. \A e \in Client : state[e] = "IDLE" => wire[e] = {} /\ inbox[e] = {}
    BY <1>1 DEF ClientOK
  <2> QED BY <1>1, <2>2, <2>3 DEF ClientOK
<1>8. ASSUME NEW t \in Worker, CheckRest(t)
      PROVE  \A d \in Client : ClientOK(d)'
  <2>1. conn[t] \in Client
    BY <1>1 DEF HandlerTypes
  <2>2. state[conn[t]] = "IDLE"
    BY <1>8 DEF IInv, Resting, CheckRest
  <2>3. /\ UNCHANGED <<state, wire, inbox, cursor>>
        /\ record'[conn[t]] = NoRecord
        /\ \A e \in Client \ {conn[t]} : record'[e] = record[e]
    BY <1>1, <1>8, <2>1, <2>2 DEF CheckRest, netVars, HandlerTypes
  <2> QED BY <1>1, <2>2, <2>3 DEF ClientOK, InFlight
<1>9. ASSUME NEW t \in Worker, Claim(t)
      PROVE  \A d \in Client : ClientOK(d)'
  BY <1>9, ClaimClients
<1>10. ASSUME NEW t \in Worker, Resume(t)
       PROVE  \A d \in Client : ClientOK(d)'
  <2>1. conn[t] \in Client /\ UNCHANGED cursor
    BY <1>1, <1>10 DEF HandlerTypes, Resume
  <2>2. CASE HandleRead(t, conn[t]) \/ FailCurrent(t, conn[t])
    BY <1>1, <2>1, <2>2, HandleReadClients, FailCurrentClients
  <2>3. CASE UNCHANGED <<conn, state, record, netVars, statVars>>
    BY <1>3, <2>1, <2>3 DEF netVars
  <2> QED BY <1>10, <2>2, <2>3 DEF Resume
<1>11. ASSUME NEW t \in Worker, NEW c \in Mine(t), IdleHangup(t, c)
       PROVE  \A d \in Client : ClientOK(d)'
  <2>1. /\ UNCHANGED <<state, record, cursor>> /\ wire'[c] = {} /\ inbox'[c] = {}
        /\ \A e \in Client \ {c} : wire'[e] = wire[e] /\ inbox'[e] = inbox[e]
    BY <1>1, <1>2, <1>11 DEF IdleHangup, CloseSocket, HandlerTypes
  <2> QED BY <1>1, <2>1 DEF ClientOK
<1>12. ASSUME NEW t \in Worker, NEW c \in Mine(t), RetryDue(t, c)
       PROVE  \A d \in Client : ClientOK(d)'
  <2>1. /\ UNCHANGED <<record, cursor, wire, inbox>> /\ state'[c] = "IDLE" /\ state[c] = "RETRY"
        /\ \A e \in Client \ {c} : state'[e] = state[e]
    BY <1>1, <1>2, <1>12 DEF RetryDue, netVars, HandlerTypes
  <2> QED BY <1>1, <2>1 DEF ClientOK, InFlight
<1>13. ASSUME NEW t \in Worker, NEW c \in Mine(t), Timeout(t, c) \/ WriteHangup(t, c)
       PROVE  \A d \in Client : ClientOK(d)'
  BY <1>1, <1>2, <1>13, FailCurrentClients DEF Timeout, WriteHangup
<1>14. ASSUME NEW t \in Worker, NEW c \in Mine(t), HandleConnect(t, c) \/ WriteEvent(t, c)
       PROVE  \A d \in Client : ClientOK(d)'
  <2>1. c \in Client /\ UNCHANGED cursor
    BY <1>2, <1>14 DEF HandleConnect, WriteEvent
  <2>2. record[c] \in Position /\ wire[c] = {} /\ inbox[c] = {}
    BY <1>1, <1>14, <2>1 DEF HandleConnect, WriteEvent, ClientOK, InFlight
  <2> QED BY <1>1, <1>14, <2>1, <2>2, HandleWriteClients, FailCurrentClients
         DEF HandleConnect, WriteEvent
<1>15. ASSUME NEW t \in Worker, NEW c \in Mine(t), ReadEvent(t, c)
       PROVE  \A d \in Client : ClientOK(d)'
  BY <1>1, <1>2, <1>15, HandleReadClients DEF ReadEvent
<1>16. ASSUME NEW c \in Client, Answer(c)
       PROVE  \A d \in Client : ClientOK(d)'
  <2>1. UNCHANGED <<state, record, cursor>>
    BY <1>16 DEF Answer
  <2>2. \A e \in Client \ {c} : wire'[e] = wire[e] /\ inbox'[e] = inbox[e]
    BY <1>1, <1>16 DEF Answer, HandlerTypes
  <2>3. wire[c] = {cursor[c]} /\ inbox[c] = {} /\ state[c] = "READING"
    BY <1>1, <1>16 DEF Answer, ClientOK
  <2>4. wire'[c] = {} /\ inbox'[c] = {cursor[c]}
    BY <1>1, <1>16, <2>3 DEF Answer, HandlerTypes
  <2> QED BY <1>1, <2>1, <2>2, <2>3, <2>4 DEF ClientOK
<1> QED
  BY <1>4, <1>5, <1>6, <1>7, <1>8, <1>9, <1>10, <1>11, <1>12, <1>13, <1>14, <1>15, <1>16
  DEF Next, Coordinator, WorkerStep, Environment, Ended

-----------------------------------------------------------------------------
(* Every step keeps the workers in order.                                  *)

\* What Owned and Resting say of one worker.
WorkerOK(t) ==
  /\ booted[t] <= Share(t)
  /\ pc[t] \in {"enter", "check", "claim", "booted", "resume"} => conn[t] \in Mine(t)
  /\ pc[t] \in {"enter", "booted"} => booted[t] < Share(t)
  /\ pc[t] \in {"enter", "check", "claim"} => state[conn[t]] = "IDLE"
  /\ pc[t] = "claim" /\ ~DurationMode => cursor[conn[t]] < OrderSize

\* Owned and Resting speak of one worker at a time.
LEMMA WorkersSplit == (\A t \in Worker : WorkerOK(t)) <=> Owned /\ Resting
BY DEF WorkerOK, Owned, Resting

\* A step of worker t on its connection c leaves the other workers in order.
LEMMA OthersKept ==
  ASSUME TypeOK, NEW t \in Worker, NEW c \in Mine(t),
         \A u \in Worker : WorkerOK(u),
         \A u \in Worker \ {t} :
           pc'[u] = pc[u] /\ conn'[u] = conn[u] /\ booted'[u] = booted[u],
         \A e \in Client \ {c} : state'[e] = state[e] /\ cursor'[e] = cursor[e],
         stage' = stage
  PROVE  \A u \in Worker \ {t} : WorkerOK(u)'
<1> SUFFICES ASSUME NEW u \in Worker \ {t} PROVE WorkerOK(u)'
  OBVIOUS
<1>1. Mine(t) \cap Mine(u) = {} /\ Mine(u) \subseteq Client
  BY Slices
<1>2. DurationMode' = DurationMode
  BY DEF DurationMode, StageKind
<1>3. WorkerOK(u)
  OBVIOUS
<1>4. conn[u] \in Mine(u) => state'[conn[u]] = state[conn[u]] /\ cursor'[conn[u]] = cursor[conn[u]]
  BY <1>1
<1> HIDE DEF Mine, Share
<1> QED BY <1>2, <1>3, <1>4 DEF WorkerOK

\* fail_current leaves a worker about to assign a request to its connection.
LEMMA FailCurrentWorkers ==
  ASSUME TypeOK, NEW t \in Worker, NEW c \in Mine(t), FailCurrent(t, c),
         \A u \in Worker : WorkerOK(u), UNCHANGED <<stage, booted>>,
         \A e \in Client \ {c} : cursor'[e] = cursor[e]
  PROVE  \A u \in Worker : WorkerOK(u)'
<1>1. HandlerTypes /\ c \in Client
  BY TypeSplit, Slices
<1>2. /\ \A u \in Worker \ {t} : pc'[u] = pc[u] /\ conn'[u] = conn[u] /\ booted'[u] = booted[u]
      /\ \A e \in Client \ {c} : state'[e] = state[e]
      /\ pc'[t] = "check" /\ conn'[t] = c /\ booted'[t] = booted[t] /\ state'[c] = "IDLE"
  BY <1>1 DEF FailCurrent, FinishCurrent, HandlerTypes
<1>3. \A u \in Worker \ {t} : WorkerOK(u)'
  BY <1>2, OthersKept
<1>4. WorkerOK(t)'
  <2>1. booted[t] <= Share(t)
    BY DEF WorkerOK
  <2> HIDE DEF Mine, Share
  <2> QED BY <1>2, <2>1 DEF WorkerOK
<1> QED BY <1>3, <1>4

\* A handler that returns leaves its worker where the caller goes on.
LEMMA ReturnWorkers ==
  ASSUME TypeOK, NEW t \in Worker, NEW c \in Mine(t), NEW next,
         \A u \in Worker : WorkerOK(u), UNCHANGED <<stage, booted>>,
         pc' = [pc EXCEPT ![t] = next],
         UNCHANGED conn \/ conn' = [conn EXCEPT ![t] = c],
         \A e \in Client \ {c} : state'[e] = state[e] /\ cursor'[e] = cursor[e],
         next \in {"booted", "resume", "poll"},
         next = "resume" => conn'[t] \in Mine(t),
         next = "booted" => conn'[t] \in Mine(t) /\ booted[t] < Share(t)
  PROVE  \A u \in Worker : WorkerOK(u)'
<1>1. HandlerTypes /\ c \in Client
  BY TypeSplit, Slices
<1>2. /\ \A u \in Worker \ {t} : pc'[u] = pc[u] /\ conn'[u] = conn[u] /\ booted'[u] = booted[u]
      /\ pc'[t] = next /\ booted'[t] = booted[t]
  BY <1>1 DEF HandlerTypes
<1>3. \A u \in Worker \ {t} : WorkerOK(u)'
  BY <1>2, OthersKept
<1>4. WorkerOK(t)'
  <2>1. booted[t] <= Share(t)
    BY DEF WorkerOK
  <2> HIDE DEF Mine, Share
  <2> QED BY <1>2, <2>1 DEF WorkerOK
<1> QED BY <1>3, <1>4

\* handle_write leaves its worker where its caller goes on.
LEMMA HandleWriteWorkers ==
  ASSUME TypeOK, NEW t \in Worker, NEW c \in Mine(t), NEW p, NEW q, NEW s, NEW next,
         HandleWrite(t, c, p, q, s, next),
         \A u \in Worker : WorkerOK(u), UNCHANGED <<stage, booted>>,
         \A e \in Client \ {c} : cursor'[e] = cursor[e],
         next \in {"booted", "resume", "poll"}, next = "booted" => booted[t] < Share(t)
  PROVE  \A u \in Worker : WorkerOK(u)'
<1>1. HandlerTypes /\ c \in Client
  BY TypeSplit, Slices
<1>2. CASE FailCurrent(t, c)
  BY <1>2, FailCurrentWorkers
<1>3. ASSUME NEW st, Await(t, c, st, p, s, next)
      PROVE  \A u \in Worker : WorkerOK(u)'
  <2>1. /\ pc' = [pc EXCEPT ![t] = next] /\ conn' = [conn EXCEPT ![t] = c] /\ conn'[t] = c
        /\ \A e \in Client \ {c} : state'[e] = state[e]
    BY <1>1, <1>3 DEF Await, HandlerTypes
  <2> QED BY <2>1, ReturnWorkers
<1> QED BY <1>2, <1>3 DEF HandleWrite

\* handle_read leaves a worker about to assign a request to its connection.
LEMMA HandleReadWorkers ==
  ASSUME TypeOK, NEW t \in Worker, NEW c \in Mine(t), HandleRead(t, c),
         \A u \in Worker : WorkerOK(u), UNCHANGED <<stage, booted, cursor>>
  PROVE  \A u \in Worker : WorkerOK(u)'
<1>1. HandlerTypes /\ c \in Client
  BY TypeSplit, Slices
<1>2. CASE FailCurrent(t, c)
  BY <1>2, FailCurrentWorkers
<1>3. CASE FinishCurrent(t, c)
  <2>1. /\ \A u \in Worker \ {t} : pc'[u] = pc[u] /\ conn'[u] = conn[u] /\ booted'[u] = booted[u]
        /\ \A e \in Client \ {c} : state'[e] = state[e]
        /\ pc'[t] = "check" /\ conn'[t] = c /\ booted'[t] = booted[t] /\ state'[c] = "IDLE"
    BY <1>1, <1>3 DEF FinishCurrent, HandlerTypes
  <2>2. \A u \in Worker \ {t} : WorkerOK(u)'
    BY <2>1, OthersKept
  <2>3. booted[t] <= Share(t)
    BY DEF WorkerOK
  <2>4. WorkerOK(t)'
    <3> HIDE DEF Mine, Share
    <3> QED BY <2>1, <2>3 DEF WorkerOK
  <2> QED BY <2>2, <2>4
<1> QED BY <1>2, <1>3 DEF HandleRead, CompleteResponse

\* assign_and_start leaves its worker where its caller goes on.
LEMMA ClaimWorkers ==
  ASSUME IInv, NEW t \in Worker, Claim(t), \A u \in Worker : WorkerOK(u)
  PROVE  \A u \in Worker : WorkerOK(u)'
<1> DEFINE c == conn[t]
           p == IF DurationMode THEN cursor[c] % OrderSize ELSE cursor[c]
           q == cursor[c] + Concurrency
<1>1. TypeOK /\ HandlerTypes /\ PlainTypes
  BY TypeSplit DEF IInv
<1>2. c \in Mine(t) /\ c \in Client
  BY <1>1, Slices DEF Claim, WorkerOK
<1>3. UNCHANGED <<stage, booted>> /\ \A e \in Client \ {c} : cursor'[e] = cursor[e]
  BY <1>1, <1>2 DEF Claim, phaseVars, frameVars, PlainTypes
<1>4. /\ ReturnTo(t) \in {"booted", "resume", "poll"}
      /\ ReturnTo(t) = "booted" => booted[t] < Share(t)
  BY DEF ReturnTo
<1> HIDE DEF p, q
<1>5. ASSUME NEW s, HandleWrite(t, c, p, q, s, ReturnTo(t))
      PROVE  \A u \in Worker : WorkerOK(u)'
  BY <1>1, <1>2, <1>3, <1>4, <1>5, HandleWriteWorkers
<1>6. ASSUME /\ pc' = [pc EXCEPT ![t] = ReturnTo(t)]
             /\ UNCHANGED conn \/ conn' = [conn EXCEPT ![t] = c]
             /\ \A e \in Client \ {c} : state'[e] = state[e]
      PROVE  \A u \in Worker : WorkerOK(u)'
  <2>1. conn'[t] \in Mine(t)
    BY <1>1, <1>2, <1>6 DEF HandlerTypes
  <2> HIDE DEF c
  <2> QED BY <1>1, <1>2, <1>3, <1>4, <1>6, <2>1, ReturnWorkers
<1>7. CASE Await(t, c, "CONNECTING", p, "connecting", ReturnTo(t))
  BY <1>1, <1>2, <1>6, <1>7 DEF Await, HandlerTypes
<1>8. CASE /\ state' = [state EXCEPT ![c] = "RETRY"]
           /\ pc' = [pc EXCEPT ![t] = ReturnTo(t)]
           /\ UNCHANGED conn
  BY <1>1, <1>2, <1>6, <1>8 DEF HandlerTypes
<1> QED BY <1>5, <1>7, <1>8 DEF Claim, OpenConnection, p, q

\* A step that only moves worker t, to a place where nothing is asked of it.
LEMMA MoveWorkers ==
  ASSUME TypeOK, NEW t \in Worker, NEW there,
         \A u \in Worker : WorkerOK(u),
         pc' = [pc EXCEPT ![t] = there],
         there \in {"parked", "boot", "poll", "failed"},
         \A u \in Worker \ {t} : booted'[u] = booted[u],
         booted'[t] \in Nat, booted'[t] <= Share(t),
         UNCHANGED <<stage, conn, state, cursor>>
  PROVE  \A u \in Worker : WorkerOK(u)'
<1>1. HandlerTypes
  BY TypeSplit
<1>2. \A u \in Worker \ {t} : pc'[u] = pc[u]
  BY <1>1 DEF HandlerTypes
<1>3. DurationMode' = DurationMode
  BY DEF DurationMode, StageKind
<1>4. ASSUME NEW u \in Worker \ {t}
      PROVE  WorkerOK(u)'
  <2>1. WorkerOK(u)
    OBVIOUS
  <2> HIDE DEF Mine, Share
  <2> QED BY <1>2, <1>3, <2>1 DEF WorkerOK
<1>5. WorkerOK(t)'
  <2>1. pc'[t] = there
    BY <1>1 DEF HandlerTypes
  <2> HIDE DEF Mine, Share
  <2> QED BY <2>1 DEF WorkerOK
<1> QED BY <1>4, <1>5

\* Every step keeps every worker in order.
LEMMA NextWorkers ==
  ASSUME IInv, [Next]_vars
  PROVE  \A u \in Worker : WorkerOK(u)'
<1>1. /\ TypeOK /\ HandlerTypes /\ PlainTypes
      /\ \A u \in Worker : WorkerOK(u)
  BY TypeSplit, WorkersSplit DEF IInv
<1>2. \A t \in Worker : Share(t) \in Nat /\ \A c \in Mine(t) : c \in Client
  BY Slices
<1>3. \A t \in Worker : booted[t] \in Nat /\ booted[t] <= Share(t)
  BY <1>1 DEF PlainTypes, WorkerOK
<1>4. CASE BeginPhase \/ StopWorkers
  <2>1. booted' = booted /\ \A t \in Worker : pc'[t] \in {"run", "stopped"}
    BY <1>4 DEF BeginPhase, StopWorkers, frameVars
  <2> HIDE DEF Mine, Share
  <2> QED BY <1>3, <2>1 DEF WorkerOK
<1>5. ASSUME UNCHANGED <<stage, pc, conn, booted, state, cursor>>
      PROVE  \A u \in Worker : WorkerOK(u)'
  <2>1. DurationMode' = DurationMode
    BY <1>5 DEF DurationMode, StageKind
  <2> HIDE DEF Mine, Share
  <2> QED BY <1>1, <1>5, <2>1 DEF WorkerOK
<1>6. CASE DeadlinePasses \/ UNCHANGED vars
  BY <1>5, <1>6 DEF DeadlinePasses, vars, phaseVars, frameVars
<1>7. ASSUME NEW c \in Client, Answer(c) \/ PeerCloses(c) \/ RequestExpires(c)
      PROVE  \A u \in Worker : WorkerOK(u)'
  BY <1>5, <1>7 DEF Answer, PeerCloses, RequestExpires, phaseVars, frameVars
<1>8. ASSUME NEW t \in Worker, NEW c \in Mine(t), IdleHangup(t, c)
      PROVE  \A u \in Worker : WorkerOK(u)'
  BY <1>5, <1>8 DEF IdleHangup, phaseVars, frameVars
<1>9. ASSUME NEW t \in Worker, Run(t)
      PROVE  \A u \in Worker : WorkerOK(u)'
  <2>1. booted'[t] = 0 /\ \A u \in Worker \ {t} : booted'[u] = booted[u]
    BY <1>1, <1>9 DEF Run, PlainTypes
  <2>2. pc' = [pc EXCEPT ![t] = "boot"] /\ UNCHANGED <<stage, conn, state, cursor>>
    BY <1>9 DEF Run, phaseVars
  <2> HIDE DEF Share
  <2>3. booted'[t] \in Nat /\ booted'[t] <= Share(t)
    BY <1>2, <2>1
  <2> QED BY <1>1, <2>1, <2>2, <2>3, MoveWorkers
<1>10. ASSUME NEW t \in Worker, BootDone(t) \/ LeaveLoop(t) \/ Throw(t)
       PROVE  \A u \in Worker : WorkerOK(u)'
  <2>1. UNCHANGED <<stage, conn, booted, state, cursor>>
    BY <1>10 DEF BootDone, LeaveLoop, Throw, phaseVars, frameVars
  <2>2. PICK there \in {"parked", "poll", "failed"} : pc' = [pc EXCEPT ![t] = there]
    BY <1>10 DEF BootDone, LeaveLoop, Throw
  <2> HIDE DEF Share
  <2> QED BY <1>1, <1>3, <2>1, <2>2, MoveWorkers
<1>11. ASSUME NEW t \in Worker, Booted(t)
       PROVE  \A u \in Worker : WorkerOK(u)'
  <2>1. booted[t] < Share(t)
    BY <1>1, <1>11 DEF Booted, WorkerOK
  <2>2. booted'[t] = booted[t] + 1 /\ \A u \in Worker \ {t} : booted'[u] = booted[u]
    BY <1>1, <1>11 DEF Booted, PlainTypes
  <2> HIDE DEF Share
  <2>3. booted'[t] \in Nat /\ booted'[t] <= Share(t)
    BY <1>2, <1>3, <2>1, <2>2
  <2> QED BY <1>1, <1>11, <2>2, <2>3, MoveWorkers DEF Booted, phaseVars
<1>12. ASSUME NEW t \in Worker, Boot(t)
       PROVE  \A u \in Worker : WorkerOK(u)'
  <2> DEFINE c == First(t) + booted[t]
  <2>1. c \in Mine(t) /\ c \in Client /\ booted[t] < Share(t)
    BY <1>1, <1>2, <1>12, BootVisitsMine DEF Boot, PlainTypes
  <2> HIDE DEF First, Share
  <2>2. /\ UNCHANGED <<stage, booted, state>>
        /\ \A e \in Client \ {c} : cursor'[e] = cursor[e]
        /\ \A u \in Worker \ {t} : pc'[u] = pc[u] /\ conn'[u] = conn[u]
        /\ conn'[t] = c
        /\ \/ pc'[t] = "enter" /\ state[c] = "IDLE"
           \/ pc'[t] = "failed"
    BY <1>1, <1>12, <2>1 DEF Boot, phaseVars, frameVars, PlainTypes, HandlerTypes
  <2> HIDE DEF c
  <2>3. \A u \in Worker \ {t} : WorkerOK(u)'
    BY <1>1, <2>1, <2>2, OthersKept
  <2>4. WorkerOK(t)'
    BY <1>3, <2>1, <2>2 DEF WorkerOK
  <2> QED BY <2>3, <2>4
<1>13. ASSUME NEW t \in Worker, CheckNext(t)
       PROVE  \A u \in Worker : WorkerOK(u)'
  <2>1. /\ UNCHANGED <<stage, conn, booted, state, cursor>>
        /\ \A u \in Worker \ {t} : pc'[u] = pc[u]
        /\ pc'[t] = "claim"
    BY <1>1, <1>13 DEF CheckNext, phaseVars, frameVars, HandlerTypes
  <2>2. conn[t] \in Mine(t) /\ conn[t] \in Client /\ state[conn[t]] = "IDLE"
    BY <1>1, <1>2, <1>13 DEF CheckNext, WorkerOK
  <2>3. ~DurationMode => cursor[conn[t]] < OrderSize
    BY <1>1, <1>13 DEF CheckNext, HasNext, PhaseMin, DurationMode, PlainTypes
  <2>4. DurationMode' = DurationMode
    BY <2>1 DEF DurationMode, StageKind
  <2>5. \A u \in Worker \ {t} : WorkerOK(u)'
    BY <1>1, <2>1, <2>2, OthersKept
  <2>6. WorkerOK(t)'
    <3> HIDE DEF Mine, Share
    <3> QED BY <1>3, <2>1, <2>2, <2>3, <2>4 DEF WorkerOK
  <2> QED BY <2>5, <2>6
<1>14. ASSUME NEW t \in Worker, CheckRest(t)
       PROVE  \A u \in Worker : WorkerOK(u)'
  <2>1. conn[t] \in Mine(t) /\ conn[t] \in Client /\ state[conn[t]] = "IDLE"
    BY <1>1, <1>2, <1>14 DEF CheckRest, WorkerOK
  <2>2. UNCHANGED <<stage, conn, cursor>> /\ state' = state
    BY <1>1, <1>14, <2>1 DEF CheckRest, phaseVars, HandlerTypes
  <2>3. CASE /\ pc[t] = "enter" /\ pc' = [pc EXCEPT ![t] = "boot"]
             /\ booted' = [booted EXCEPT ![t] = @ + 1]
    <3>1. booted[t] < Share(t)
      BY <1>1, <2>3 DEF WorkerOK
    <3>2. booted'[t] = booted[t] + 1 /\ \A u \in Worker \ {t} : booted'[u] = booted[u]
      BY <1>1, <2>3 DEF PlainTypes
    <3> HIDE DEF Share
    <3>3. booted'[t] \in Nat /\ booted'[t] <= Share(t)
      BY <1>2, <1>3, <3>1, <3>2
    <3> QED BY <1>1, <2>2, <2>3, <3>2, <3>3, MoveWorkers
  <2>4. CASE pc' = [pc EXCEPT ![t] = ReturnTo(t)] /\ booted' = booted
    <3>1. /\ ReturnTo(t) \in {"booted", "resume", "poll"}
          /\ ReturnTo(t) = "booted" => booted[t] < Share(t)
      BY DEF ReturnTo
    <3> QED BY <1>1, <2>1, <2>2, <2>4, <3>1, ReturnWorkers
  <2> QED BY <1>14, <2>3, <2>4 DEF CheckRest
<1>15. ASSUME NEW t \in Worker, Claim(t)
       PROVE  \A u \in Worker : WorkerOK(u)'
  BY <1>1, <1>15, ClaimWorkers
<1>16. ASSUME NEW t \in Worker, Resume(t)
       PROVE  \A u \in Worker : WorkerOK(u)'
  <2>1. conn[t] \in Mine(t) /\ UNCHANGED <<stage, booted, cursor>>
    BY <1>1, <1>16 DEF Resume, WorkerOK, phaseVars
  <2>2. CASE HandleRead(t, conn[t]) \/ FailCurrent(t, conn[t])
    BY <1>1, <2>1, <2>2, HandleReadWorkers, FailCurrentWorkers
  <2>3. CASE pc' = [pc EXCEPT ![t] = "poll"] /\ UNCHANGED <<conn, state>>
    BY <1>1, <1>3, <2>1, <2>3, MoveWorkers
  <2> QED BY <1>16, <2>2, <2>3 DEF Resume
<1>17. ASSUME NEW t \in Worker, NEW c \in Mine(t), RetryDue(t, c)
       PROVE  \A u \in Worker : WorkerOK(u)'
  <2>1. /\ c \in Client /\ UNCHANGED <<stage, booted, cursor>>
        /\ \A u \in Worker \ {t} : pc'[u] = pc[u] /\ conn'[u] = conn[u]
        /\ \A e \in Client \ {c} : state'[e] = state[e]
        /\ pc'[t] = "check" /\ conn'[t] = c /\ state'[c] = "IDLE"
    BY <1>1, <1>2, <1>17 DEF RetryDue, phaseVars, frameVars, HandlerTypes
  <2>2. \A u \in Worker \ {t} : WorkerOK(u)'
    BY <1>1, <2>1, OthersKept
  <2>3. WorkerOK(t)'
    <3> HIDE DEF Mine, Share
    <3> QED BY <1>3, <2>1 DEF WorkerOK
  <2> QED BY <2>2, <2>3
<1>18. ASSUME NEW t \in Worker, NEW c \in Mine(t), Timeout(t, c) \/ WriteHangup(t, c)
       PROVE  \A u \in Worker : WorkerOK(u)'
  BY <1>1, <1>18, FailCurrentWorkers DEF Timeout, WriteHangup, phaseVars, frameVars
<1>19. ASSUME NEW t \in Worker, NEW c \in Mine(t), HandleConnect(t, c) \/ WriteEvent(t, c)
       PROVE  \A u \in Worker : WorkerOK(u)'
  <2>1. UNCHANGED <<stage, booted, cursor>>
    BY <1>19 DEF HandleConnect, WriteEvent, phaseVars, frameVars
  <2>2. CASE HandleConnect(t, c)
    BY <1>1, <2>1, <2>2, FailCurrentWorkers, HandleWriteWorkers DEF HandleConnect
  <2>3. CASE WriteEvent(t, c)
    BY <1>1, <2>1, <2>3, HandleWriteWorkers DEF WriteEvent
  <2> QED BY <1>19, <2>2, <2>3
<1>20. ASSUME NEW t \in Worker, NEW c \in Mine(t), ReadEvent(t, c)
       PROVE  \A u \in Worker : WorkerOK(u)'
  BY <1>1, <1>20, HandleReadWorkers DEF ReadEvent, phaseVars, frameVars
<1>21. ASSUME NEW t \in Worker, WorkerStep(t) \/ Throw(t)
       PROVE  \A u \in Worker : WorkerOK(u)'
  <2> HIDE DEF Mine
  <2> QED BY <1>8, <1>9, <1>10, <1>11, <1>12, <1>13, <1>14, <1>15, <1>16, <1>17, <1>18,
             <1>19, <1>20, <1>21 DEF WorkerStep
<1> QED BY <1>4, <1>6, <1>7, <1>21 DEF Next, Coordinator, Environment, Ended

-----------------------------------------------------------------------------
(* The theorems.                                                           *)

\* The invariant is inductive.
LEMMA Inductive == IInv /\ [Next]_vars => IInv'
<1> SUFFICES ASSUME IInv, [Next]_vars PROVE IInv'
  OBVIOUS
<1>1. TypeOK' /\ (\A d \in Client : ClientOK(d)')
  BY NextTypes, NextClients
<1>2. \A t \in Worker : WorkerOK(t)'
  BY NextWorkers
<1>3. Owned' /\ Resting'
  BY <1>2 DEF WorkerOK, Owned, Resting
<1> QED BY <1>1, <1>3 DEF IInv

\* Every state the driver reaches satisfies the inductive invariant.
THEOREM Invariance == Spec => []IInv
<1>1. Init => IInv
  BY InitIInv
<1>2. IInv /\ [Next]_vars => IInv'
  BY Inductive
<1> QED BY <1>1, <1>2, PTL DEF Spec

\* The variables of the event loops keep their types, for every number of
\* threads, connections and records.
THEOREM TypeCorrect == Spec => []TypeOK
<1>1. IInv => TypeOK
  BY DEF IInv
<1> QED BY <1>1, Invariance, PTL

\* complete_response never credits an answer to a request it does not belong
\* to: a socket carries its connection's current request and nothing else.
THEOREM AnswersMatch == Spec => []AnswerMatchesRequest
<1>1. IInv => AnswerMatchesRequest
  BY DEF IInv, ClientOK, AnswerMatchesRequest
<1> QED BY <1>1, Invariance, PTL

-----------------------------------------------------------------------------
(* How far the threads overshoot the cap.                                  *)

\* The workers between has_next and the fetch_add of Phase::started.
Claiming == {t \in Worker : pc[t] = "claim"}

\* Each of them will start one more request.
CapInv == PhaseMax > 0 => started + Cardinality(Claiming) <= PhaseMax + Threads - 1

\* There are Threads workers.
LEMMA WorkerCount == IsFiniteSet(Worker) /\ Cardinality(Worker) = Threads
<1>1. Threads \in Nat
  BY ConfigAssumption
<1> QED BY <1>1, FS_Interval DEF Worker

\* So at most Threads of them are there.
LEMMA ClaimingSize ==
  /\ IsFiniteSet(Worker) /\ IsFiniteSet(Claiming)
  /\ Cardinality(Claiming) \in Nat /\ Cardinality(Claiming) <= Threads
<1>1. Claiming \subseteq Worker
  BY DEF Claiming
<1> QED BY <1>1, WorkerCount, FS_Subset, FS_CardinalityType

\* Outside of the four actions that concern the tally, nothing does.
LEMMA OtherStepsKeepTally ==
  ASSUME TypeOK, [Next]_vars, ~BeginPhase, ~StopWorkers,
         \A t \in Worker : ~CheckNext(t) /\ ~Claim(t)
  PROVE  UNCHANGED <<stage, started>> /\ Claiming' \subseteq Claiming
<1>1. HandlerTypes
  BY TypeSplit
<1>2. ASSUME NEW t \in Worker, NEW there, there # "claim", pc' = [pc EXCEPT ![t] = there]
      PROVE  Claiming' \subseteq Claiming
  BY <1>1, <1>2 DEF HandlerTypes, Claiming
<1>3. ASSUME UNCHANGED pc
      PROVE  Claiming' \subseteq Claiming
  BY <1>3 DEF Claiming
<1>4. ASSUME NEW t \in Worker, NEW c, FailCurrent(t, c)
      PROVE  Claiming' \subseteq Claiming
  BY <1>2, <1>4 DEF FailCurrent, FinishCurrent
<1>5. ASSUME NEW t \in Worker, NEW c, NEW p, NEW q, NEW s, NEW next, next # "claim",
             HandleWrite(t, c, p, q, s, next)
      PROVE  Claiming' \subseteq Claiming
  BY <1>2, <1>4, <1>5 DEF HandleWrite, Await
<1>6. ASSUME NEW t \in Worker, NEW c, HandleRead(t, c)
      PROVE  Claiming' \subseteq Claiming
  BY <1>2, <1>4, <1>6 DEF HandleRead, CompleteResponse, FinishCurrent
<1>7. ASSUME NEW t \in Worker,
             Run(t) \/ Boot(t) \/ BootDone(t) \/ CheckRest(t) \/ Booted(t) \/ LeaveLoop(t) \/ Throw(t)
      PROVE  UNCHANGED <<stage, started>> /\ Claiming' \subseteq Claiming
  <2>1. UNCHANGED <<stage, started>>
    BY <1>7 DEF Run, Boot, BootDone, CheckRest, Booted, LeaveLoop, Throw, phaseVars
  <2>2. \E there \in {"boot", "enter", "failed", "parked", "poll", "booted", "resume"} :
          pc' = [pc EXCEPT ![t] = there]
    BY <1>7 DEF Run, Boot, BootDone, CheckRest, Booted, LeaveLoop, Throw, ReturnTo
  <2> QED BY <1>2, <2>1, <2>2
<1>8. ASSUME NEW t \in Worker, Resume(t)
      PROVE  UNCHANGED <<stage, started>> /\ Claiming' \subseteq Claiming
  BY <1>2, <1>4, <1>6, <1>8 DEF Resume, phaseVars
<1>9. ASSUME NEW t \in Worker, NEW c \in Mine(t),
             \/ IdleHangup(t, c) \/ RetryDue(t, c) \/ Timeout(t, c) \/ WriteHangup(t, c)
             \/ ReadEvent(t, c)
      PROVE  UNCHANGED <<stage, started>> /\ Claiming' \subseteq Claiming
  BY <1>2, <1>3, <1>4, <1>6, <1>9
  DEF IdleHangup, RetryDue, Timeout, WriteHangup, ReadEvent, phaseVars
<1>10. ASSUME NEW t \in Worker, NEW c \in Mine(t), HandleConnect(t, c) \/ WriteEvent(t, c)
       PROVE  UNCHANGED <<stage, started>> /\ Claiming' \subseteq Claiming
  BY <1>4, <1>5, <1>10 DEF HandleConnect, WriteEvent, phaseVars
<1>11. CASE Environment \/ UNCHANGED vars
  BY <1>3, <1>11 DEF Environment, Answer, PeerCloses, RequestExpires, DeadlinePasses,
                     phaseVars, vars
<1>12. ASSUME NEW t \in Worker, WorkerStep(t) \/ Throw(t)
       PROVE  UNCHANGED <<stage, started>> /\ Claiming' \subseteq Claiming
  <2> HIDE DEF Mine
  <2> QED BY <1>7, <1>8, <1>9, <1>10, <1>12 DEF WorkerStep
<1> QED BY <1>11, <1>12 DEF Next, Coordinator, Ended

\* The bound on the overshoot is inductive.
LEMMA CapInductive == TypeOK /\ CapInv /\ [Next]_vars => CapInv'
<1> SUFFICES ASSUME TypeOK, CapInv, [Next]_vars PROVE CapInv'
  OBVIOUS
<1>1. HandlerTypes /\ PlainTypes
  BY TypeSplit
<1>2. /\ Threads \in Nat \ {0} /\ PhaseMax \in Nat /\ PhaseMax' \in Nat /\ started \in Nat
  BY <1>1, ConfigAssumption DEF PhaseMax, PlainTypes
<1>3. /\ IsFiniteSet(Claiming) /\ Cardinality(Claiming) \in Nat /\ Cardinality(Claiming) <= Threads
  BY ClaimingSize
<1>4. /\ IsFiniteSet(Claiming)' /\ Cardinality(Claiming)' \in Nat /\ Cardinality(Claiming)' <= Threads
  <2>1. Claiming' \subseteq Worker
    BY DEF Claiming
  <2>2. IsFiniteSet(Worker) /\ Cardinality(Worker) = Threads
    BY WorkerCount
  <2> QED BY <2>1, <2>2, FS_Subset, FS_CardinalityType
<1>5. CASE BeginPhase
  <2>1. started' = 0 /\ Claiming' = {}
    BY <1>5 DEF BeginPhase, Claiming
  <2>2. Cardinality(Claiming)' = 0
    BY <2>1, FS_EmptySet
  <2> QED BY <1>2, <2>1, <2>2 DEF CapInv
<1>6. CASE StopWorkers
  <2>1. /\ UNCHANGED <<stage, started>>
        /\ Claiming' = {}
    BY <1>6 DEF StopWorkers, Claiming
  <2>2. Cardinality(Claiming)' = 0 /\ PhaseMax' = PhaseMax
    BY <2>1, FS_EmptySet DEF PhaseMax, StageKind
  <2> QED BY <1>2, <1>3, <2>1, <2>2 DEF CapInv
<1>7. ASSUME NEW t \in Worker, CheckNext(t)
      PROVE  CapInv'
  <2>1. UNCHANGED <<stage, started>> /\ (PhaseMax = 0 \/ started < PhaseMax)
    BY <1>7 DEF CheckNext, HasNext, phaseVars
  <2>2. PhaseMax' = PhaseMax
    BY <2>1 DEF PhaseMax, StageKind
  <2> QED BY <1>2, <1>4, <2>1, <2>2 DEF CapInv
<1>8. ASSUME NEW t \in Worker, Claim(t)
      PROVE  CapInv'
  <2>1. stage' = stage /\ started' = started + 1 /\ t \in Claiming
    BY <1>8 DEF Claim, Claiming, phaseVars
  <2>2. \E there \in {"check", "booted", "resume", "poll"} : pc' = [pc EXCEPT ![t] = there]
    BY <1>8 DEF Claim, OpenConnection, HandleWrite, FailCurrent, FinishCurrent, Await, ReturnTo
  <2>3. Claiming' = Claiming \ {t}
    BY <1>1, <2>1, <2>2 DEF HandlerTypes, Claiming
  <2>4. Cardinality(Claiming)' = Cardinality(Claiming) - 1
    BY <1>3, <2>1, <2>3, FS_RemoveElement
  <2>5. PhaseMax' = PhaseMax
    BY <2>1 DEF PhaseMax, StageKind
  <2> QED BY <1>2, <1>3, <2>1, <2>4, <2>5 DEF CapInv
<1>9. CASE /\ ~BeginPhase /\ ~StopWorkers
           /\ \A t \in Worker : ~CheckNext(t) /\ ~Claim(t)
  <2>1. UNCHANGED <<stage, started>> /\ Claiming' \subseteq Claiming
    BY <1>9, OtherStepsKeepTally
  <2>2. PhaseMax' = PhaseMax
    BY <2>1 DEF PhaseMax, StageKind
  <2>3. Cardinality(Claiming)' <= Cardinality(Claiming)
    BY <1>3, <2>1, FS_Subset
  <2> QED BY <1>2, <1>3, <1>4, <2>1, <2>2, <2>3 DEF CapInv
<1> QED BY <1>5, <1>6, <1>7, <1>8, <1>9

\* It holds in every state the driver reaches.
LEMMA CapBounded == Spec => []CapInv
<1>1. Init => CapInv
  <2> SUFFICES ASSUME Init PROVE CapInv
    OBVIOUS
  <2>1. Claiming = {} /\ started = 0
    BY DEF Init, Claiming
  <2>2. Cardinality(Claiming) = 0
    BY <2>1, FS_EmptySet
  <2>3. Threads \in Nat \ {0} /\ PhaseMax \in Nat
    BY ConfigAssumption DEF PhaseMax
  <2> QED BY <2>1, <2>2, <2>3 DEF CapInv
<1>2. TypeOK /\ CapInv /\ [Next]_vars => CapInv'
  BY CapInductive
<1> QED BY <1>1, <1>2, TypeCorrect, PTL DEF Spec

\* A cap is overshot by less than one request per thread, whatever the number
\* of connections and however the threads interleave.
THEOREM CapOvershoot == Spec => []CapOvershootBounded
<1>1. TypeOK /\ CapInv => CapOvershootBounded
  <2> SUFFICES ASSUME TypeOK, CapInv, PhaseMax > 0
               PROVE  started <= PhaseMax + Threads - 1
    BY DEF CapOvershootBounded
  <2>1. Cardinality(Claiming) \in Nat /\ Threads \in Nat /\ PhaseMax \in Nat /\ started \in Nat
    BY ClaimingSize, ConfigAssumption DEF PhaseMax, TypeOK
  <2> QED BY <2>1 DEF CapInv
<1> QED BY <1>1, CapBounded, TypeCorrect, PTL

\* With one thread a capped phase lands on its cap and never overshoots it.
THEOREM SingleThreadCap == Threads = 1 => (Spec => []CapExact)
<1> SUFFICES ASSUME Threads = 1 PROVE Spec => []CapExact
  OBVIOUS
<1>1. TypeOK /\ CapOvershootBounded => CapExact
  <2> SUFFICES ASSUME TypeOK, CapOvershootBounded, PhaseMax > 0
               PROVE  started <= PhaseMax
    BY DEF CapExact
  <2>1. PhaseMax \in Nat /\ started \in Nat
    BY ConfigAssumption DEF PhaseMax, TypeOK
  <2> QED BY <2>1 DEF CapOvershootBounded
<1> QED BY <1>1, CapOvershoot, TypeCorrect, PTL

-----------------------------------------------------------------------------
(* What the steps of a worker come to, for the invariants below.           *)

\* A handler ends its request and leaves the connection at rest, its worker about
\* to ask has_next.
Ends(t, c) ==
  /\ pc' = [pc EXCEPT ![t] = "check"]
  /\ conn' = [conn EXCEPT ![t] = c]
  /\ state' = [state EXCEPT ![c] = "IDLE"]
  /\ \A d \in Client \ {c} : record'[d] = record[d]

\* A handler leaves the connection waiting, with record p or to retry.
Waits(t, c, p, next) ==
  /\ pc' = [pc EXCEPT ![t] = next]
  /\ conn' = [conn EXCEPT ![t] = c]
  /\ \E s \in InFlight \union {"RETRY"} :
       state' = [state EXCEPT ![c] = s] /\ (s \in InFlight => record'[c] = p)
  /\ \A d \in Client \ {c} : record'[d] = record[d]

\* fail_current, handle_write and handle_read do one or the other.
LEMMA HandlerShapes ==
  ASSUME TypeOK, NEW t \in Worker, NEW c \in Client
  PROVE  /\ FailCurrent(t, c) => Ends(t, c)
         /\ HandleRead(t, c) => Ends(t, c)
         /\ \A p, q, s, next : HandleWrite(t, c, p, q, s, next) =>
              Ends(t, c) \/ Waits(t, c, p, next)
<1>1. HandlerTypes
  BY TypeSplit
<1>2. FinishCurrent(t, c) => Ends(t, c)
  BY <1>1 DEF FinishCurrent, Ends, HandlerTypes
<1>3. FailCurrent(t, c) => Ends(t, c)
  BY <1>2 DEF FailCurrent
<1>4. HandleRead(t, c) => Ends(t, c)
  BY <1>2, <1>3 DEF HandleRead, CompleteResponse
<1>5. ASSUME NEW p, NEW s, NEW next, NEW st \in InFlight, Await(t, c, st, p, s, next)
      PROVE  Waits(t, c, p, next)
  BY <1>1, <1>5 DEF Await, Waits, HandlerTypes
<1>6. ASSUME NEW p, NEW q, NEW s, NEW next, HandleWrite(t, c, p, q, s, next)
      PROVE  Ends(t, c) \/ Waits(t, c, p, next)
  BY <1>3, <1>5, <1>6 DEF HandleWrite, InFlight
<1> QED BY <1>3, <1>4, <1>6

\* The record that a position of the order, counted on, stands for.
RecordAt(n) == IF DurationMode THEN n % OrderSize ELSE n

\* assign_and_start ends, fails or starts the request on its connection.
LEMMA ClaimShapes ==
  ASSUME TypeOK, NEW t \in Worker, Claim(t)
  PROVE  \/ Ends(t, conn[t])
         \/ Waits(t, conn[t], RecordAt(cursor[conn[t]]), ReturnTo(t))
<1>1. HandlerTypes /\ conn[t] \in Client
  BY TypeSplit DEF HandlerTypes
<1> DEFINE c == conn[t]
           p == IF DurationMode THEN cursor[c] % OrderSize ELSE cursor[c]
           q == cursor[c] + Concurrency
<1>2. p = RecordAt(cursor[c])
  BY DEF RecordAt
<1>3. ASSUME NEW s, HandleWrite(t, c, p, q, s, ReturnTo(t))
      PROVE  Ends(t, c) \/ Waits(t, c, p, ReturnTo(t))
  BY <1>1, <1>3, HandlerShapes
<1>4. ASSUME Await(t, c, "CONNECTING", p, "connecting", ReturnTo(t))
      PROVE  Waits(t, c, p, ReturnTo(t))
  BY <1>1, <1>4 DEF Await, Waits, HandlerTypes, InFlight
<1>5. ASSUME state' = [state EXCEPT ![c] = "RETRY"], record' = [record EXCEPT ![c] = NoRecord],
             pc' = [pc EXCEPT ![t] = ReturnTo(t)], UNCHANGED conn
      PROVE  Waits(t, c, p, ReturnTo(t))
  <2>1. "RETRY" \notin InFlight
    BY DEF InFlight
  <2>2. conn' = [conn EXCEPT ![t] = c]
    BY <1>1, <1>5 DEF HandlerTypes
  <2>3. \A d \in Client \ {c} : record'[d] = record[d]
    BY <1>1, <1>5 DEF HandlerTypes
  <2> QED BY <1>5, <2>1, <2>2, <2>3 DEF Waits
<1> QED BY <1>2, <1>3, <1>4, <1>5 DEF Claim, OpenConnection

-----------------------------------------------------------------------------
(* What active_ counts.                                                    *)

\* A worker's connections that are not at rest.
Busied(t) == {c \in Mine(t) : state[c] # "IDLE"}

\* run() is still in its first loop.
Booting(t) == booted[t] < Share(t)

\* active_ counts them, but for the connection in hand: run() counts it in once
\* assign_and_start returned, so the count is one short while its loop does
\* ("booted", where it may be below zero); the event loop counts it out once
\* has_next refused it, so the count is one over while assign_and_start asks.
\* All of them rest at the barriers.
Counted(t) ==
  /\ pc[t] \in {"parked", "run"} => Busied(t) = {}
  /\ pc[t] \in {"boot", "enter", "poll", "resume"} => active[t] = Cardinality(Busied(t))
  /\ pc[t] \in {"check", "claim"} =>
       active[t] = Cardinality(Busied(t)) + (IF Booting(t) THEN 0 ELSE 1)
  /\ pc[t] = "booted" =>
       active[t] = IF Busied(t) = {} THEN WordSize - 1 ELSE Cardinality(Busied(t)) - 1
  /\ pc[t] \in {"poll", "resume"} => ~Booting(t)
  /\ pc[t] = "parked" /\ stage > 0 => ~Booting(t)

\* The size of a worker's busy set fits a machine word, with room for one more.
LEMMA BusiedSize ==
  ASSUME NEW t \in Worker
  PROVE  /\ IsFiniteSet(Busied(t)) /\ Cardinality(Busied(t)) \in Nat
         /\ Cardinality(Busied(t)) < WordSize
         /\ Cardinality(Busied(t)) = 0 <=> Busied(t) = {}
         /\ \A c \in Mine(t) \ Busied(t) : Cardinality(Busied(t)) + 1 < WordSize
<1>1. Concurrency \in Nat /\ WordSize \in Nat /\ WordSize > Concurrency
  BY ConfigAssumption
<1>2. IsFiniteSet(Client) /\ Cardinality(Client) = Concurrency
  BY <1>1, FS_Interval DEF Client
<1>3. Busied(t) \subseteq Client /\ Mine(t) \subseteq Client
  BY Slices DEF Busied
<1>4. /\ IsFiniteSet(Busied(t)) /\ Cardinality(Busied(t)) \in Nat
      /\ Cardinality(Busied(t)) <= Concurrency
  BY <1>2, <1>3, FS_Subset, FS_CardinalityType
<1>5. Cardinality(Busied(t)) = 0 <=> Busied(t) = {}
  BY <1>4, FS_EmptySet
<1>6. ASSUME NEW c \in Mine(t) \ Busied(t)
      PROVE  Cardinality(Busied(t)) + 1 <= Concurrency
  <2>1. /\ IsFiniteSet(Busied(t) \union {c})
        /\ Cardinality(Busied(t) \union {c}) = Cardinality(Busied(t)) + 1
    BY <1>4, FS_AddElement
  <2>2. Busied(t) \union {c} \subseteq Client
    BY <1>3
  <2> QED BY <1>2, <2>1, <2>2, FS_Subset
<1> QED BY <1>1, <1>4, <1>5, <1>6

\* What the wrapping arithmetic of active_ comes to.
LEMMA WrapValues ==
  /\ \A n \in 0 .. WordSize - 1 : Wrap(n) = n
  /\ Wrap(-1) = WordSize - 1
  /\ Wrap(WordSize - 1 + 1) = 0
<1>1. WordSize \in Nat /\ WordSize > 0
  BY ConfigAssumption
<1>2. \A n \in 0 .. WordSize - 1 : n % WordSize = n
  BY <1>1
<1>3. (-1) % WordSize = WordSize - 1
  BY <1>1
<1>4. (WordSize - 1 + 1) % WordSize = 0
  BY <1>1
<1> QED BY <1>2, <1>3, <1>4 DEF Wrap

\* A worker's count is its own business.
LEMMA OthersCounted ==
  ASSUME TypeOK, NEW t \in Worker, NEW c \in Mine(t), NEW u \in Worker \ {t}, Counted(u),
         pc'[u] = pc[u], booted'[u] = booted[u], active'[u] = active[u],
         \A e \in Client \ {c} : state'[e] = state[e], stage' = stage
  PROVE  Counted(u)'
<1>1. Mine(t) \cap Mine(u) = {} /\ Mine(u) \subseteq Client
  BY Slices
<1> HIDE DEF Mine, Share
<1>2. Busied(u)' = Busied(u)
  BY <1>1 DEF Busied
<1>3. Booting(u)' = Booting(u)
  BY DEF Booting
<1> HIDE DEF Busied, Booting
<1> QED BY <1>2, <1>3 DEF Counted

\* A handler that ends a request takes its connection out of the busy ones.
LEMMA EndsCounted ==
  ASSUME TypeOK, NEW t \in Worker, NEW c \in Mine(t), Ends(t, c),
         UNCHANGED <<stage, booted, active>>,
         \A u \in Worker : Counted(u),
         \/ state[c] # "IDLE" /\ pc[t] \in {"poll", "resume"}
         \/ state[c] = "IDLE" /\ pc[t] = "claim"
  PROVE  \A u \in Worker : Counted(u)'
<1>1. HandlerTypes /\ PlainTypes /\ c \in Client
  BY TypeSplit, Slices
<1>2. /\ pc'[t] = "check" /\ state'[c] = "IDLE"
      /\ \A u \in Worker \ {t} : pc'[u] = pc[u]
      /\ \A e \in Client \ {c} : state'[e] = state[e]
  BY <1>1 DEF Ends, HandlerTypes
<1>3. \A u \in Worker \ {t} : Counted(u)'
  BY <1>2, OthersCounted
<1>4. Mine(t) \subseteq Client
  BY Slices
<1>5. IsFiniteSet(Busied(t)) /\ Cardinality(Busied(t)) \in Nat
  BY BusiedSize
<1> HIDE DEF Mine, Share
<1>6. Booting(t)' = Booting(t)
  BY DEF Booting
<1>7. CASE state[c] # "IDLE" /\ pc[t] \in {"poll", "resume"}
  <2>1. c \in Busied(t) /\ Busied(t)' = Busied(t) \ {c}
    BY <1>2, <1>4, <1>7 DEF Busied
  <2>2. Cardinality(Busied(t)') = Cardinality(Busied(t)) - 1
    BY <1>5, <2>1, FS_RemoveElement
  <2>3. active[t] = Cardinality(Busied(t)) /\ ~Booting(t)
    BY <1>7 DEF Counted
  <2>4. active'[t] = Cardinality(Busied(t)') + 1
    BY <1>5, <2>2, <2>3
  <2> QED BY <1>2, <1>3, <1>6, <2>3, <2>4 DEF Counted
<1>8. CASE state[c] = "IDLE" /\ pc[t] = "claim"
  <2>1. Busied(t)' = Busied(t)
    BY <1>2, <1>4, <1>8 DEF Busied
  <2>2. active'[t] = active[t]
    OBVIOUS
  <2>3. Counted(t)
    OBVIOUS
  <2> QED BY <1>2, <1>3, <1>6, <1>8, <2>1, <2>2, <2>3 DEF Counted
<1> QED BY <1>7, <1>8

\* A handler that leaves its connection waiting keeps it among the busy ones,
\* or puts it there.
LEMMA WaitsCounted ==
  ASSUME TypeOK, NEW t \in Worker, NEW c \in Mine(t), NEW p, NEW next, Waits(t, c, p, next),
         UNCHANGED <<stage, booted, active>>,
         \A u \in Worker : Counted(u),
         \/ state[c] # "IDLE" /\ pc[t] = "poll" /\ next \in {"poll", "resume"}
         \/ state[c] = "IDLE" /\ pc[t] = "claim" /\ next = ReturnTo(t)
  PROVE  \A u \in Worker : Counted(u)'
<1>1. HandlerTypes /\ PlainTypes /\ c \in Client
  BY TypeSplit, Slices
<1>2. /\ pc'[t] = next /\ state'[c] # "IDLE"
      /\ \A u \in Worker \ {t} : pc'[u] = pc[u]
      /\ \A e \in Client \ {c} : state'[e] = state[e]
  BY <1>1 DEF Waits, HandlerTypes, InFlight
<1>3. \A u \in Worker \ {t} : Counted(u)'
  BY <1>2, OthersCounted
<1>4. Mine(t) \subseteq Client
  BY Slices
<1>5. IsFiniteSet(Busied(t)) /\ Cardinality(Busied(t)) \in Nat
  BY BusiedSize
<1>6. ReturnTo(t) \in {"booted", "resume", "poll"} /\ (ReturnTo(t) = "booted" <=> Booting(t))
  BY DEF ReturnTo, Booting
<1> HIDE DEF Mine, Share
<1>7. Booting(t)' = Booting(t)
  BY DEF Booting
<1>8. CASE state[c] # "IDLE" /\ pc[t] = "poll" /\ next \in {"poll", "resume"}
  <2>1. Busied(t)' = Busied(t)
    BY <1>2, <1>4, <1>8 DEF Busied
  <2>2. active[t] = Cardinality(Busied(t)) /\ ~Booting(t)
    BY <1>8 DEF Counted
  <2> QED BY <1>2, <1>3, <1>7, <1>8, <2>1, <2>2 DEF Counted
<1>9. CASE state[c] = "IDLE" /\ pc[t] = "claim" /\ next = ReturnTo(t)
  <2>1. c \notin Busied(t) /\ Busied(t)' = Busied(t) \union {c}
    BY <1>2, <1>4, <1>9 DEF Busied
  <2>2. Cardinality(Busied(t)') = Cardinality(Busied(t)) + 1 /\ Busied(t)' # {}
    BY <1>5, <2>1, FS_AddElement
  <2>3. active'[t] = Cardinality(Busied(t)) + (IF Booting(t) THEN 0 ELSE 1)
    BY <1>9 DEF Counted
  <2>4. CASE Booting(t)
    <3>1. active'[t] = Cardinality(Busied(t)') - 1 /\ pc'[t] = "booted"
      BY <1>2, <1>5, <1>6, <1>9, <2>2, <2>3, <2>4
    <3>2. Counted(t)'
      BY <1>7, <2>2, <3>1 DEF Counted
    <3> QED BY <1>3, <3>2
  <2>5. CASE ~Booting(t)
    <3>1. active'[t] = Cardinality(Busied(t)') /\ pc'[t] \in {"resume", "poll"}
      BY <1>2, <1>5, <1>6, <1>9, <2>2, <2>3, <2>5
    <3>2. Counted(t)'
      BY <1>7, <2>5, <3>1 DEF Counted
    <3> QED BY <1>3, <3>2
  <2> QED BY <2>4, <2>5
<1> QED BY <1>8, <1>9

\* A step of a worker that leaves the connections' states alone.
LEMMA QuietCounted ==
  ASSUME TypeOK, NEW t \in Worker, UNCHANGED <<stage, state>>,
         \A u \in Worker \ {t} :
           pc'[u] = pc[u] /\ booted'[u] = booted[u] /\ active'[u] = active[u],
         \A u \in Worker : Counted(u), Counted(t)'
  PROVE  \A u \in Worker : Counted(u)'
<1> SUFFICES ASSUME NEW u \in Worker \ {t} PROVE Counted(u)'
  OBVIOUS
<1> HIDE DEF Mine, Share
<1>1. Busied(u)' = Busied(u) /\ Booting(u)' = Booting(u)
  BY DEF Busied, Booting
<1> HIDE DEF Busied, Booting
<1> QED BY <1>1 DEF Counted

\* Every step keeps the counts.
LEMMA NextCounted ==
  ASSUME IInv, \A u \in Worker : Counted(u), [Next]_vars
  PROVE  \A u \in Worker : Counted(u)'
<1>1. TypeOK /\ HandlerTypes /\ PlainTypes /\ (\A u \in Worker : WorkerOK(u))
  BY TypeSplit, WorkersSplit DEF IInv
<1>2. \A t \in Worker : Share(t) \in Nat /\ Mine(t) \subseteq Client
  BY Slices
<1>3. \A t \in Worker : Cardinality(Busied(t)) \in Nat /\ Cardinality(Busied(t)) < WordSize
                        /\ (Cardinality(Busied(t)) = 0 <=> Busied(t) = {})
  BY BusiedSize
<1>4. WordSize \in Nat /\ WordSize > 0
  BY ConfigAssumption
<1> HIDE DEF Mine, Share
<1>5. ASSUME UNCHANGED <<stage, state, pc, booted, active>>
      PROVE  \A u \in Worker : Counted(u)'
  BY <1>5 DEF Counted, Busied, Booting
<1>6. CASE BeginPhase
  <2>1. \A u \in Worker : pc'[u] = "run" /\ Busied(u)' = Busied(u) /\ Busied(u) = {}
    BY <1>6 DEF BeginPhase, Counted, Busied
  <2> QED BY <2>1 DEF Counted
<1>7. CASE StopWorkers
  <2>1. \A u \in Worker : pc'[u] = "stopped"
    BY <1>7 DEF StopWorkers
  <2> QED BY <2>1 DEF Counted
<1>8. CASE Environment \/ UNCHANGED vars
  BY <1>5, <1>8 DEF Environment, Answer, PeerCloses, RequestExpires, DeadlinePasses, vars,
                    phaseVars, frameVars
<1>9. ASSUME NEW t \in Worker, Run(t)
      PROVE  \A u \in Worker : Counted(u)'
  <2>1. /\ UNCHANGED <<stage, state>> /\ pc[t] = "run" /\ pc'[t] = "boot" /\ active'[t] = 0
        /\ \A u \in Worker \ {t} : pc'[u] = pc[u] /\ booted'[u] = booted[u] /\ active'[u] = active[u]
    BY <1>1, <1>9 DEF Run, phaseVars, HandlerTypes, PlainTypes
  <2>2. Busied(t) = {} /\ Busied(t)' = Busied(t)
    BY <2>1 DEF Counted, Busied
  <2>3. active'[t] = Cardinality(Busied(t)')
    BY <1>3, <2>1, <2>2
  <2>4. Counted(t)'
    BY <2>1, <2>3 DEF Counted
  <2> QED BY <1>1, <2>1, <2>4, QuietCounted
<1>10. ASSUME NEW t \in Worker, NEW there \in {"enter", "failed"}, pc[t] = "boot",
              pc' = [pc EXCEPT ![t] = there], UNCHANGED <<stage, state, booted, active>>
       PROVE  \A u \in Worker : Counted(u)'
  <2>1. pc'[t] = there /\ \A u \in Worker \ {t} : pc'[u] = pc[u]
    BY <1>1, <1>10 DEF HandlerTypes
  <2>2. Counted(t)'
    BY <1>10, <2>1 DEF Counted, Busied
  <2> QED BY <1>1, <1>10, <2>1, <2>2, QuietCounted
<1>11. ASSUME NEW t \in Worker, Boot(t)
       PROVE  \A u \in Worker : Counted(u)'
  BY <1>10, <1>11 DEF Boot, phaseVars, frameVars
<1>12. ASSUME NEW t \in Worker, BootDone(t)
       PROVE  \A u \in Worker : Counted(u)'
  <2>1. /\ UNCHANGED <<stage, state, booted, active>>
        /\ pc[t] = "boot" /\ pc'[t] = IF active[t] = 0 THEN "parked" ELSE "poll"
        /\ \A u \in Worker \ {t} : pc'[u] = pc[u]
    BY <1>1, <1>12 DEF BootDone, phaseVars, frameVars, HandlerTypes
  <2>2. ~Booting(t) /\ ~Booting(t)'
    BY <1>2, <1>12, <2>1 DEF BootDone, Booting
  <2>3. active[t] = Cardinality(Busied(t)) /\ Busied(t)' = Busied(t)
    BY <2>1 DEF Counted, Busied
  <2>4. active[t] = 0 => Busied(t) = {}
    BY <1>3, <2>3
  <2>5. Counted(t)'
    BY <2>1, <2>2, <2>3, <2>4 DEF Counted
  <2> QED BY <1>1, <2>1, <2>5, QuietCounted
<1>13. ASSUME NEW t \in Worker, CheckNext(t)
       PROVE  \A u \in Worker : Counted(u)'
  <2>1. /\ UNCHANGED <<stage, state, booted, active>>
        /\ pc[t] \in {"enter", "check"} /\ pc'[t] = "claim"
        /\ \A u \in Worker \ {t} : pc'[u] = pc[u]
    BY <1>1, <1>13 DEF CheckNext, phaseVars, frameVars, HandlerTypes
  <2>2. Busied(t)' = Busied(t) /\ Booting(t)' = Booting(t)
    BY <2>1 DEF Busied, Booting
  <2>3. pc[t] = "enter" => Booting(t)
    BY <1>1 DEF WorkerOK, Booting
  <2>4. active'[t] = Cardinality(Busied(t)') + (IF Booting(t)' THEN 0 ELSE 1)
    BY <1>3, <2>1, <2>2, <2>3 DEF Counted
  <2>5. Counted(t)'
    BY <2>1, <2>4 DEF Counted
  <2> QED BY <1>1, <2>1, <2>5, QuietCounted
<1>14. ASSUME NEW t \in Worker, CheckRest(t)
       PROVE  \A u \in Worker : Counted(u)'
  <2>1. state[conn[t]] = "IDLE" /\ conn[t] \in Client
    BY <1>1, <1>2, <1>14 DEF CheckRest, WorkerOK
  <2>2. UNCHANGED <<stage, state>>
    BY <1>1, <1>14, <2>1 DEF CheckRest, phaseVars, HandlerTypes
  <2>3. Busied(t)' = Busied(t)
    BY <2>2 DEF Busied
  <2>4. CASE /\ pc[t] = "enter" /\ pc' = [pc EXCEPT ![t] = "boot"]
             /\ booted' = [booted EXCEPT ![t] = @ + 1] /\ UNCHANGED active
    <3>1. /\ pc'[t] = "boot"
          /\ \A u \in Worker \ {t} : pc'[u] = pc[u] /\ booted'[u] = booted[u]
      BY <1>1, <2>4 DEF HandlerTypes, PlainTypes
    <3>2. Counted(t)'
      BY <2>3, <2>4, <3>1 DEF Counted
    <3> QED BY <1>1, <2>2, <2>4, <3>1, <3>2, QuietCounted
  <2>5. CASE /\ pc[t] = "check" /\ pc' = [pc EXCEPT ![t] = ReturnTo(t)]
             /\ active' = [active EXCEPT ![t] = Wrap(@ - 1)] /\ UNCHANGED booted
    <3>1. /\ pc'[t] = ReturnTo(t) /\ active'[t] = Wrap(active[t] - 1)
          /\ \A u \in Worker \ {t} : pc'[u] = pc[u] /\ active'[u] = active[u]
      BY <1>1, <2>5 DEF HandlerTypes, PlainTypes
    <3>2. Booting(t)' = Booting(t)
      BY <2>5 DEF Booting
    <3>3. CASE Booting(t)
      <4>1. pc'[t] = "booted"
        BY <3>1, <3>3 DEF ReturnTo, Booting
      <4>2. active[t] = Cardinality(Busied(t))
        BY <1>3, <2>5, <3>3 DEF Counted
      <4>3. active'[t] = IF Busied(t) = {} THEN WordSize - 1 ELSE Cardinality(Busied(t)) - 1
        <5>1. CASE Busied(t) = {}
          BY <1>3, <1>4, <3>1, <4>2, <5>1, WrapValues
        <5>2. CASE Busied(t) # {}
          <6>1. Cardinality(Busied(t)) - 1 \in 0 .. WordSize - 1
            BY <1>3, <1>4, <5>2
          <6> QED BY <3>1, <4>2, <5>2, <6>1, WrapValues
        <5> QED BY <5>1, <5>2
      <4>4. Counted(t)'
        BY <2>3, <4>1, <4>3 DEF Counted
      <4> QED BY <1>1, <2>2, <2>5, <3>1, <4>4, QuietCounted
    <3>4. CASE ~Booting(t)
      <4>1. pc'[t] \in {"resume", "poll"}
        BY <3>1, <3>4 DEF ReturnTo, Booting
      <4>2. active[t] - 1 = Cardinality(Busied(t))
        BY <1>3, <2>5, <3>4 DEF Counted
      <4>3. Cardinality(Busied(t)) \in 0 .. WordSize - 1
        BY <1>3, <1>4
      <4>4. active'[t] = Cardinality(Busied(t))
        BY <3>1, <4>2, <4>3, WrapValues
      <4>5. Counted(t)'
        BY <2>3, <3>2, <3>4, <4>1, <4>4 DEF Counted
      <4> QED BY <1>1, <2>2, <2>5, <3>1, <4>5, QuietCounted
    <3> QED BY <3>3, <3>4
  <2> QED BY <1>14, <2>4, <2>5 DEF CheckRest
<1>15. ASSUME NEW t \in Worker, Booted(t)
       PROVE  \A u \in Worker : Counted(u)'
  <2>1. /\ UNCHANGED <<stage, state>> /\ pc[t] = "booted" /\ pc'[t] = "boot"
        /\ active'[t] = Wrap(active[t] + 1)
        /\ \A u \in Worker \ {t} : pc'[u] = pc[u] /\ booted'[u] = booted[u] /\ active'[u] = active[u]
    BY <1>1, <1>15 DEF Booted, phaseVars, HandlerTypes, PlainTypes
  <2>2. Busied(t)' = Busied(t)
    BY <2>1 DEF Busied
  <2>3. active'[t] = Cardinality(Busied(t))
    <3>1. CASE Busied(t) = {}
      <4>1. active[t] = WordSize - 1
        BY <2>1, <3>1 DEF Counted
      <4>2. Cardinality(Busied(t)) = 0
        BY <1>3, <3>1
      <4> QED BY <2>1, <4>1, <4>2, WrapValues
    <3>2. CASE Busied(t) # {}
      <4>1. active[t] + 1 = Cardinality(Busied(t))
        BY <1>3, <2>1, <3>2 DEF Counted
      <4>2. Cardinality(Busied(t)) \in 0 .. WordSize - 1
        BY <1>3, <1>4
      <4> QED BY <2>1, <4>1, <4>2, WrapValues
    <3> QED BY <3>1, <3>2
  <2>4. Counted(t)'
    BY <2>1, <2>2, <2>3 DEF Counted
  <2> QED BY <1>1, <2>1, <2>4, QuietCounted
<1>16. ASSUME NEW t \in Worker, LeaveLoop(t)
       PROVE  \A u \in Worker : Counted(u)'
  <2>1. /\ UNCHANGED <<stage, state, booted, active>>
        /\ pc[t] = "poll" /\ active[t] = 0 /\ pc'[t] = "parked"
        /\ \A u \in Worker \ {t} : pc'[u] = pc[u]
    BY <1>1, <1>16 DEF LeaveLoop, phaseVars, frameVars, HandlerTypes
  <2>2. /\ active[t] = Cardinality(Busied(t)) /\ ~Booting(t)
        /\ Busied(t)' = Busied(t) /\ Booting(t)' = Booting(t)
    BY <2>1 DEF Counted, Busied, Booting
  <2>3. Busied(t) = {}
    BY <1>3, <2>1, <2>2
  <2>4. Counted(t)'
    BY <2>1, <2>2, <2>3 DEF Counted
  <2> QED BY <1>1, <2>1, <2>4, QuietCounted
<1>17. ASSUME NEW t \in Worker, Throw(t)
       PROVE  \A u \in Worker : Counted(u)'
  <2>1. /\ UNCHANGED <<stage, state, booted, active>> /\ pc'[t] = "failed"
        /\ \A u \in Worker \ {t} : pc'[u] = pc[u]
    BY <1>1, <1>17 DEF Throw, phaseVars, frameVars, HandlerTypes
  <2>2. Counted(t)'
    BY <2>1 DEF Counted
  <2> QED BY <1>1, <2>1, <2>2, QuietCounted
<1>18. ASSUME NEW t \in Worker, Claim(t)
       PROVE  \A u \in Worker : Counted(u)'
  <2>1. /\ UNCHANGED <<stage, booted, active>> /\ pc[t] = "claim"
        /\ conn[t] \in Mine(t) /\ state[conn[t]] = "IDLE"
    BY <1>1, <1>18 DEF Claim, phaseVars, frameVars, WorkerOK
  <2> QED BY <1>1, <1>18, <2>1, ClaimShapes, EndsCounted, WaitsCounted
<1>19. ASSUME NEW t \in Worker, Resume(t)
       PROVE  \A u \in Worker : Counted(u)'
  <2>1. /\ UNCHANGED <<stage, booted, active>> /\ pc[t] = "resume"
        /\ conn[t] \in Mine(t) /\ conn[t] \in Client
    BY <1>1, <1>2, <1>19 DEF Resume, phaseVars, WorkerOK
  <2>2. CASE FrameReads(t) /\ HandleRead(t, conn[t])
    <3>1. state[conn[t]] # "IDLE"
      BY <2>2 DEF FrameReads
    <3> QED BY <1>1, <2>1, <2>2, <3>1, HandlerShapes, EndsCounted
  <2>3. CASE FrameFails(t) /\ FailCurrent(t, conn[t])
    <3>1. state[conn[t]] # "IDLE"
      BY <2>3 DEF FrameFails, InFlight
    <3> QED BY <1>1, <2>1, <2>3, <3>1, HandlerShapes, EndsCounted
  <2>4. CASE pc' = [pc EXCEPT ![t] = "poll"] /\ UNCHANGED state
    <3>1. pc'[t] = "poll" /\ \A u \in Worker \ {t} : pc'[u] = pc[u]
      BY <1>1, <2>4 DEF HandlerTypes
    <3>2. Counted(t)'
      BY <2>1, <2>4, <3>1 DEF Counted, Busied, Booting
    <3> QED BY <1>1, <2>1, <2>4, <3>1, <3>2, QuietCounted
  <2> QED BY <1>19, <2>2, <2>3, <2>4 DEF Resume
<1>20. ASSUME NEW t \in Worker, NEW c \in Mine(t), IdleHangup(t, c)
       PROVE  \A u \in Worker : Counted(u)'
  BY <1>5, <1>20 DEF IdleHangup, phaseVars, frameVars
<1>21. ASSUME NEW t \in Worker, NEW c \in Mine(t), RetryDue(t, c)
       PROVE  \A u \in Worker : Counted(u)'
  <2>1. /\ UNCHANGED <<stage, booted, active>> /\ pc[t] = "poll" /\ state[c] # "IDLE"
        /\ Ends(t, c)
    BY <1>21 DEF RetryDue, phaseVars, frameVars, Ends
  <2> QED BY <1>1, <2>1, EndsCounted
<1>22. ASSUME NEW t \in Worker, NEW c \in Mine(t),
              Timeout(t, c) \/ WriteHangup(t, c) \/ ReadEvent(t, c)
       PROVE  \A u \in Worker : Counted(u)'
  <2>1. /\ UNCHANGED <<stage, booted, active>> /\ pc[t] = "poll" /\ state[c] # "IDLE"
        /\ FailCurrent(t, c) \/ HandleRead(t, c)
    BY <1>22 DEF Timeout, WriteHangup, ReadEvent, phaseVars, frameVars, InFlight
  <2> QED BY <1>1, <1>2, <2>1, HandlerShapes, EndsCounted
<1>23. ASSUME NEW t \in Worker, NEW c \in Mine(t), HandleConnect(t, c) \/ WriteEvent(t, c)
       PROVE  \A u \in Worker : Counted(u)'
  <2>1. /\ UNCHANGED <<stage, booted, active>> /\ pc[t] = "poll" /\ state[c] # "IDLE"
    BY <1>23 DEF HandleConnect, WriteEvent, phaseVars, frameVars
  <2>2. \/ Ends(t, c)
        \/ \E next \in {"poll", "resume"} : Waits(t, c, record[c], next)
    BY <1>1, <1>2, <1>23, HandlerShapes DEF HandleConnect, WriteEvent
  <2> QED BY <1>1, <2>1, <2>2, EndsCounted, WaitsCounted
<1>24. ASSUME NEW t \in Worker, WorkerStep(t) \/ Throw(t)
       PROVE  \A u \in Worker : Counted(u)'
  BY <1>9, <1>11, <1>12, <1>13, <1>14, <1>15, <1>16, <1>17, <1>18, <1>19, <1>20, <1>21,
     <1>22, <1>23, <1>24 DEF WorkerStep
<1> QED BY <1>6, <1>7, <1>8, <1>24 DEF Next, Coordinator, Ended

\* It holds in every state the driver reaches.
LEMMA CountsHold == Spec => []IInv /\ [](\A u \in Worker : Counted(u))
<1>1. Init => \A u \in Worker : Counted(u)
  <2> SUFFICES ASSUME Init, NEW u \in Worker PROVE Counted(u)
    OBVIOUS
  <2>1. Mine(u) \subseteq Client
    BY Slices
  <2> HIDE DEF Mine, Share
  <2>2. Busied(u) = {} /\ pc[u] = "parked" /\ stage = 0
    BY <2>1 DEF Init, Busied
  <2> QED BY <2>2 DEF Counted
<1>2. IInv /\ (\A u \in Worker : Counted(u)) /\ [Next]_vars => (\A u \in Worker : Counted(u))'
  BY NextCounted
<1> QED BY <1>1, <1>2, Invariance, PTL DEF Spec

\* active_ counts exactly the worker's connections that are not at rest
\* whenever the event loop asks whether any is left, for every number of
\* connections and threads, although it wraps below zero on the way there.
THEOREM ActiveCounts == Spec => []ActiveMatches
<1>1. (\A u \in Worker : Counted(u)) => ActiveMatches
  BY DEF Counted, Busied, ActiveMatches
<1> QED BY <1>1, CountsHold, PTL

-----------------------------------------------------------------------------
(* Why a phase does not end early.                                         *)

\* has_next of a timed phase refuses every connection: the cap is reached, or
\* the floor is and the deadline has passed.
Over ==
  \/ PhaseMax # 0 /\ started >= PhaseMax
  \/ started >= PhaseMin /\ Late

\* The first loop of run() is at connection First + booted; the worker asks
\* has_next for the connection Handled.
InFirstLoop(t) ==
  \/ pc[t] \in {"enter", "booted"}
  \/ pc[t] \in {"check", "claim"} /\ Booting(t)
Handled(t, c) == pc[t] \in {"check", "claim"} /\ conn[t] = c

\* The connections the first loop has yet to start are at rest; in a timed
\* phase one that was started is at rest only when has_next refused it, or is
\* about to be asked.
Rested(t) ==
  /\ InFirstLoop(t) => conn[t] = First(t) + booted[t]
  /\ InFirstLoop(t) => \A c \in Mine(t) : c > First(t) + booted[t] => state[c] = "IDLE"
  /\ pc[t] = "boot" => \A c \in Mine(t) : c >= First(t) + booted[t] => state[c] = "IDLE"
  /\ DurationMode /\ pc[t] \notin {"run", "failed", "stopped"} =>
       /\ \A c \in Mine(t) :
            state[c] = "IDLE" /\ ~Handled(t, c) /\ c < First(t) + booted[t] => Over
       /\ pc[t] = "booted" /\ state[conn[t]] = "IDLE" => Over

\* Within a phase, has_next never takes a refusal back.
LEMMA OverStays ==
  ASSUME TypeOK, Over, stage' = stage, started' \in {started, started + 1}, late => late',
         late' \in BOOLEAN
  PROVE  Over'
<1>1. started \in Nat /\ late \in BOOLEAN
  BY DEF TypeOK
<1>2. PhaseMax \in Nat /\ PhaseMin \in Nat /\ StartBound \in Nat
  BY ConfigAssumption DEF PhaseMax, PhaseMin
<1>3. PhaseMax' = PhaseMax /\ PhaseMin' = PhaseMin
  BY DEF PhaseMax, PhaseMin, StageKind
<1> HIDE DEF PhaseMax, PhaseMin
<1> QED BY <1>1, <1>2, <1>3 DEF Over, Late

\* In a timed phase has_next refuses a connection when the phase is over.
LEMMA RefusedOver ==
  ASSUME TypeOK, DurationMode, NEW c, ~HasNext(c)
  PROVE  Over
<1>1. started \in Nat
  BY DEF TypeOK
<1>2. PhaseMax \in Nat /\ PhaseMin \in Nat
  BY ConfigAssumption DEF PhaseMax, PhaseMin
<1> HIDE DEF PhaseMax, PhaseMin, DurationMode, Late
<1> QED BY <1>1, <1>2 DEF Over, HasNext

\* What a worker knows of its connections is its own business.
LEMMA OthersRested ==
  ASSUME TypeOK, NEW t \in Worker, NEW c \in Mine(t), NEW u \in Worker \ {t}, Rested(u),
         conn[u] \in Mine(u) \/ pc[u] # "booted",
         pc'[u] = pc[u], booted'[u] = booted[u], conn'[u] = conn[u],
         \A e \in Client \ {c} : state'[e] = state[e], stage' = stage, Over => Over'
  PROVE  Rested(u)'
<1>1. Mine(t) \cap Mine(u) = {} /\ Mine(u) \subseteq Client
  BY Slices
<1> HIDE DEF Mine, Share, First
<1>2. \A e \in Mine(u) : state'[e] = state[e] /\ Handled(u, e)' = Handled(u, e)
  BY <1>1 DEF Handled
<1>3. InFirstLoop(u)' = InFirstLoop(u) /\ DurationMode' = DurationMode
  BY DEF InFirstLoop, Booting, DurationMode, StageKind
<1> HIDE DEF Handled, InFirstLoop, DurationMode, Over
<1> QED BY <1>2, <1>3 DEF Rested

\* A handler that ends a request leaves has_next to be asked.
LEMMA EndsRested ==
  ASSUME TypeOK, NEW t \in Worker, NEW c \in Mine(t), Ends(t, c),
         UNCHANGED <<stage, booted>>, Over => Over',
         \A u \in Worker : Rested(u) /\ WorkerOK(u),
         \/ ~Booting(t) /\ pc[t] \in {"poll", "resume"}
         \/ c = conn[t] /\ pc[t] = "claim" /\ state[c] = "IDLE"
  PROVE  \A u \in Worker : Rested(u)'
<1>1. HandlerTypes /\ PlainTypes /\ c \in Client /\ Mine(t) \subseteq Client
  BY TypeSplit, Slices
<1>2. /\ pc'[t] = "check" /\ state'[c] = "IDLE" /\ conn'[t] = c
      /\ \A u \in Worker \ {t} : pc'[u] = pc[u] /\ conn'[u] = conn[u]
      /\ \A e \in Client \ {c} : state'[e] = state[e]
  BY <1>1 DEF Ends, HandlerTypes
<1>3. \A u \in Worker \ {t} : Rested(u)'
  BY <1>2, OthersRested DEF WorkerOK
<1> HIDE DEF Mine, Share, First
<1>4. DurationMode' = DurationMode /\ Booting(t)' = Booting(t) /\ booted'[t] = booted[t]
  BY DEF DurationMode, StageKind, Booting
<1> HIDE DEF Booting, DurationMode, Over
<1>5. CASE ~Booting(t) /\ pc[t] \in {"poll", "resume"}
  <2>1. \A e \in Mine(t) : DurationMode /\ state[e] = "IDLE" /\ e < First(t) + booted[t] => Over
    BY <1>5 DEF Rested, Handled
  <2>2. ~InFirstLoop(t)'
    BY <1>2, <1>4, <1>5 DEF InFirstLoop
  <2>3. \A e \in Mine(t) : ~Handled(t, e)' => state'[e] = state[e]
    BY <1>1, <1>2 DEF Handled
  <2>4. Rested(t)'
    BY <1>2, <1>4, <2>1, <2>2, <2>3 DEF Rested
  <2> QED BY <1>3, <2>4
<1>6. CASE c = conn[t] /\ pc[t] = "claim" /\ state[c] = "IDLE"
  <2>1. \A e \in Mine(t) : state'[e] = state[e] /\ Handled(t, e)' = Handled(t, e)
    BY <1>1, <1>2, <1>6 DEF Handled
  <2>2. InFirstLoop(t)' = InFirstLoop(t) /\ conn'[t] = conn[t]
    BY <1>2, <1>4, <1>6 DEF InFirstLoop
  <2>3. Rested(t)
    OBVIOUS
  <2> HIDE DEF Handled, InFirstLoop
  <2>4. Rested(t)'
    BY <1>2, <1>4, <1>6, <2>1, <2>2, <2>3 DEF Rested
  <2> QED BY <1>3, <2>4
<1> QED BY <1>5, <1>6

\* A connection left waiting is not at rest.
LEMMA WaitsRested ==
  ASSUME TypeOK, NEW t \in Worker, NEW c \in Mine(t), NEW p, NEW next, Waits(t, c, p, next),
         UNCHANGED <<stage, booted>>, Over => Over',
         \A u \in Worker : Rested(u) /\ WorkerOK(u),
         \/ ~Booting(t) /\ pc[t] = "poll" /\ next \in {"poll", "resume"}
         \/ c = conn[t] /\ pc[t] = "claim" /\ next = ReturnTo(t)
  PROVE  \A u \in Worker : Rested(u)'
<1>1. HandlerTypes /\ PlainTypes /\ c \in Client /\ Mine(t) \subseteq Client
  BY TypeSplit, Slices
<1>2. /\ pc'[t] = next /\ state'[c] # "IDLE" /\ conn'[t] = c
      /\ \A u \in Worker \ {t} : pc'[u] = pc[u] /\ conn'[u] = conn[u]
      /\ \A e \in Client \ {c} : state'[e] = state[e]
  BY <1>1 DEF Waits, HandlerTypes, InFlight
<1>3. \A u \in Worker \ {t} : Rested(u)'
  BY <1>2, OthersRested DEF WorkerOK
<1>4. ReturnTo(t) \in {"booted", "resume", "poll"} /\ (ReturnTo(t) = "booted" <=> Booting(t))
  BY DEF ReturnTo, Booting
<1>5. First(t) + booted[t] \in Nat /\ c \in Nat
  BY <1>1, Slices DEF PlainTypes, Client
<1> HIDE DEF Mine, Share, First
<1>6. DurationMode' = DurationMode /\ Booting(t)' = Booting(t) /\ booted'[t] = booted[t]
  BY DEF DurationMode, StageKind, Booting
<1> HIDE DEF Booting, DurationMode, Over
<1>7. next \in {"poll", "resume"} => ~InFirstLoop(t)'
  BY <1>2 DEF InFirstLoop
<1>8. \A e \in Mine(t) : state'[e] = "IDLE" => e # c /\ state[e] = "IDLE" /\ ~(c = conn[t] /\ Handled(t, e))
  BY <1>1, <1>2 DEF Handled
<1>9. CASE ~Booting(t) /\ pc[t] = "poll" /\ next \in {"poll", "resume"}
  <2>1. \A e \in Mine(t) : DurationMode /\ state[e] = "IDLE" /\ e < First(t) + booted[t] => Over
    BY <1>9 DEF Rested, Handled
  <2>2. Rested(t)'
    BY <1>2, <1>6, <1>7, <1>8, <1>9, <2>1 DEF Rested
  <2> QED BY <1>3, <2>2
<1>10. CASE c = conn[t] /\ pc[t] = "claim" /\ next = ReturnTo(t)
  <2>1. \A e \in Mine(t) : DurationMode /\ state'[e] = "IDLE" /\ e < First(t) + booted[t] => Over
    BY <1>8, <1>10 DEF Rested
  <2>2. CASE Booting(t)
    <3>1. InFirstLoop(t) /\ pc'[t] = "booted"
      BY <1>2, <1>4, <1>10, <2>2 DEF InFirstLoop
    <3>2. c = First(t) + booted[t] /\ \A e \in Mine(t) : e > First(t) + booted[t] => state[e] = "IDLE"
      BY <1>10, <3>1 DEF Rested
    <3>3. \A e \in Mine(t) : e > First(t) + booted[t] => state'[e] = "IDLE"
      BY <1>1, <1>2, <1>5, <3>2
    <3>4. Rested(t)'
      BY <1>2, <1>6, <2>1, <3>1, <3>2, <3>3 DEF Rested
    <3> QED BY <1>3, <3>4
  <2>3. CASE ~Booting(t)
    <3>1. next \in {"poll", "resume"}
      BY <1>4, <1>10, <2>3
    <3>2. Rested(t)'
      BY <1>2, <1>6, <1>7, <2>1, <3>1 DEF Rested
    <3> QED BY <1>3, <3>2
  <2> QED BY <2>2, <2>3
<1> QED BY <1>9, <1>10

\* A step that leaves the connections' states alone concerns its worker only.
LEMMA QuietRested ==
  ASSUME TypeOK, NEW t \in Worker, UNCHANGED <<stage, state>>, Over => Over',
         \A u \in Worker \ {t} :
           pc'[u] = pc[u] /\ booted'[u] = booted[u] /\ conn'[u] = conn[u],
         \A u \in Worker : Rested(u), Rested(t)'
  PROVE  \A u \in Worker : Rested(u)'
<1> SUFFICES ASSUME NEW u \in Worker \ {t} PROVE Rested(u)'
  OBVIOUS
<1> HIDE DEF Mine, Share, First
<1>1. /\ InFirstLoop(u)' = InFirstLoop(u) /\ DurationMode' = DurationMode
      /\ \A e : Handled(u, e)' = Handled(u, e)
  BY DEF InFirstLoop, Booting, DurationMode, StageKind, Handled
<1> HIDE DEF Handled, InFirstLoop, DurationMode, Over
<1> QED BY <1>1 DEF Rested

\* Every step keeps what the workers know of their connections.
LEMMA NextRested ==
  ASSUME IInv, \A u \in Worker : Counted(u) /\ Rested(u), [Next]_vars
  PROVE  \A u \in Worker : Rested(u)'
<1>1. TypeOK /\ HandlerTypes /\ PlainTypes /\ (\A u \in Worker : WorkerOK(u))
  BY TypeSplit, WorkersSplit DEF IInv
<1>2. \A t \in Worker : Share(t) \in Nat /\ First(t) \in Nat /\ Mine(t) \subseteq Client
  BY Slices
<1>3. \A e \in Client : e \in Nat
  BY DEF Client
<1>4. TypeOK'
  BY NextTypes
<1>5. ASSUME UNCHANGED <<stage, state, pc, conn, booted>>, Over => Over'
      PROVE  \A u \in Worker : Rested(u)'
  BY <1>5 DEF Rested, InFirstLoop, Handled, Booting, DurationMode, StageKind
<1>6. ASSUME UNCHANGED stage, started' \in {started, started + 1}, late => late'
      PROVE  Over => Over'
  BY <1>1, <1>4, <1>6, OverStays DEF TypeOK
<1> HIDE DEF Mine, Share, First, Over, DurationMode
<1>7. CASE BeginPhase \/ StopWorkers
  <2>1. \A u \in Worker : pc'[u] \in {"run", "stopped"}
    BY <1>7 DEF BeginPhase, StopWorkers
  <2> QED BY <2>1 DEF Rested, InFirstLoop
<1>8. CASE Environment \/ UNCHANGED vars
  <2>1. UNCHANGED <<stage, state, pc, conn, booted, started>> /\ (late => late')
    BY <1>8 DEF Environment, Answer, PeerCloses, RequestExpires, DeadlinePasses, vars,
                phaseVars, frameVars
  <2> QED BY <1>5, <1>6, <2>1
<1>9. ASSUME NEW t \in Worker, Run(t)
      PROVE  \A u \in Worker : Rested(u)'
  <2>1. /\ UNCHANGED <<stage, state, conn, late, started>>
        /\ pc[t] = "run" /\ pc'[t] = "boot" /\ booted'[t] = 0
        /\ \A u \in Worker \ {t} : pc'[u] = pc[u] /\ booted'[u] = booted[u]
    BY <1>1, <1>9 DEF Run, phaseVars, HandlerTypes, PlainTypes
  <2>2. \A e \in Mine(t) : state'[e] = "IDLE"
    BY <2>1 DEF Counted, Busied
  <2>3. \A e \in Mine(t) : ~(e < First(t) + 0)
    <3>1. First(t) \in Nat /\ Share(t) \in Nat
      BY <1>2
    <3> QED BY <3>1 DEF Mine
  <2>4. Rested(t)'
    BY <2>1, <2>2, <2>3 DEF Rested, InFirstLoop
  <2> QED BY <1>1, <1>6, <2>1, <2>4, QuietRested
<1>10. ASSUME NEW t \in Worker, Boot(t)
       PROVE  \A u \in Worker : Rested(u)'
  <2>1. /\ UNCHANGED <<stage, state, booted, late, started>>
        /\ pc[t] = "boot" /\ pc'[t] \in {"enter", "failed"} /\ conn'[t] = First(t) + booted[t]
        /\ \A u \in Worker \ {t} : pc'[u] = pc[u] /\ conn'[u] = conn[u]
    BY <1>1, <1>10 DEF Boot, phaseVars, frameVars, HandlerTypes
  <2>2. /\ \A e \in Mine(t) : e >= First(t) + booted[t] => state[e] = "IDLE"
        /\ \A e \in Mine(t) : DurationMode /\ state[e] = "IDLE" /\ e < First(t) + booted[t] => Over
    BY <2>1 DEF Rested, Handled
  <2>3. \A e \in Mine(t) : e > First(t) + booted[t] => e >= First(t) + booted[t]
    BY <1>1, <1>2, <1>3 DEF PlainTypes
  <2>4. (Over => Over') /\ DurationMode' = DurationMode
    BY <1>6, <2>1 DEF DurationMode, StageKind
  <2>5. Rested(t)'
    BY <2>1, <2>2, <2>3, <2>4 DEF Rested, InFirstLoop
  <2> QED BY <1>1, <2>1, <2>4, <2>5, QuietRested
<1>11. ASSUME NEW t \in Worker, BootDone(t) \/ LeaveLoop(t)
       PROVE  \A u \in Worker : Rested(u)'
  <2>1. /\ UNCHANGED <<stage, state, conn, booted, late, started>>
        /\ pc[t] \in {"boot", "poll"} /\ pc'[t] \in {"poll", "parked"}
        /\ \A u \in Worker \ {t} : pc'[u] = pc[u]
    BY <1>1, <1>11 DEF BootDone, LeaveLoop, phaseVars, frameVars, HandlerTypes
  <2>2. \A e \in Mine(t) : DurationMode /\ state[e] = "IDLE" /\ e < First(t) + booted[t] => Over
    BY <2>1 DEF Rested, Handled
  <2>3. (Over => Over') /\ DurationMode' = DurationMode
    BY <1>6, <2>1 DEF DurationMode, StageKind
  <2>4. Rested(t)'
    BY <2>1, <2>2, <2>3 DEF Rested, InFirstLoop
  <2> QED BY <1>1, <2>1, <2>3, <2>4, QuietRested
<1>12. ASSUME NEW t \in Worker, CheckNext(t)
       PROVE  \A u \in Worker : Rested(u)'
  <2>1. /\ UNCHANGED <<stage, state, conn, booted, late, started>>
        /\ pc[t] \in {"enter", "check"} /\ pc'[t] = "claim"
        /\ \A u \in Worker \ {t} : pc'[u] = pc[u]
    BY <1>1, <1>12 DEF CheckNext, phaseVars, frameVars, HandlerTypes
  <2>2. (Over => Over') /\ DurationMode' = DurationMode
    BY <1>6, <2>1 DEF DurationMode, StageKind
  <2>3. InFirstLoop(t)' => InFirstLoop(t)
    BY <2>1 DEF InFirstLoop, Booting
  <2>4. \A e \in Mine(t) : Handled(t, e) => Handled(t, e)'
    BY <2>1 DEF Handled
  <2>5. Rested(t)
    OBVIOUS
  <2> HIDE DEF InFirstLoop, Handled
  <2>6. Rested(t)'
    BY <2>1, <2>2, <2>3, <2>4, <2>5 DEF Rested
  <2> QED BY <1>1, <2>1, <2>2, <2>6, QuietRested
<1>13. ASSUME NEW t \in Worker, CheckRest(t)
       PROVE  \A u \in Worker : Rested(u)'
  <2>1. state[conn[t]] = "IDLE" /\ conn[t] \in Mine(t) /\ conn[t] \in Client
    BY <1>1, <1>2, <1>13 DEF CheckRest, WorkerOK
  <2>2. UNCHANGED <<stage, state, conn, late, started>> /\ (DurationMode => Over)
    BY <1>1, <1>13, <2>1, RefusedOver DEF CheckRest, phaseVars, HandlerTypes
  <2>3. (Over => Over') /\ DurationMode' = DurationMode
    BY <1>6, <2>2 DEF DurationMode, StageKind
  <2>4. CASE /\ pc[t] = "enter" /\ pc' = [pc EXCEPT ![t] = "boot"]
             /\ booted' = [booted EXCEPT ![t] = @ + 1]
    <3>1. /\ pc'[t] = "boot" /\ booted'[t] = booted[t] + 1
          /\ \A u \in Worker \ {t} : pc'[u] = pc[u] /\ booted'[u] = booted[u]
      BY <1>1, <2>4 DEF HandlerTypes, PlainTypes
    <3>2. \A e \in Mine(t) : e > First(t) + booted[t] => state[e] = "IDLE"
      BY <2>4 DEF Rested, InFirstLoop
    <3>3. \A e \in Mine(t) : e >= First(t) + (booted[t] + 1) => e > First(t) + booted[t]
      BY <1>1, <1>2, <1>3 DEF PlainTypes
    <3>4. Rested(t)'
      BY <2>2, <2>3, <3>1, <3>2, <3>3 DEF Rested, InFirstLoop
    <3> QED BY <1>1, <2>2, <2>3, <3>1, <3>4, QuietRested
  <2>5. CASE /\ pc[t] = "check" /\ pc' = [pc EXCEPT ![t] = ReturnTo(t)] /\ UNCHANGED booted
    <3>1. /\ pc'[t] = ReturnTo(t) /\ \A u \in Worker \ {t} : pc'[u] = pc[u]
      BY <1>1, <2>5 DEF HandlerTypes
    <3>2. pc'[t] = "booted" => Booting(t)
      BY <3>1 DEF ReturnTo, Booting
    <3>3. pc'[t] \in {"booted", "resume", "poll"}
      BY <3>1 DEF ReturnTo
    <3>4. InFirstLoop(t)' => InFirstLoop(t)
      BY <2>5, <3>2, <3>3 DEF InFirstLoop
    <3>5. Rested(t)
      OBVIOUS
    <3> HIDE DEF InFirstLoop
    <3>6. Rested(t)'
      BY <2>2, <2>3, <2>5, <3>3, <3>4, <3>5 DEF Rested
    <3> QED BY <1>1, <2>2, <2>3, <2>5, <3>1, <3>6, QuietRested
  <2> QED BY <1>13, <2>4, <2>5 DEF CheckRest
<1>14. ASSUME NEW t \in Worker, Booted(t)
       PROVE  \A u \in Worker : Rested(u)'
  <2>1. /\ UNCHANGED <<stage, state, conn, late, started>> /\ pc[t] = "booted" /\ pc'[t] = "boot"
        /\ booted'[t] = booted[t] + 1
        /\ \A u \in Worker \ {t} : pc'[u] = pc[u] /\ booted'[u] = booted[u]
    BY <1>1, <1>14 DEF Booted, phaseVars, HandlerTypes, PlainTypes
  <2>2. (Over => Over') /\ DurationMode' = DurationMode
    BY <1>6, <2>1 DEF DurationMode, StageKind
  <2>3. /\ conn[t] = First(t) + booted[t]
        /\ \A e \in Mine(t) : e > First(t) + booted[t] => state[e] = "IDLE"
        /\ DurationMode /\ state[conn[t]] = "IDLE" => Over
        /\ \A e \in Mine(t) : DurationMode /\ state[e] = "IDLE" /\ e < First(t) + booted[t] => Over
    BY <2>1 DEF Rested, InFirstLoop, Handled
  <2>4. \A e \in Mine(t) :
          /\ e >= First(t) + (booted[t] + 1) => e > First(t) + booted[t]
          /\ e < First(t) + (booted[t] + 1) => e < First(t) + booted[t] \/ e = First(t) + booted[t]
    BY <1>1, <1>2, <1>3 DEF PlainTypes
  <2>5. Rested(t)'
    BY <2>1, <2>2, <2>3, <2>4 DEF Rested, InFirstLoop
  <2> QED BY <1>1, <2>1, <2>2, <2>5, QuietRested
<1>15. ASSUME NEW t \in Worker, Throw(t)
       PROVE  \A u \in Worker : Rested(u)'
  <2>1. /\ UNCHANGED <<stage, state, conn, booted, late, started>> /\ pc'[t] = "failed"
        /\ \A u \in Worker \ {t} : pc'[u] = pc[u]
    BY <1>1, <1>15 DEF Throw, phaseVars, frameVars, HandlerTypes
  <2>2. Rested(t)'
    BY <2>1 DEF Rested, InFirstLoop
  <2> QED BY <1>1, <1>6, <2>1, <2>2, QuietRested
<1>16. ASSUME NEW t \in Worker, Claim(t)
       PROVE  \A u \in Worker : Rested(u)'
  <2>1. /\ UNCHANGED <<stage, booted>> /\ pc[t] = "claim" /\ late' = late /\ started' = started + 1
        /\ conn[t] \in Mine(t) /\ state[conn[t]] = "IDLE"
    BY <1>1, <1>16 DEF Claim, phaseVars, frameVars, WorkerOK
  <2> QED BY <1>1, <1>6, <1>16, <2>1, ClaimShapes, EndsRested, WaitsRested
<1>17. ASSUME NEW t \in Worker, Resume(t)
       PROVE  \A u \in Worker : Rested(u)'
  <2>1. /\ UNCHANGED <<stage, booted, late, started>> /\ pc[t] = "resume" /\ ~Booting(t)
        /\ conn[t] \in Mine(t) /\ conn[t] \in Client
    BY <1>1, <1>2, <1>17 DEF Resume, phaseVars, WorkerOK, Counted
  <2>2. Over => Over'
    BY <1>6, <2>1
  <2>3. CASE HandleRead(t, conn[t]) \/ FailCurrent(t, conn[t])
    BY <1>1, <2>1, <2>2, <2>3, HandlerShapes, EndsRested
  <2>4. CASE pc' = [pc EXCEPT ![t] = "poll"] /\ UNCHANGED <<state, conn>>
    <3>1. pc'[t] = "poll" /\ \A u \in Worker \ {t} : pc'[u] = pc[u]
      BY <1>1, <2>4 DEF HandlerTypes
    <3>2. DurationMode' = DurationMode
      BY <2>1 DEF DurationMode, StageKind
    <3>3. \A e \in Mine(t) : DurationMode /\ state[e] = "IDLE" /\ e < First(t) + booted[t] => Over
      BY <2>1 DEF Rested, Handled
    <3>4. Rested(t)'
      BY <2>1, <2>2, <2>4, <3>1, <3>2, <3>3 DEF Rested, InFirstLoop
    <3> QED BY <1>1, <2>1, <2>2, <2>4, <3>1, <3>4, QuietRested
  <2> QED BY <1>17, <2>3, <2>4 DEF Resume
<1>18. ASSUME NEW t \in Worker, NEW c \in Mine(t), IdleHangup(t, c)
       PROVE  \A u \in Worker : Rested(u)'
  <2>1. UNCHANGED <<stage, state, pc, conn, booted, late, started>>
    BY <1>18 DEF IdleHangup, phaseVars, frameVars
  <2> QED BY <1>5, <1>6, <2>1
<1>19. ASSUME NEW t \in Worker, NEW c \in Mine(t),
              \/ RetryDue(t, c) \/ Timeout(t, c) \/ WriteHangup(t, c) \/ ReadEvent(t, c)
              \/ HandleConnect(t, c) \/ WriteEvent(t, c)
       PROVE  \A u \in Worker : Rested(u)'
  <2>1. /\ UNCHANGED <<stage, booted, late, started>> /\ pc[t] = "poll"
    BY <1>19 DEF RetryDue, Timeout, WriteHangup, ReadEvent, HandleConnect, WriteEvent,
                 phaseVars, frameVars
  <2>2. c \in Client /\ ~Booting(t) /\ (Over => Over')
    BY <1>2, <1>6, <2>1 DEF Counted
  <2>3. CASE RetryDue(t, c)
    <3>1. Ends(t, c)
      BY <2>3 DEF RetryDue, Ends
    <3> QED BY <1>1, <2>1, <2>2, <3>1, EndsRested
  <2>4. CASE FailCurrent(t, c) \/ HandleRead(t, c)
    <3>1. Ends(t, c)
      BY <1>1, <2>2, <2>4, HandlerShapes
    <3> QED BY <1>1, <2>1, <2>2, <3>1, EndsRested
  <2>5. CASE \E p, q, s : \E next \in {"poll", "resume"} : HandleWrite(t, c, p, q, s, next)
    <3>1. Ends(t, c) \/ \E p : \E next \in {"poll", "resume"} : Waits(t, c, p, next)
      BY <1>1, <2>2, <2>5, HandlerShapes
    <3> QED BY <1>1, <2>1, <2>2, <3>1, EndsRested, WaitsRested
  <2>6. CASE Timeout(t, c) \/ WriteHangup(t, c) \/ ReadEvent(t, c)
    BY <2>4, <2>6 DEF Timeout, WriteHangup, ReadEvent
  <2>7. CASE HandleConnect(t, c) \/ WriteEvent(t, c)
    BY <2>4, <2>5, <2>7 DEF HandleConnect, WriteEvent
  <2> QED BY <1>19, <2>3, <2>6, <2>7
<1>20. ASSUME NEW t \in Worker, WorkerStep(t) \/ Throw(t)
       PROVE  \A u \in Worker : Rested(u)'
  BY <1>9, <1>10, <1>11, <1>12, <1>13, <1>14, <1>15, <1>16, <1>17, <1>18, <1>19, <1>20
  DEF WorkerStep
<1> QED BY <1>7, <1>8, <1>20 DEF Next, Coordinator, Ended

\* It holds in every state the driver reaches.
LEMMA RestsHold == Spec => [](\A u \in Worker : Rested(u))
<1>1. Init => \A u \in Worker : Rested(u)
  <2> SUFFICES ASSUME Init, NEW u \in Worker PROVE Rested(u)
    OBVIOUS
  <2>1. First(u) \in Nat /\ Share(u) \in Nat
    BY Slices
  <2> HIDE DEF Share, First, Over, DurationMode
  <2>2. \A e \in Mine(u) : ~(e < First(u) + 0)
    BY <2>1 DEF Mine
  <2> QED BY <2>2 DEF Init, Rested, InFirstLoop
<1>2. IInv /\ (\A u \in Worker : Counted(u)) /\ (\A u \in Worker : Rested(u)) /\ [Next]_vars
        => (\A u \in Worker : Rested(u))'
  BY NextRested
<1> QED BY <1>1, <1>2, CountsHold, PTL DEF Spec

\* A timed phase that did not reach its cap ends only after its deadline, with
\* at least one request per connection started, for every number of connections
\* and threads and however many requests failed.
THEOREM PhasesAreComplete == Spec => []PhaseComplete
<1>1. IInv /\ (\A u \in Worker : Counted(u)) /\ (\A u \in Worker : Rested(u)) => PhaseComplete
  <2> SUFFICES ASSUME IInv, \A u \in Worker : Counted(u), \A u \in Worker : Rested(u),
                      DurationMode, AllParked, ~(PhaseMax > 0 /\ started >= PhaseMax)
               PROVE  Late /\ started >= PhaseMin
    BY DEF PhaseComplete
  <2>1. 0 \in Worker /\ pc[0] = "parked" /\ stage > 0
    BY ConfigAssumption DEF Worker, AllParked
  <2>2. Busied(0) = {} /\ ~Booting(0)
    BY <2>1 DEF Counted
  <2>3. First(0) \in Nat /\ Share(0) \in Nat /\ booted[0] \in Nat
    BY <2>1, Slices DEF IInv, TypeOK
  <2>4. Share(0) > 0
    <3>1. Concurrency \in Nat \ {0} /\ Threads \in 1 .. Concurrency
      BY ConfigAssumption
    <3>2. Concurrency \div Threads \in Nat /\ Concurrency \div Threads > 0
      BY <3>1
    <3> QED BY <3>2 DEF Share
  <2> HIDE DEF Share, First, DurationMode
  <2>5. First(0) + 0 \in Mine(0) /\ booted[0] > 0
    BY <2>1, <2>2, <2>3, <2>4, BootVisitsMine DEF Booting
  <2>6. state[First(0)] = "IDLE" /\ First(0) \in Mine(0) /\ First(0) < First(0) + booted[0]
    BY <2>2, <2>3, <2>5 DEF Busied
  <2>7. ~Handled(0, First(0))
    BY <2>1 DEF Handled
  <2>8. Over
    BY <2>1, <2>6, <2>7 DEF Rested
  <2>9. PhaseMax \in Nat
    BY ConfigAssumption DEF PhaseMax
  <2> HIDE DEF PhaseMax, PhaseMin, Late
  <2> QED BY <2>8, <2>9 DEF Over
<1> QED BY <1>1, CountsHold, RestsHold, PTL

\* run() never finds a connection that is not idle, which it would throw over:
\* at the barriers, and until the first loop reaches it, a connection rests.
IdleAtStart ==
  \A t \in Worker :
    pc[t] = "boot" /\ booted[t] < Share(t) => state[First(t) + booted[t]] = "IDLE"

\* The check that throws "unexpected initial connection state" never fires,
\* however the phases before it ended.
THEOREM PhasesStartIdle == Spec => []IdleAtStart
<1>1. IInv /\ (\A u \in Worker : Rested(u)) => IdleAtStart
  <2> SUFFICES ASSUME IInv, \A u \in Worker : Rested(u), NEW t \in Worker, pc[t] = "boot",
                      booted[t] < Share(t)
               PROVE  state[First(t) + booted[t]] = "IDLE"
    BY DEF IdleAtStart
  <2>1. booted[t] \in Nat /\ First(t) \in Nat
    BY Slices DEF IInv, TypeOK
  <2>2. First(t) + booted[t] \in Mine(t)
    BY <2>1, BootVisitsMine
  <2> HIDE DEF Mine, First, Share
  <2> QED BY <2>1, <2>2 DEF Rested
<1> QED BY <1>1, CountsHold, RestsHold, PTL

-----------------------------------------------------------------------------
(* Which request a stale event can reach.                                  *)

\* A request on the wire has the record its connection's cursor stands for.
CursorsFit(t) ==
  \A c \in Mine(t) : state[c] \in InFlight => record[c] = RecordAt(cursor[c] - Concurrency)

\* Only handle_event's frame around a write holds a record, that of the request
\* the event was for.
Framed(t) ==
  /\ pc[t] \in {"check", "claim", "resume"} =>
       \/ seen[t] = NotSeen
       \/ seen[t].record = RecordAt(seen[t].cursor - Concurrency)
  /\ pc[t] \notin {"check", "claim", "resume", "failed", "stopped"} => seen[t] = NotSeen
  /\ pc[t] \in {"check", "claim"} /\ Booting(t) => seen[t] = NotSeen
  /\ pc[t] = "resume" => seen[t] # NotSeen

Fits(t) == CursorsFit(t) /\ Framed(t)

\* Both are a worker's own business.
LEMMA OthersFit ==
  ASSUME TypeOK, NEW t \in Worker, NEW c \in Mine(t), NEW u \in Worker \ {t}, Fits(u),
         pc'[u] = pc[u], seen'[u] = seen[u], booted'[u] = booted[u], stage' = stage,
         \A e \in Client \ {c} :
           state'[e] = state[e] /\ record'[e] = record[e] /\ cursor'[e] = cursor[e]
  PROVE  Fits(u)'
<1>1. Mine(t) \cap Mine(u) = {} /\ Mine(u) \subseteq Client
  BY Slices
<1>2. \A n : RecordAt(n)' = RecordAt(n)
  BY DEF RecordAt, DurationMode, StageKind
<1> HIDE DEF Mine, RecordAt, Share
<1>3. \A e \in Mine(u) : state'[e] = state[e] /\ record'[e] = record[e] /\ cursor'[e] = cursor[e]
  BY <1>1
<1>4. CursorsFit(u)'
  <2> SUFFICES ASSUME NEW e \in Mine(u), state'[e] \in InFlight
               PROVE  record'[e] = RecordAt(cursor[e] - Concurrency)'
    BY <1>3 DEF CursorsFit
  <2>1. record[e] = RecordAt(cursor[e] - Concurrency)
    BY <1>3 DEF Fits, CursorsFit
  <2> QED BY <1>2, <1>3, <2>1 DEF RecordAt
<1>5. Framed(u)'
  <2>1. seen'[u].record = seen[u].record /\ seen'[u].cursor = seen[u].cursor
        /\ Booting(u)' = Booting(u)
    BY DEF Booting
  <2> HIDE DEF Booting
  <2> QED BY <1>2, <2>1 DEF Fits, Framed, RecordAt
<1> QED BY <1>4, <1>5 DEF Fits

\* A step that leaves the requests alone concerns its worker's frame only.
LEMMA QuietFit ==
  ASSUME TypeOK, NEW t \in Worker, UNCHANGED <<stage, state, cursor>>,
         \A d \in Client : state[d] \in InFlight => record'[d] = record[d],
         \A u \in Worker \ {t} : pc'[u] = pc[u] /\ seen'[u] = seen[u] /\ booted'[u] = booted[u],
         \A u \in Worker : Fits(u), Framed(t)'
  PROVE  \A u \in Worker : Fits(u)'
<1>1. \A n : RecordAt(n)' = RecordAt(n)
  BY DEF RecordAt, DurationMode, StageKind
<1>2. \A u \in Worker : Mine(u) \subseteq Client
  BY Slices
<1> HIDE DEF Mine, RecordAt, Share
<1>3. ASSUME NEW u \in Worker PROVE CursorsFit(u)'
  <2> SUFFICES ASSUME NEW e \in Mine(u), state[e] \in InFlight
               PROVE  record'[e] = RecordAt(cursor[e] - Concurrency)'
    BY DEF CursorsFit
  <2>1. record[e] = RecordAt(cursor[e] - Concurrency) /\ record'[e] = record[e]
    BY <1>2 DEF Fits, CursorsFit
  <2> QED BY <1>1, <2>1 DEF RecordAt
<1>4. ASSUME NEW u \in Worker \ {t} PROVE Framed(u)'
  <2>1. seen'[u].record = seen[u].record /\ seen'[u].cursor = seen[u].cursor
        /\ Booting(u)' = Booting(u)
    BY DEF Booting
  <2> HIDE DEF Booting
  <2> QED BY <1>1, <2>1 DEF Fits, Framed, RecordAt
<1> QED BY <1>3, <1>4 DEF Fits

\* A handler that ends a request may leave the frame for the next one to return to.
LEMMA EndsFit ==
  ASSUME TypeOK, NEW t \in Worker, NEW c \in Mine(t), Ends(t, c),
         UNCHANGED <<stage, booted>>, \A u \in Worker : Fits(u),
         \A e \in Client \ {c} : cursor'[e] = cursor[e],
         \A u \in Worker \ {t} : seen'[u] = seen[u],
         \/ seen'[t] = NotSeen
         \/ seen'[t].record = RecordAt(seen'[t].cursor - Concurrency) /\ ~Booting(t)
  PROVE  \A u \in Worker : Fits(u)'
<1>1. HandlerTypes /\ PlainTypes /\ c \in Client /\ Mine(t) \subseteq Client
  BY TypeSplit, Slices
<1>2. /\ pc'[t] = "check" /\ state'[c] = "IDLE"
      /\ \A u \in Worker \ {t} : pc'[u] = pc[u]
      /\ \A e \in Client \ {c} : state'[e] = state[e] /\ record'[e] = record[e]
  BY <1>1 DEF Ends, HandlerTypes
<1>3. \A u \in Worker \ {t} : Fits(u)'
  BY <1>2, OthersFit
<1>4. \A n : RecordAt(n)' = RecordAt(n)
  BY DEF RecordAt, DurationMode, StageKind
<1> HIDE DEF Mine, Share, RecordAt
<1>5. CursorsFit(t)'
  <2> SUFFICES ASSUME NEW e \in Mine(t), state'[e] \in InFlight
               PROVE  record'[e] = RecordAt(cursor[e] - Concurrency)'
    BY DEF CursorsFit
  <2>1. e # c
    BY <1>2 DEF InFlight
  <2>2. record[e] = RecordAt(cursor[e] - Concurrency) /\ record'[e] = record[e]
        /\ cursor'[e] = cursor[e]
    BY <1>1, <1>2, <2>1 DEF Fits, CursorsFit
  <2> QED BY <1>4, <2>2 DEF RecordAt
<1>6. Framed(t)'
  <2>1. Booting(t)' = Booting(t)
    BY DEF Booting
  <2> HIDE DEF Booting
  <2> QED BY <1>2, <1>4, <2>1 DEF Framed, RecordAt
<1> QED BY <1>3, <1>5, <1>6 DEF Fits

\* A handler that leaves a request waiting returns into the frame, if there is one.
LEMMA WaitsFit ==
  ASSUME TypeOK, NEW t \in Worker, NEW c \in Mine(t), NEW p, NEW next, Waits(t, c, p, next),
         UNCHANGED <<stage, booted>>, \A u \in Worker : Fits(u),
         \A e \in Client \ {c} : cursor'[e] = cursor[e],
         \A u \in Worker \ {t} : seen'[u] = seen[u],
         p = RecordAt(cursor'[c] - Concurrency),
         \/ next \in {"poll", "booted"} /\ seen'[t] = NotSeen
         \/ /\ next = "resume" /\ seen'[t] # NotSeen
            /\ seen'[t].record = RecordAt(seen'[t].cursor - Concurrency)
  PROVE  \A u \in Worker : Fits(u)'
<1>1. HandlerTypes /\ PlainTypes /\ c \in Client /\ Mine(t) \subseteq Client
  BY TypeSplit, Slices
<1>2. /\ pc'[t] = next /\ (state'[c] \in InFlight => record'[c] = p)
      /\ \A u \in Worker \ {t} : pc'[u] = pc[u]
      /\ \A e \in Client \ {c} : state'[e] = state[e] /\ record'[e] = record[e]
  BY <1>1 DEF Waits, HandlerTypes
<1>3. \A u \in Worker \ {t} : Fits(u)'
  BY <1>2, OthersFit
<1>4. \A n : RecordAt(n)' = RecordAt(n)
  BY DEF RecordAt, DurationMode, StageKind
<1> HIDE DEF Mine, Share, RecordAt
<1>5. CursorsFit(t)'
  <2> SUFFICES ASSUME NEW e \in Mine(t), state'[e] \in InFlight
               PROVE  record'[e] = RecordAt(cursor[e] - Concurrency)'
    BY DEF CursorsFit
  <2>1. CASE e = c
    BY <1>2, <1>4, <2>1 DEF RecordAt
  <2>2. CASE e # c
    <3>1. record[e] = RecordAt(cursor[e] - Concurrency) /\ record'[e] = record[e]
          /\ cursor'[e] = cursor[e]
      BY <1>1, <1>2, <2>2 DEF Fits, CursorsFit
    <3> QED BY <1>4, <3>1 DEF RecordAt
  <2> QED BY <2>1, <2>2
<1>6. Framed(t)'
  BY <1>2, <1>4 DEF Framed, RecordAt
<1> QED BY <1>3, <1>5, <1>6 DEF Fits

\* Every step keeps the records and the frames.
LEMMA NextFits ==
  ASSUME IInv, \A u \in Worker : Counted(u) /\ Fits(u), [Next]_vars
  PROVE  \A u \in Worker : Fits(u)'
<1>1. TypeOK /\ HandlerTypes /\ PlainTypes /\ (\A u \in Worker : WorkerOK(u))
  BY TypeSplit, WorkersSplit DEF IInv
<1>2. \A t \in Worker : Mine(t) \subseteq Client
  BY Slices
<1>3. ASSUME stage' = stage PROVE \A n : RecordAt(n)' = RecordAt(n)
  BY <1>3 DEF RecordAt, DurationMode, StageKind
<1>4. Concurrency \in Nat
  BY ConfigAssumption
<1> HIDE DEF Mine, Share, First
<1>5. ASSUME UNCHANGED <<stage, state, record, cursor, pc, seen, booted>>
      PROVE  \A u \in Worker : Fits(u)'
  BY <1>5 DEF Fits, CursorsFit, Framed, Booting, RecordAt, DurationMode, StageKind
<1>6. CASE BeginPhase
  <2>1. \A u \in Worker : pc[u] = "parked" /\ pc'[u] = "run" /\ Busied(u) = {}
    BY <1>6 DEF BeginPhase, Counted
  <2>2. UNCHANGED <<state, record, cursor, seen>>
    BY <1>6 DEF BeginPhase, frameVars
  <2>3. \A u \in Worker : \A e \in Mine(u) : state'[e] \notin InFlight
    BY <2>1, <2>2 DEF Busied, InFlight
  <2>4. \A u \in Worker : seen'[u] = NotSeen
    BY <2>1, <2>2 DEF Fits, Framed
  <2>5. \A u \in Worker : CursorsFit(u)' /\ Framed(u)'
    BY <2>1, <2>3, <2>4 DEF CursorsFit, Framed
  <2> QED BY <2>5 DEF Fits
<1>7. CASE StopWorkers
  <2>1. /\ \A u \in Worker : pc'[u] = "stopped"
        /\ UNCHANGED <<stage, state, record, cursor, seen>>
    BY <1>7 DEF StopWorkers, frameVars
  <2>2. \A u \in Worker : CursorsFit(u)' /\ Framed(u)'
    BY <1>3, <2>1 DEF Fits, CursorsFit, Framed, RecordAt
  <2> QED BY <2>2 DEF Fits
<1>8. CASE Environment \/ UNCHANGED vars
  BY <1>5, <1>8 DEF Environment, Answer, PeerCloses, RequestExpires, DeadlinePasses, vars,
                    phaseVars, frameVars
<1>9. ASSUME NEW t \in Worker, Run(t) \/ BootDone(t) \/ Booted(t) \/ LeaveLoop(t) \/ Throw(t)
      PROVE  \A u \in Worker : Fits(u)'
  <2>1. /\ UNCHANGED <<stage, state, record, cursor, seen>>
        /\ \A u \in Worker \ {t} : pc'[u] = pc[u] /\ booted'[u] = booted[u]
        /\ \/ pc[t] \in {"run", "boot", "booted", "poll"} /\ pc'[t] \in {"boot", "parked", "poll"}
           \/ pc'[t] = "failed"
    BY <1>1, <1>9 DEF Run, BootDone, Booted, LeaveLoop, Throw, phaseVars, frameVars,
                      HandlerTypes, PlainTypes
  <2>2. Framed(t)'
    BY <2>1 DEF Fits, Framed
  <2> QED BY <1>1, <2>1, <2>2, QuietFit
<1>10. ASSUME NEW t \in Worker, Boot(t)
       PROVE  \A u \in Worker : Fits(u)'
  <2> DEFINE c == First(t) + booted[t]
  <2>1. c \in Mine(t) /\ c \in Client
    BY <1>1, <1>2, <1>10, BootVisitsMine DEF Boot, PlainTypes
  <2>2. /\ UNCHANGED <<stage, state, record, seen, booted>>
        /\ \A e \in Client \ {c} : cursor'[e] = cursor[e]
        /\ state[c] # "IDLE" => cursor'[c] = cursor[c]
        /\ \A u \in Worker \ {t} : pc'[u] = pc[u]
        /\ pc[t] = "boot" /\ pc'[t] \in {"enter", "failed"}
    BY <1>1, <1>10, <2>1 DEF Boot, phaseVars, frameVars, HandlerTypes, PlainTypes
  <2> HIDE DEF c
  <2>3. \A e \in Client : state[e] \in InFlight => cursor'[e] = cursor[e]
    BY <2>2 DEF InFlight
  <2>4. \A u \in Worker : CursorsFit(u)'
    <3> SUFFICES ASSUME NEW u \in Worker, NEW e \in Mine(u), state[e] \in InFlight
                 PROVE  record[e] = RecordAt(cursor[e] - Concurrency)'
      BY <2>2 DEF CursorsFit
    <3>1. record[e] = RecordAt(cursor[e] - Concurrency) /\ cursor'[e] = cursor[e]
      BY <1>2, <2>3 DEF Fits, CursorsFit
    <3> QED BY <1>3, <2>2, <3>1 DEF RecordAt
  <2>5. \A u \in Worker \ {t} : Framed(u)'
    <3> SUFFICES ASSUME NEW u \in Worker \ {t} PROVE Framed(u)'
      OBVIOUS
    <3>1. Booting(u)' = Booting(u) /\ seen'[u].record = seen[u].record
          /\ seen'[u].cursor = seen[u].cursor
      BY <2>2 DEF Booting
    <3> HIDE DEF Booting
    <3> QED BY <1>3, <2>2, <3>1 DEF Fits, Framed, RecordAt
  <2>6. Framed(t)'
    BY <2>2 DEF Fits, Framed
  <2> QED BY <2>4, <2>5, <2>6 DEF Fits
<1>11. ASSUME NEW t \in Worker, CheckNext(t)
       PROVE  \A u \in Worker : Fits(u)'
  <2>1. /\ UNCHANGED <<stage, state, record, cursor, seen, booted>>
        /\ \A u \in Worker \ {t} : pc'[u] = pc[u]
        /\ pc[t] \in {"enter", "check"} /\ pc'[t] = "claim"
    BY <1>1, <1>11 DEF CheckNext, phaseVars, frameVars, HandlerTypes
  <2>2. Booting(t)' = Booting(t) /\ seen'[t].record = seen[t].record
        /\ seen'[t].cursor = seen[t].cursor
    BY <2>1 DEF Booting
  <2> HIDE DEF Booting
  <2>3. Framed(t)'
    BY <1>3, <2>1, <2>2 DEF Fits, Framed, RecordAt
  <2> QED BY <1>1, <2>1, <2>3, QuietFit
<1>12. ASSUME NEW t \in Worker, CheckRest(t)
       PROVE  \A u \in Worker : Fits(u)'
  <2>1. state[conn[t]] = "IDLE" /\ conn[t] \in Client
    BY <1>1, <1>2, <1>12 DEF CheckRest, WorkerOK
  <2>2. /\ UNCHANGED <<stage, state, cursor, seen>>
        /\ \A d \in Client : state[d] \in InFlight => record'[d] = record[d]
        /\ \A u \in Worker \ {t} : pc'[u] = pc[u] /\ booted'[u] = booted[u]
        /\ \/ pc[t] = "enter" /\ pc'[t] = "boot"
           \/ pc[t] = "check" /\ pc'[t] = ReturnTo(t)
    BY <1>1, <1>12, <2>1 DEF CheckRest, phaseVars, HandlerTypes, PlainTypes, InFlight
  <2>3. Framed(t)'
    <3>1. CASE pc[t] = "enter" /\ pc'[t] = "boot"
      BY <2>2, <3>1 DEF Fits, Framed
    <3>2. CASE pc[t] = "check" /\ pc'[t] = ReturnTo(t)
      <4>1. /\ pc'[t] \in {"booted", "poll", "resume"} /\ (pc'[t] = "booted" => Booting(t))
            /\ (pc'[t] = "poll" => seen[t] = NotSeen) /\ (pc'[t] = "resume" => seen[t] # NotSeen)
        BY <3>2 DEF ReturnTo, Booting
      <4>2. seen'[t].record = seen[t].record /\ seen'[t].cursor = seen[t].cursor
        BY <2>2
      <4> HIDE DEF Booting
      <4> QED BY <1>3, <2>2, <3>2, <4>1, <4>2 DEF Fits, Framed, RecordAt
    <3> QED BY <2>2, <3>1, <3>2
  <2> QED BY <1>1, <2>2, <2>3, QuietFit
<1>13. ASSUME NEW t \in Worker, Claim(t)
       PROVE  \A u \in Worker : Fits(u)'
  <2> DEFINE c == conn[t]
  <2>1. /\ UNCHANGED <<stage, booted, seen>> /\ pc[t] = "claim" /\ c \in Mine(t) /\ c \in Client
        /\ cursor[c] \in Nat /\ cursor' = [cursor EXCEPT ![c] = cursor[c] + Concurrency]
    BY <1>1, <1>2, <1>13 DEF Claim, phaseVars, frameVars, WorkerOK, PlainTypes
  <2>2. cursor'[c] - Concurrency = cursor[c] /\ \A e \in Client \ {c} : cursor'[e] = cursor[e]
    BY <1>1, <1>4, <2>1 DEF PlainTypes
  <2>3. /\ ReturnTo(t) \in {"booted", "poll", "resume"} /\ (ReturnTo(t) = "booted" => Booting(t))
        /\ (ReturnTo(t) = "poll" => seen[t] = NotSeen) /\ (ReturnTo(t) = "resume" => seen[t] # NotSeen)
    BY DEF ReturnTo, Booting
  <2>4. \/ seen[t] = NotSeen
        \/ seen[t].record = RecordAt(seen[t].cursor - Concurrency) /\ ~Booting(t)
    BY <2>1 DEF Fits, Framed
  <2>5. seen'[t].record = seen[t].record /\ seen'[t].cursor = seen[t].cursor /\ seen'[t] = seen[t]
    BY <2>1
  <2>6. Ends(t, c) \/ Waits(t, c, RecordAt(cursor[c]), ReturnTo(t))
    BY <1>1, <1>13, ClaimShapes
  <2> HIDE DEF c, RecordAt, Booting
  <2>7. CASE Ends(t, c)
    BY <1>1, <2>1, <2>2, <2>4, <2>5, <2>7, EndsFit
  <2>8. CASE Waits(t, c, RecordAt(cursor[c]), ReturnTo(t))
    <3>1. RecordAt(cursor[c]) = RecordAt(cursor'[c] - Concurrency)
      BY <2>2
    <3>2. \/ ReturnTo(t) \in {"poll", "booted"} /\ seen'[t] = NotSeen
          \/ /\ ReturnTo(t) = "resume" /\ seen'[t] # NotSeen
             /\ seen'[t].record = RecordAt(seen'[t].cursor - Concurrency)
      BY <2>3, <2>4, <2>5
    <3> QED BY <1>1, <2>1, <2>2, <2>5, <2>8, <3>1, <3>2, WaitsFit
  <2> QED BY <2>6, <2>7, <2>8
<1>14. ASSUME NEW t \in Worker, Resume(t)
       PROVE  \A u \in Worker : Fits(u)'
  <2>1. /\ UNCHANGED <<stage, booted, cursor>> /\ pc[t] = "resume"
        /\ conn[t] \in Mine(t) /\ conn[t] \in Client
        /\ seen'[t] = NotSeen /\ \A u \in Worker \ {t} : seen'[u] = seen[u]
    BY <1>1, <1>2, <1>14 DEF Resume, phaseVars, WorkerOK, PlainTypes
  <2>2. CASE HandleRead(t, conn[t]) \/ FailCurrent(t, conn[t])
    BY <1>1, <2>1, <2>2, HandlerShapes, EndsFit
  <2>3. CASE pc' = [pc EXCEPT ![t] = "poll"] /\ UNCHANGED <<state, record>>
    <3>1. pc'[t] = "poll" /\ \A u \in Worker \ {t} : pc'[u] = pc[u]
      BY <1>1, <2>3 DEF HandlerTypes
    <3>2. Framed(t)'
      BY <2>1, <3>1 DEF Framed
    <3> QED BY <1>1, <2>1, <2>3, <3>1, <3>2, QuietFit
  <2> QED BY <1>14, <2>2, <2>3 DEF Resume
<1>15. ASSUME NEW t \in Worker, NEW c \in Mine(t), IdleHangup(t, c)
       PROVE  \A u \in Worker : Fits(u)'
  BY <1>5, <1>15 DEF IdleHangup, phaseVars, frameVars
<1>16. ASSUME NEW t \in Worker, NEW c \in Mine(t),
              \/ RetryDue(t, c) \/ Timeout(t, c) \/ WriteHangup(t, c) \/ ReadEvent(t, c)
              \/ HandleConnect(t, c)
       PROVE  \A u \in Worker : Fits(u)'
  <2>1. /\ UNCHANGED <<stage, booted, cursor, seen>> /\ pc[t] = "poll" /\ c \in Client
    BY <1>2, <1>16 DEF RetryDue, Timeout, WriteHangup, ReadEvent, HandleConnect,
                       phaseVars, frameVars
  <2>2. seen'[t] = NotSeen
    BY <2>1 DEF Fits, Framed
  <2>3. CASE RetryDue(t, c)
    <3>1. Ends(t, c)
      BY <2>3 DEF RetryDue, Ends
    <3> QED BY <1>1, <2>1, <2>2, <3>1, EndsFit
  <2>4. CASE FailCurrent(t, c) \/ HandleRead(t, c)
    <3>1. Ends(t, c)
      BY <1>1, <2>1, <2>4, HandlerShapes
    <3> QED BY <1>1, <2>1, <2>2, <3>1, EndsFit
  <2>5. CASE HandleConnect(t, c) /\ ~FailCurrent(t, c)
    <3>1. Ends(t, c) \/ Waits(t, c, record[c], "poll")
      BY <1>1, <2>1, <2>5, HandlerShapes DEF HandleConnect
    <3>2. record[c] = RecordAt(cursor'[c] - Concurrency)
      BY <2>1, <2>5 DEF HandleConnect, Fits, CursorsFit, InFlight
    <3> HIDE DEF RecordAt
    <3> QED BY <1>1, <2>1, <2>2, <3>1, <3>2, EndsFit, WaitsFit
  <2> QED BY <1>16, <2>3, <2>4, <2>5 DEF Timeout, WriteHangup, ReadEvent
<1>17. ASSUME NEW t \in Worker, NEW c \in Mine(t), WriteEvent(t, c)
       PROVE  \A u \in Worker : Fits(u)'
  <2>1. /\ UNCHANGED <<stage, booted, cursor>> /\ pc[t] = "poll" /\ c \in Client /\ ~Booting(t)
        /\ state[c] = "WRITING"
        /\ seen'[t] = [record |-> record[c], cursor |-> cursor[c], peer |-> sock[c]]
        /\ \A u \in Worker \ {t} : seen'[u] = seen[u]
    BY <1>1, <1>2, <1>17 DEF WriteEvent, phaseVars, PlainTypes, Counted
  <2>2. record[c] = RecordAt(cursor[c] - Concurrency)
    BY <2>1 DEF Fits, CursorsFit, InFlight
  <2>3. record[c] # NoRecord
    <3>1. record[c] \in Position
      BY <2>1 DEF IInv, ClientOK, InFlight
    <3> QED BY <3>1, ConfigAssumption DEF Position, NoRecord
  <2>4. seen'[t].record = record[c] /\ seen'[t].cursor = cursor[c] /\ cursor'[c] = cursor[c]
    BY <2>1
  <2>5. seen'[t] # NotSeen
    BY <2>3, <2>4 DEF NotSeen
  <2>6. Ends(t, c) \/ Waits(t, c, record[c], "resume")
    BY <1>1, <1>17, <2>1, HandlerShapes DEF WriteEvent
  <2> HIDE DEF RecordAt
  <2>7. seen'[t].record = RecordAt(seen'[t].cursor - Concurrency)
    BY <2>2, <2>4
  <2> QED BY <1>1, <2>1, <2>2, <2>4, <2>5, <2>6, <2>7, EndsFit, WaitsFit
<1>18. ASSUME NEW t \in Worker, WorkerStep(t) \/ Throw(t)
       PROVE  \A u \in Worker : Fits(u)'
  BY <1>9, <1>10, <1>11, <1>12, <1>13, <1>14, <1>15, <1>16, <1>17, <1>18 DEF WorkerStep
<1> QED BY <1>6, <1>7, <1>8, <1>18 DEF Next, Coordinator, Ended

\* It holds in every state the driver reaches.
LEMMA FitsHold == Spec => [](\A u \in Worker : Fits(u))
<1>1. Init => \A u \in Worker : Fits(u)
  <2> SUFFICES ASSUME Init, NEW u \in Worker PROVE Fits(u)
    OBVIOUS
  <2>1. Mine(u) \subseteq Client
    BY Slices
  <2> HIDE DEF Mine
  <2> QED BY <2>1 DEF Init, Fits, CursorsFit, Framed, InFlight
<1>2. IInv /\ (\A u \in Worker : Counted(u)) /\ (\A u \in Worker : Fits(u)) /\ [Next]_vars
        => (\A u \in Worker : Fits(u))'
  BY NextFits
<1> QED BY <1>1, <1>2, CountsHold, PTL DEF Spec

\* The rest of handle_event fails the request whose event it handles, or one
\* that reads the same record: a connection must come round the whole order
\* within one event for that, and only a timed phase goes round.
StaleNeedsALap ==
  \A t \in Worker :
    pc[t] = "resume" /\ FrameFails(t) =>
      \/ cursor[conn[t]] = seen[t].cursor
      \/ DurationMode /\ (cursor[conn[t]] - seen[t].cursor) % OrderSize = 0

\* Two numbers with the same remainder are a multiple apart.
LEMMA SameRemainder ==
  ASSUME NEW a \in Int, NEW b \in Int, NEW n \in Nat \ {0}, a % n = b % n
  PROVE  (a - b) % n = 0
<1> DEFINE q == a \div n
           r == b \div n
<1>1. q \in Int /\ r \in Int /\ a = n * q + (a % n) /\ b = n * r + (b % n)
  OBVIOUS
<1>2. a - b = n * (q - r)
  <2>1. a % n \in Int /\ b % n \in Int
    OBVIOUS
  <2> HIDE DEF q, r
  <2> QED BY <1>1, <2>1
<1>3. q - r \in Int
  BY <1>1
<1> HIDE DEF q, r
<1>4. (n * (q - r)) % n = 0
  BY <1>3
<1> QED BY <1>2, <1>4

\* What a stale event can spoil: the request it was read for or, in a timed phase,
\* one a whole number of rounds of the order later, whatever the counts.
THEOREM StaleEventsNeedALap == Spec => []StaleNeedsALap
<1>1. IInv /\ (\A u \in Worker : Fits(u)) => StaleNeedsALap
  <2> SUFFICES ASSUME IInv, \A u \in Worker : Fits(u), NEW t \in Worker,
                      pc[t] = "resume", FrameFails(t)
               PROVE  \/ cursor[conn[t]] = seen[t].cursor
                      \/ DurationMode /\ (cursor[conn[t]] - seen[t].cursor) % OrderSize = 0
    BY DEF StaleNeedsALap
  <2> DEFINE a == cursor[conn[t]]
             b == seen[t].cursor
  <2>1. HandlerTypes /\ PlainTypes /\ conn[t] \in Mine(t)
    BY TypeSplit DEF IInv, Owned
  <2>2. conn[t] \in Client
    BY <2>1 DEF HandlerTypes
  <2>3. a \in Nat /\ b \in Nat /\ Concurrency \in Nat /\ OrderSize \in Nat \ {0}
    BY <2>1, <2>2, ConfigAssumption DEF PlainTypes
  <2>4. state[conn[t]] \in InFlight /\ record[conn[t]] = seen[t].record
    BY DEF FrameFails, FrameSame, InFlight
  <2>5. RecordAt(a - Concurrency) = RecordAt(b - Concurrency)
    BY <2>1, <2>4 DEF Fits, CursorsFit, Framed
  <2> HIDE DEF a, b, DurationMode
  <2>6. CASE DurationMode
    <3>1. (a - Concurrency) % OrderSize = (b - Concurrency) % OrderSize
      BY <2>5, <2>6 DEF RecordAt
    <3>2. ((a - Concurrency) - (b - Concurrency)) % OrderSize = 0
      <4>1. a - Concurrency \in Int /\ b - Concurrency \in Int
        BY <2>3
      <4> QED BY <2>3, <3>1, <4>1, SameRemainder
    <3>3. (a - Concurrency) - (b - Concurrency) = a - b
      BY <2>3
    <3> QED BY <2>6, <3>2, <3>3 DEF a, b
  <2>7. CASE ~DurationMode
    <3>1. a = b
      BY <2>3, <2>5, <2>7 DEF RecordAt
    <3> QED BY <3>1 DEF a, b
  <2> QED BY <2>6, <2>7
<1> QED BY <1>1, CountsHold, FitsHold, PTL

\* A run without warmup and without --duration goes through the order once, and
\* there no stale event ever fails a request started since.
THEOREM OneRoundSparesFresh == ~Warmup /\ ~Duration => (Spec => []StaleEventsSpareFresh)
<1> SUFFICES ASSUME ~Warmup, ~Duration PROVE Spec => []StaleEventsSpareFresh
  OBVIOUS
<1>1. StaleNeedsALap => StaleEventsSpareFresh
  BY DEF StaleNeedsALap, StaleEventsSpareFresh, DurationMode, StageKind
<1> QED BY <1>1, StaleEventsNeedALap, PTL

-----------------------------------------------------------------------------
(* The driver implements a closed loop.                                    *)

\* Every connection is some worker's.
LEMMA SlicesCover ==
  ASSUME NEW c \in Client
  PROVE  \E t \in Worker : c \in Mine(t)
<1> DEFINE d == Concurrency \div Threads
           r == Concurrency % Threads
<1>1. d \in Nat \ {0} /\ r \in 0 .. Threads - 1 /\ Concurrency = Threads * d + r
  BY ConfigAssumption
<1>2. Threads \in Nat /\ c \in Nat /\ c < Concurrency
  BY ConfigAssumption DEF Client
<1>3. ASSUME NEW t \in Worker
      PROVE  /\ First(t) = t * d + (IF t < r THEN t ELSE r)
             /\ Share(t) = d + (IF t < r THEN 1 ELSE 0)
  BY DEF First, Share
<1> HIDE DEF d, r
<1>4. CASE c < r * (d + 1)
  <2> DEFINE q == c \div (d + 1)
             m == c % (d + 1)
  <2>1. q \in Nat /\ m \in 0 .. d /\ c = q * (d + 1) + m
    <3> DEFINE n == d + 1
    <3>1. n \in Nat /\ n > 0 /\ n - 1 = d
      BY <1>1
    <3> HIDE DEF n
    <3>2. c \div n \in Nat /\ c % n \in 0 .. n - 1 /\ c = (c \div n) * n + (c % n)
      BY <1>2, <3>1
    <3> QED BY <3>1, <3>2 DEF n
  <2> HIDE DEF q, m
  <2>2. q < r
    <3>1. CASE q >= r
      <4>1. r * (d + 1) <= q * (d + 1)
        <5>1. CASE q = r
          BY <1>1, <2>1, <5>1
        <5>2. CASE q > r
          <6>1. r * (d + 1) + (d + 1) <= q * (d + 1)
            BY <1>1, <2>1, <5>2, MulMono
          <6> QED BY <1>1, <2>1, <6>1
        <5> QED BY <1>1, <2>1, <3>1, <5>1, <5>2
      <4> QED BY <1>1, <1>2, <1>4, <2>1, <4>1
    <3> QED BY <1>1, <2>1, <3>1
  <2>3. q \in Worker
    BY <1>1, <1>2, <2>1, <2>2 DEF Worker
  <2>4. First(q) = q * (d + 1) /\ Share(q) = d + 1
    BY <1>1, <1>3, <2>1, <2>2, <2>3
  <2>5. q * (d + 1) \in Nat
    BY <1>1, <2>1
  <2> HIDE DEF First, Share
  <2>6. c \in Mine(q)
    BY <1>1, <1>2, <2>1, <2>4, <2>5 DEF Mine
  <2> QED BY <2>3, <2>6
<1>5. CASE c >= r * (d + 1)
  <2> DEFINE e == c - r * (d + 1)
             q == e \div d
             m == e % d
             t == r + q
  <2>1. e \in Nat
    BY <1>1, <1>2, <1>5
  <2> HIDE DEF e
  <2>2. q \in Nat /\ m \in 0 .. d - 1 /\ e = q * d + m
    BY <1>1, <2>1
  <2> HIDE DEF q, m
  <2>3. c = r * (d + 1) + q * d + m
    BY <1>1, <1>2, <2>2 DEF e
  <2>4. t * d = r * d + q * d /\ r * (d + 1) = r * d + r
        /\ r * d \in Nat /\ q * d \in Nat /\ t \in Nat
    BY <1>1, <2>2
  <2>5. c = t * d + r + m
    BY <1>1, <2>2, <2>3, <2>4
  <2>6. ~(t < r)
    BY <1>1, <2>2
  <2> HIDE DEF t
  <2>7. t < Threads
    <3>1. CASE t >= Threads
      <4>1. Threads * d <= t * d
        <5>1. CASE t = Threads
          BY <1>1, <1>2, <2>4, <5>1
        <5>2. CASE t > Threads
          <6>1. Threads * d + d <= t * d
            BY <1>1, <1>2, <2>4, <5>2, MulMono
          <6> QED BY <1>1, <1>2, <2>4, <6>1
        <5> QED BY <1>2, <2>4, <3>1, <5>1, <5>2
      <4>2. Threads * d \in Nat /\ t * d \in Nat
        BY <1>1, <1>2, <2>4
      <4> QED BY <1>1, <1>2, <2>2, <2>5, <4>1, <4>2
    <3> QED BY <1>2, <2>4, <3>1
  <2>8. t \in Worker
    BY <1>2, <2>4, <2>7 DEF Worker
  <2>9. First(t) = t * d + r /\ Share(t) = d /\ t * d \in Nat
    BY <1>1, <1>3, <2>4, <2>6, <2>8
  <2> HIDE DEF First, Share
  <2>10. c \in Mine(t)
    BY <1>1, <1>2, <2>2, <2>5, <2>9 DEF Mine
  <2> QED BY <2>8, <2>10
<1> QED BY <1>1, <1>2, <1>4, <1>5

\* The tallies add up: one more of a worker's is one more in total.
LEMMA TotalAdds ==
  ASSUME NEW f \in [Worker -> Nat], NEW t \in Worker
  PROVE  /\ Total(f) \in Nat
         /\ Total([f EXCEPT ![t] = @ + 1]) = Total(f) + 1
<1> DEFINE g == [f EXCEPT ![t] = @ + 1]
           All(h) == UNION {{u} \X (1 .. h[u]) : u \in Worker}
           F == [u \in Worker |-> {u} \X (1 .. f[u])]
           I == {{u} \X (1 .. f[u]) : u \in Worker}
<1>1. IsFiniteSet(I)
  <2>1. F \in Surjection(Worker, I)
    BY DEF Surjection
  <2>2. IsFiniteSet(Worker)
    BY WorkerCount
  <2> HIDE DEF F, I
  <2> QED BY <2>1, <2>2, FS_Surjection
<1>2. ASSUME NEW u \in Worker
      PROVE  IsFiniteSet({u} \X (1 .. f[u]))
  <2>1. IsFiniteSet({u})
    BY FS_Singleton
  <2>2. IsFiniteSet(1 .. f[u])
    <3>1. 1 \in Int /\ f[u] \in Int
      OBVIOUS
    <3> QED BY <3>1, FS_Interval
  <2> QED BY <2>1, <2>2, FS_Product
<1>3. IsFiniteSet(All(f))
  BY <1>1, <1>2, FS_UNION
<1>4. All(g) = All(f) \union {<<t, f[t] + 1>>} /\ <<t, f[t] + 1>> \notin All(f)
  <2>1. \A u \in Worker : g[u] = (IF u = t THEN f[u] + 1 ELSE f[u]) /\ f[u] \in Nat
    OBVIOUS
  <2>2. 1 .. (f[t] + 1) = 1 .. f[t] \union {f[t] + 1} /\ f[t] + 1 \notin 1 .. f[t]
    BY <2>1
  <2>3. ASSUME NEW x PROVE x \in All(g) <=> x \in All(f) \union {<<t, f[t] + 1>>}
    <3>1. x \in All(g) <=> \E u \in Worker : x \in {u} \X (1 .. g[u])
      OBVIOUS
    <3>2. x \in All(f) <=> \E u \in Worker : x \in {u} \X (1 .. f[u])
      OBVIOUS
    <3>3. x \in {t} \X (1 .. g[t]) <=> x \in {t} \X (1 .. f[t]) \/ x = <<t, f[t] + 1>>
      BY <2>1, <2>2
    <3>4. \A u \in Worker \ {t} : {u} \X (1 .. g[u]) = {u} \X (1 .. f[u])
      BY <2>1
    <3> HIDE DEF g, All
    <3> QED BY <3>1, <3>2, <3>3, <3>4
  <2>4. <<t, f[t] + 1>> \notin All(f)
    BY <2>2
  <2> HIDE DEF g, All
  <2> QED BY <2>3, <2>4
<1> HIDE DEF g, All
<1>5. Cardinality(All(g)) = Cardinality(All(f)) + 1 /\ Cardinality(All(f)) \in Nat
  BY <1>3, <1>4, FS_AddElement, FS_CardinalityType
<1> QED BY <1>5 DEF Total, All, g

\* Nothing counted is nothing in total.
LEMMA TotalZero == Total([t \in Worker |-> 0]) = 0
<1>1. UNION {{t} \X (1 .. [u \in Worker |-> 0][t]) : t \in Worker} = {}
  OBVIOUS
<1> QED BY <1>1, FS_EmptySet DEF Total

\* A worker charges, or credits, the request it ended if the phase is measured.
Charging(t) ==
  /\ errors' = IF Measuring THEN [errors EXCEPT ![t] = @ + 1] ELSE errors
  /\ UNCHANGED successes
Crediting(t) ==
  /\ successes' = IF Measuring THEN [successes EXCEPT ![t] = @ + 1] ELSE successes
  /\ UNCHANGED errors

\* The request of c ends, and its connection has no record any more.
EndsClean(t, c) == Ends(t, c) /\ record' = [record EXCEPT ![c] = NoRecord]

\* The request of c is under way with record p.
Holds(t, c, p, next) ==
  /\ pc' = [pc EXCEPT ![t] = next]
  /\ record' = [record EXCEPT ![c] = p]
  /\ UNCHANGED <<successes, errors>>

\* What the handlers do to the books.
LEMMA HandlerBooks ==
  ASSUME TypeOK, NEW t \in Worker, NEW c \in Client
  PROVE  /\ FailCurrent(t, c) => EndsClean(t, c) /\ Charging(t)
         /\ HandleRead(t, c) => EndsClean(t, c) /\ (Charging(t) \/ Crediting(t))
         /\ \A p, q, s, next : HandleWrite(t, c, p, q, s, next) =>
              FailCurrent(t, c) \/ Holds(t, c, p, next)
<1>1. HandlerTypes
  BY TypeSplit
<1>2. FinishCurrent(t, c) => EndsClean(t, c)
  BY <1>1 DEF FinishCurrent, Ends, EndsClean, HandlerTypes
<1>3. RecordError(t) /\ UNCHANGED successes => Charging(t)
  BY DEF RecordError, Charging
<1>4. FailCurrent(t, c) => EndsClean(t, c) /\ Charging(t)
  BY <1>2, <1>3 DEF FailCurrent
<1>5. CompleteResponse(t, c) => EndsClean(t, c) /\ (Charging(t) \/ Crediting(t))
  <2> SUFFICES ASSUME CompleteResponse(t, c)
               PROVE  EndsClean(t, c) /\ (Charging(t) \/ Crediting(t))
    OBVIOUS
  <2>1. EndsClean(t, c)
    BY <1>2 DEF CompleteResponse
  <2>2. CASE RecordError(t) /\ UNCHANGED successes
    BY <1>3, <2>1, <2>2
  <2>3. CASE /\ successes' = [successes EXCEPT ![t] = IF Measuring THEN @ + 1 ELSE @]
             /\ UNCHANGED errors
    BY <1>1, <2>1, <2>3 DEF Crediting, HandlerTypes
  <2> QED BY <2>2, <2>3 DEF CompleteResponse
<1>6. HandleRead(t, c) => EndsClean(t, c) /\ (Charging(t) \/ Crediting(t))
  BY <1>4, <1>5 DEF HandleRead
<1>7. ASSUME NEW p, NEW q, NEW s, NEW next, HandleWrite(t, c, p, q, s, next)
      PROVE  FailCurrent(t, c) \/ Holds(t, c, p, next)
  BY <1>7 DEF HandleWrite, Await, Holds, statVars
<1> QED BY <1>4, <1>6, <1>7

\* A phase that is not measured has empty books, and its workers run only while
\* its kind is set.
Booked ==
  /\ stage = 0 => kind = "STOP"
  /\ kind = "STOP" => \A t \in Worker : pc[t] \in {"parked", "stopped"}
  /\ stage = 0 \/ kind = "WARMUP" => \A t \in Worker : successes[t] = 0 /\ errors[t] = 0

\* Every step of a worker leaves the phase alone, and its books if the phase is
\* not measured.
LEMMA WorkerBooks ==
  ASSUME TypeOK, NEW t \in Worker, WorkerStep(t) \/ Throw(t)
  PROVE  /\ UNCHANGED <<stage, kind>>
         /\ pc[t] \notin {"parked", "stopped"}
         /\ \A u \in Worker \ {t} : pc'[u] = pc[u]
         /\ ~Measuring => UNCHANGED <<successes, errors>>
<1>1. HandlerTypes
  BY TypeSplit
<1>2. \A c \in Mine(t) : c \in Client
  BY Slices
<1> HIDE DEF Mine, Share, First
<1>3. \A c \in Client :
        /\ FailCurrent(t, c) => /\ \A u \in Worker \ {t} : pc'[u] = pc[u]
                                /\ ~Measuring => UNCHANGED <<successes, errors>>
        /\ HandleRead(t, c) => /\ \A u \in Worker \ {t} : pc'[u] = pc[u]
                               /\ ~Measuring => UNCHANGED <<successes, errors>>
        /\ \A p, q, s, next : HandleWrite(t, c, p, q, s, next) =>
             /\ \A u \in Worker \ {t} : pc'[u] = pc[u]
             /\ ~Measuring => UNCHANGED <<successes, errors>>
  BY <1>1, HandlerBooks DEF EndsClean, Ends, Holds, Charging, Crediting, HandlerTypes
<1>4. ASSUME \/ Run(t) \/ Boot(t) \/ BootDone(t) \/ CheckNext(t) \/ CheckRest(t)
             \/ Booted(t) \/ LeaveLoop(t) \/ Throw(t)
      PROVE  /\ UNCHANGED <<stage, kind>> /\ pc[t] \notin {"parked", "stopped"}
             /\ \A u \in Worker \ {t} : pc'[u] = pc[u]
             /\ ~Measuring => UNCHANGED <<successes, errors>>
  <2>1. CASE Run(t)
    BY <1>1, <2>1 DEF Run, phaseVars, HandlerTypes
  <2>2. CASE \/ Boot(t) \/ BootDone(t) \/ CheckNext(t) \/ CheckRest(t)
             \/ Booted(t) \/ LeaveLoop(t) \/ Throw(t)
    BY <1>1, <2>2 DEF Boot, BootDone, CheckNext, CheckRest, Booted, LeaveLoop, Throw,
                      phaseVars, statVars, HandlerTypes
  <2> QED BY <1>4, <2>1, <2>2
<1>5. ASSUME Claim(t)
      PROVE  /\ UNCHANGED <<stage, kind>> /\ pc[t] \notin {"parked", "stopped"}
             /\ \A u \in Worker \ {t} : pc'[u] = pc[u]
             /\ ~Measuring => UNCHANGED <<successes, errors>>
  <2>1. /\ UNCHANGED <<stage, kind>> /\ pc[t] = "claim" /\ conn[t] \in Client
    BY <1>1, <1>5 DEF Claim, phaseVars, HandlerTypes
  <2>2. \/ \E p, q, s, next : HandleWrite(t, conn[t], p, q, s, next)
        \/ \E p, s, next : Await(t, conn[t], "CONNECTING", p, s, next)
        \/ \E next : RecordError(t) /\ pc' = [pc EXCEPT ![t] = next] /\ UNCHANGED successes
    BY <1>5 DEF Claim, OpenConnection
  <2>3. CASE \E p, s, next : Await(t, conn[t], "CONNECTING", p, s, next)
    BY <1>1, <2>1, <2>3 DEF Await, statVars, HandlerTypes
  <2>4. CASE \E next : RecordError(t) /\ pc' = [pc EXCEPT ![t] = next] /\ UNCHANGED successes
    BY <1>1, <2>1, <2>4 DEF RecordError, HandlerTypes
  <2> QED BY <1>3, <2>1, <2>2, <2>3, <2>4
<1>6. ASSUME Resume(t)
      PROVE  /\ UNCHANGED <<stage, kind>> /\ pc[t] \notin {"parked", "stopped"}
             /\ \A u \in Worker \ {t} : pc'[u] = pc[u]
             /\ ~Measuring => UNCHANGED <<successes, errors>>
  <2>1. UNCHANGED <<stage, kind>> /\ pc[t] = "resume" /\ conn[t] \in Client
    BY <1>1, <1>6 DEF Resume, phaseVars, HandlerTypes
  <2>2. CASE HandleRead(t, conn[t]) \/ FailCurrent(t, conn[t])
    BY <1>3, <2>1, <2>2
  <2>3. CASE pc' = [pc EXCEPT ![t] = "poll"] /\ UNCHANGED statVars
    BY <1>1, <2>1, <2>3 DEF statVars, HandlerTypes
  <2> QED BY <1>6, <2>2, <2>3 DEF Resume
<1>7. ASSUME NEW c \in Mine(t),
             \/ IdleHangup(t, c) \/ RetryDue(t, c) \/ Timeout(t, c) \/ HandleConnect(t, c)
             \/ WriteEvent(t, c) \/ WriteHangup(t, c) \/ ReadEvent(t, c)
      PROVE  /\ UNCHANGED <<stage, kind>> /\ pc[t] \notin {"parked", "stopped"}
             /\ \A u \in Worker \ {t} : pc'[u] = pc[u]
             /\ ~Measuring => UNCHANGED <<successes, errors>>
  <2>1. UNCHANGED <<stage, kind>> /\ pc[t] = "poll"
    BY <1>7 DEF IdleHangup, RetryDue, Timeout, HandleConnect, WriteEvent, WriteHangup,
                ReadEvent, phaseVars
  <2>2. CASE IdleHangup(t, c) \/ RetryDue(t, c)
    BY <1>1, <2>1, <2>2 DEF IdleHangup, RetryDue, statVars, HandlerTypes
  <2>3. CASE Timeout(t, c) \/ HandleConnect(t, c) \/ WriteEvent(t, c) \/ WriteHangup(t, c)
             \/ ReadEvent(t, c)
    BY <1>2, <1>3, <2>1, <2>3 DEF Timeout, HandleConnect, WriteEvent, WriteHangup, ReadEvent
  <2> QED BY <1>7, <2>2, <2>3
<1> QED BY <1>4, <1>5, <1>6, <1>7 DEF WorkerStep

\* The books are empty where they should be.
LEMMA NextBooked ==
  ASSUME TypeOK, Booked, [Next]_vars
  PROVE  Booked'
<1>1. HandlerTypes /\ PlainTypes
  BY TypeSplit
<1>2. CASE BeginPhase
  <2>1. /\ stage' = stage + 1 /\ kind' = StageKind(stage + 1) /\ UNCHANGED <<successes, errors>>
    BY <1>2 DEF BeginPhase, statVars
  <2>2. stage \in Nat /\ stage' # 0
    BY <1>1, <2>1, StageKindType DEF PlainTypes
  <2>3. kind' = "WARMUP" => stage = 0
    BY <2>1, <2>2 DEF StageKind
  <2>4. kind' # "STOP"
    BY <2>1 DEF StageKind
  <2> QED BY <2>1, <2>2, <2>3, <2>4 DEF Booked
<1>3. CASE StopWorkers
  <2>1. /\ kind' = "STOP" /\ UNCHANGED <<stage, successes, errors>>
        /\ \A t \in Worker : pc'[t] = "stopped"
    BY <1>3 DEF StopWorkers, statVars
  <2> QED BY <2>1 DEF Booked
<1>4. CASE Environment \/ UNCHANGED vars
  BY <1>4 DEF Environment, Answer, PeerCloses, RequestExpires, DeadlinePasses, vars,
              phaseVars, statVars, Booked
<1>5. ASSUME NEW t \in Worker, WorkerStep(t) \/ Throw(t)
      PROVE  Booked'
  <2>1. /\ UNCHANGED <<stage, kind>>
        /\ pc[t] \notin {"parked", "stopped"}
        /\ ~Measuring => UNCHANGED <<successes, errors>>
    BY <1>5, WorkerBooks
  <2> QED BY <2>1 DEF Booked, Measuring
<1> QED BY <1>2, <1>3, <1>4, <1>5 DEF Next, Coordinator, Ended

\* The step of worker t changes nothing the closed loop sees.
LEMMA Stutters ==
  ASSUME TypeOK, NEW t \in Worker, UNCHANGED <<kind, started, record, successes, errors>>,
         \A u \in Worker : pc'[u] = "run" <=> pc[u] = "run"
  PROVE  UNCHANGED Promise!vars
<1>1. Measuring' = Measuring /\ Busy' = Busy /\ started' = started
  BY DEF Measuring, Busy
<1>2. Credits' = Credits /\ Charges' = Charges
  BY DEF Credits, Charges, Credited, Charged
<1>3. Total(Credits)' = Total(Credits) /\ Total(Charges)' = Total(Charges)
  BY <1>2 DEF Total
<1> QED BY <1>1, <1>3 DEF Promise!vars

\* A credit or a charge is one more in total.
LEMMA BooksMove ==
  ASSUME TypeOK, NEW t \in Worker, pc[t] # "run",
         \A u \in Worker : pc'[u] = "run" <=> pc[u] = "run"
  PROVE  /\ Charging(t) =>
              /\ Total(Charges)' = IF Measuring THEN Total(Charges) + 1 ELSE Total(Charges)
              /\ Total(Credits)' = Total(Credits)
         /\ Crediting(t) =>
              /\ Total(Credits)' = IF Measuring THEN Total(Credits) + 1 ELSE Total(Credits)
              /\ Total(Charges)' = Total(Charges)
         /\ UNCHANGED <<successes, errors>> =>
              /\ Total(Charges)' = Total(Charges)
              /\ Total(Credits)' = Total(Credits)
<1>1. HandlerTypes
  BY TypeSplit
<1>2. Credits \in [Worker -> Nat] /\ Charges \in [Worker -> Nat]
  BY <1>1 DEF Credits, Charges, Credited, Charged, HandlerTypes
<1>3. UNCHANGED successes => Credits' = Credits
  BY DEF Credits, Credited
<1>4. UNCHANGED errors => Charges' = Charges
  BY DEF Charges, Charged
<1>5. successes' = [successes EXCEPT ![t] = @ + 1] => Credits' = [Credits EXCEPT ![t] = @ + 1]
  BY <1>1 DEF Credits, Credited, HandlerTypes
<1>6. errors' = [errors EXCEPT ![t] = @ + 1] => Charges' = [Charges EXCEPT ![t] = @ + 1]
  BY <1>1 DEF Charges, Charged, HandlerTypes
<1>7. Total(Credits)' = Total(Credits') /\ Total(Charges)' = Total(Charges')
  BY DEF Total
<1>8. /\ Total([Credits EXCEPT ![t] = @ + 1]) = Total(Credits) + 1
      /\ Total([Charges EXCEPT ![t] = @ + 1]) = Total(Charges) + 1
  BY <1>2, TotalAdds
<1> HIDE DEF Credits, Charges, Total
<1> QED BY <1>3, <1>4, <1>5, <1>6, <1>7, <1>8 DEF Charging, Crediting

\* A handler that ends a request finishes its client.
LEMMA EndsRefine ==
  ASSUME TypeOK, NEW t \in Worker, NEW c \in Client, EndsClean(t, c), record[c] # NoRecord,
         Charging(t) \/ Crediting(t), UNCHANGED <<kind, started>>, pc[t] # "run"
  PROVE  Promise!Finish(c)
<1>1. HandlerTypes
  BY TypeSplit
<1>2. c \in Busy /\ Busy' = Busy \ {c}
  BY <1>1 DEF EndsClean, Busy, HandlerTypes
<1>3. \A u \in Worker : pc'[u] = "run" <=> pc[u] = "run"
  BY <1>1 DEF EndsClean, Ends, HandlerTypes
<1>4. Measuring' = Measuring
  BY DEF Measuring
<1> QED BY <1>2, <1>3, <1>4, BooksMove DEF Promise!Finish

\* assign_and_start starts its client, or starts and fails it.
LEMMA ClaimRefines ==
  ASSUME IInv, NEW t \in Worker, Claim(t)
  PROVE  \E c \in Client : Promise!Start(c) \/ Promise!Bounce(c)
<1> DEFINE c == conn[t]
<1>1. TypeOK /\ HandlerTypes /\ PlainTypes
  BY TypeSplit DEF IInv
<1>2. c \in Client /\ pc[t] = "claim" /\ kind' = kind /\ started' = started + 1
  BY <1>1 DEF Claim, phaseVars, HandlerTypes
<1>3. record[c] = NoRecord
  BY <1>2 DEF IInv, Resting, ClientOK, InFlight
<1>4. Measuring' = Measuring /\ c \notin Busy
  BY <1>2, <1>3 DEF Measuring, Busy
<1>5. \E there \in {"check", "booted", "resume", "poll"} : pc' = [pc EXCEPT ![t] = there]
  BY DEF Claim, OpenConnection, HandleWrite, FailCurrent, FinishCurrent, Await, ReturnTo
<1>6. \A u \in Worker : pc'[u] = "run" <=> pc[u] = "run"
  BY <1>1, <1>2, <1>5 DEF HandlerTypes
<1> DEFINE p == IF DurationMode THEN cursor[c] % OrderSize ELSE cursor[c]
<1>7. p # NoRecord
  <2>1. OrderSize \in Nat \ {0} /\ cursor[c] \in Nat
    BY <1>1, <1>2, ConfigAssumption DEF PlainTypes
  <2>2. p \in Nat
    BY <2>1
  <2> HIDE DEF p
  <2> QED BY <2>2 DEF NoRecord
<1>8. ASSUME record' = [record EXCEPT ![c] = p], UNCHANGED <<successes, errors>>
      PROVE  Promise!Start(c)
  <2> HIDE DEF c, p
  <2>1. Busy' = Busy \union {c}
    BY <1>1, <1>2, <1>7, <1>8 DEF Busy, HandlerTypes
  <2>2. Total(Charges)' = Total(Charges) /\ Total(Credits)' = Total(Credits)
    BY <1>1, <1>2, <1>6, <1>8, BooksMove
  <2> QED BY <1>2, <1>4, <2>1, <2>2 DEF Promise!Start
<1>9. ASSUME record' = [record EXCEPT ![c] = NoRecord], Charging(t)
       PROVE  Promise!Bounce(c)
  <2> HIDE DEF c, p
  <2>1. Busy' = Busy
    BY <1>1, <1>2, <1>3, <1>9 DEF Busy, HandlerTypes
  <2>2. /\ Total(Charges)' = IF Measuring THEN Total(Charges) + 1 ELSE Total(Charges)
        /\ Total(Credits)' = Total(Credits)
    BY <1>1, <1>2, <1>6, <1>9, BooksMove
  <2> QED BY <1>2, <1>4, <2>1, <2>2 DEF Promise!Bounce
<1>10. ASSUME NEW q, NEW s, NEW next, HandleWrite(t, c, p, q, s, next)
       PROVE  Promise!Start(c) \/ Promise!Bounce(c)
  <2> HIDE DEF c, p
  <2>1. FailCurrent(t, c) \/ Holds(t, c, p, next)
    BY <1>1, <1>2, <1>10, HandlerBooks
  <2>2. CASE FailCurrent(t, c)
    BY <1>1, <1>2, <1>9, <2>2, HandlerBooks DEF EndsClean
  <2>3. CASE Holds(t, c, p, next)
    BY <1>8, <2>3 DEF Holds
  <2> QED BY <2>1, <2>2, <2>3
<1>11. CASE Await(t, c, "CONNECTING", p, "connecting", ReturnTo(t))
  BY <1>2, <1>8, <1>11 DEF Await, statVars
<1>12. CASE RecordError(t) /\ record' = [record EXCEPT ![c] = NoRecord] /\ UNCHANGED successes
  BY <1>2, <1>9, <1>12 DEF RecordError, Charging
<1> HIDE DEF c
<1> QED BY <1>2, <1>10, <1>11, <1>12 DEF Claim, OpenConnection, c

\* A worker's step is a step of the closed loop, or none.
LEMMA WorkerRefines ==
  ASSUME IInv, Booked, NEW t \in Worker, WorkerStep(t) \/ Throw(t)
  PROVE  [Promise!Next]_Promise!vars
<1>1. TypeOK /\ HandlerTypes /\ PlainTypes
  BY TypeSplit DEF IInv
<1>2. \A c \in Mine(t) : c \in Client
  BY Slices
<1>3. \A c \in Client : state[c] \in InFlight => record[c] # NoRecord
  <2>1. \A q \in Position : q # NoRecord
    BY ConfigAssumption DEF Position, NoRecord
  <2> QED BY <2>1 DEF IInv, ClientOK
<1>4. \A c \in Client : state[c] \notin InFlight => record[c] = NoRecord
  BY DEF IInv, ClientOK
<1> HIDE DEF Mine, Share, First
<1>5. CASE Run(t)
  <2>1. /\ UNCHANGED <<kind, started, record>> /\ pc[t] = "run" /\ pc'[t] = "boot"
        /\ \A u \in Worker \ {t} : pc'[u] = pc[u]
        /\ \A u \in Worker \ {t} : successes'[u] = successes[u] /\ errors'[u] = errors[u]
        /\ successes'[t] = IF Measuring THEN 0 ELSE successes[t]
        /\ errors'[t] = IF Measuring THEN 0 ELSE errors[t]
    BY <1>1, <1>5 DEF Run, phaseVars, HandlerTypes
  <2>2. ~Measuring => successes[t] = 0 /\ errors[t] = 0
    BY <1>1, <2>1 DEF Booked, Measuring, PlainTypes
  <2>3. Credits' = Credits /\ Charges' = Charges
    BY <2>1, <2>2 DEF Credits, Charges, Credited, Charged
  <2>4. Measuring' = Measuring /\ Busy' = Busy
    BY <2>1 DEF Measuring, Busy
  <2>5. Total(Credits)' = Total(Credits) /\ Total(Charges)' = Total(Charges)
    BY <2>3 DEF Total
  <2> QED BY <2>1, <2>4, <2>5 DEF Promise!vars
<1>6. ASSUME NEW there, pc' = [pc EXCEPT ![t] = there], there # "run", pc[t] # "run",
             UNCHANGED <<kind, started, record, successes, errors>>
      PROVE  UNCHANGED Promise!vars
  <2>1. \A u \in Worker : pc'[u] = "run" <=> pc[u] = "run"
    BY <1>1, <1>6 DEF HandlerTypes
  <2> QED BY <1>1, <1>6, <2>1, Stutters
<1>7. CASE Boot(t) \/ BootDone(t) \/ CheckNext(t) \/ Booted(t) \/ LeaveLoop(t) \/ Throw(t)
  <2>1. /\ UNCHANGED <<kind, started, record, successes, errors>> /\ pc[t] # "run"
        /\ \E there \in {"enter", "failed", "parked", "poll", "claim", "boot"} :
             pc' = [pc EXCEPT ![t] = there]
    BY <1>7 DEF Boot, BootDone, CheckNext, Booted, LeaveLoop, Throw, phaseVars, statVars
  <2> QED BY <1>6, <2>1
<1>8. CASE CheckRest(t)
  <2>1. conn[t] \in Client /\ state[conn[t]] = "IDLE"
    BY <1>1, <1>8 DEF CheckRest, IInv, Resting, HandlerTypes
  <2>2. record[conn[t]] = NoRecord
    BY <1>4, <2>1 DEF InFlight
  <2>3. record' = record
    BY <1>1, <1>8, <2>1, <2>2 DEF CheckRest, HandlerTypes
  <2>4. /\ UNCHANGED <<kind, started, successes, errors>> /\ pc[t] # "run"
        /\ \E there \in {"boot", "booted", "resume", "poll"} : pc' = [pc EXCEPT ![t] = there]
    BY <1>8 DEF CheckRest, phaseVars, statVars, ReturnTo
  <2> QED BY <1>6, <2>3, <2>4
<1>9. CASE Claim(t)
  BY <1>9, ClaimRefines DEF Promise!Next
<1>10. ASSUME NEW c \in Client, state[c] \in InFlight, FailCurrent(t, c) \/ HandleRead(t, c),
              UNCHANGED <<kind, started>>, pc[t] # "run"
       PROVE  Promise!Next
  BY <1>1, <1>3, <1>10, HandlerBooks, EndsRefine DEF Promise!Next
<1>11. ASSUME NEW c \in Client, state[c] \in InFlight, pc[t] # "run",
              UNCHANGED <<kind, started>>,
              NEW q, NEW s, NEW next \in {"poll", "resume"},
              HandleWrite(t, c, record[c], q, s, next)
       PROVE  [Promise!Next]_Promise!vars
  <2>1. CASE FailCurrent(t, c)
    BY <1>10, <1>11, <2>1
  <2>2. CASE Holds(t, c, record[c], next)
    <3>1. record' = record
      BY <1>1, <2>2 DEF Holds, HandlerTypes
    <3> QED BY <1>6, <1>11, <2>2, <3>1 DEF Holds
  <2> QED BY <1>1, <1>11, <2>1, <2>2, HandlerBooks
<1>12. CASE Resume(t)
  <2>1. UNCHANGED <<kind, started>> /\ pc[t] = "resume" /\ conn[t] \in Client
    BY <1>1, <1>12 DEF Resume, phaseVars, HandlerTypes
  <2>2. CASE FrameReads(t) /\ HandleRead(t, conn[t])
    BY <1>10, <2>1, <2>2 DEF FrameReads, InFlight
  <2>3. CASE FrameFails(t) /\ FailCurrent(t, conn[t])
    <3>1. state[conn[t]] \in InFlight
      BY <2>3 DEF FrameFails, InFlight
    <3> QED BY <1>10, <2>1, <2>3, <3>1
  <2>4. CASE pc' = [pc EXCEPT ![t] = "poll"] /\ UNCHANGED <<conn, state, record, netVars, statVars>>
    BY <1>6, <2>1, <2>4 DEF statVars
  <2> QED BY <1>12, <2>2, <2>3, <2>4 DEF Resume
<1>13. ASSUME NEW c \in Mine(t), IdleHangup(t, c)
       PROVE  UNCHANGED Promise!vars
  <2>1. UNCHANGED <<kind, started, record, successes, errors, pc>>
    BY <1>13 DEF IdleHangup, phaseVars, statVars
  <2> QED BY <1>1, <2>1, Stutters
<1>14. ASSUME NEW c \in Mine(t), RetryDue(t, c)
       PROVE  UNCHANGED Promise!vars
  BY <1>6, <1>14 DEF RetryDue, phaseVars, statVars
<1>15. ASSUME NEW c \in Mine(t), Timeout(t, c) \/ WriteHangup(t, c) \/ ReadEvent(t, c)
       PROVE  Promise!Next
  <2>1. c \in Client /\ state[c] \in InFlight /\ UNCHANGED <<kind, started>> /\ pc[t] = "poll"
    BY <1>2, <1>15 DEF Timeout, WriteHangup, ReadEvent, InFlight, phaseVars
  <2> QED BY <1>10, <1>15, <2>1 DEF Timeout, WriteHangup, ReadEvent
<1>16. ASSUME NEW c \in Mine(t), HandleConnect(t, c) \/ WriteEvent(t, c)
       PROVE  [Promise!Next]_Promise!vars
  <2>1. c \in Client /\ state[c] \in InFlight /\ UNCHANGED <<kind, started>> /\ pc[t] = "poll"
    BY <1>2, <1>16 DEF HandleConnect, WriteEvent, InFlight, phaseVars
  <2>2. \/ FailCurrent(t, c)
        \/ \E q, s : \E next \in {"poll", "resume"} : HandleWrite(t, c, record[c], q, s, next)
    BY <1>16 DEF HandleConnect, WriteEvent
  <2> QED BY <1>10, <1>11, <2>1, <2>2
<1> QED BY <1>5, <1>7, <1>8, <1>9, <1>12, <1>13, <1>14, <1>15, <1>16 DEF WorkerStep

\* Every step of the driver is a step of the closed loop, or none.
LEMMA NextRefines ==
  ASSUME IInv, IInv', Booked, \A u \in Worker : Counted(u), [Next]_vars
  PROVE  [Promise!Next]_Promise!vars
<1>1. TypeOK
  BY DEF IInv
<1>2. CASE BeginPhase
  <2>1. /\ UNCHANGED <<state, record>> /\ started' = 0
        /\ \A t \in Worker : pc[t] = "parked" /\ pc'[t] = "run"
    BY <1>2 DEF BeginPhase
  <2>2. \A c \in Client : state[c] = "IDLE"
    <3> SUFFICES ASSUME NEW c \in Client PROVE state[c] = "IDLE"
      OBVIOUS
    <3>1. PICK t \in Worker : c \in Mine(t)
      BY SlicesCover
    <3>2. Busied(t) = {}
      BY <2>1 DEF Counted
    <3> QED BY <3>1, <3>2 DEF Busied
  <2>3. Busy = {} /\ Busy' = Busy
    BY <2>1, <2>2 DEF Busy, IInv, ClientOK, InFlight
  <2>4. Credits' = [t \in Worker |-> 0] /\ Charges' = [t \in Worker |-> 0]
    BY <2>1 DEF Credits, Charges, Credited, Charged
  <2>5. Total(Credits)' = 0 /\ Total(Charges)' = 0
    BY <2>4, TotalZero DEF Total
  <2>6. Measuring' \in BOOLEAN
    BY DEF Measuring
  <2> QED BY <2>1, <2>3, <2>5, <2>6 DEF Promise!Open, Promise!Next
<1>3. CASE StopWorkers
  <2>1. /\ UNCHANGED <<started, record, successes, errors>> /\ kind' = "STOP"
        /\ \A t \in Worker : pc[t] # "run" /\ pc'[t] # "run"
    BY <1>3 DEF StopWorkers, statVars
  <2>2. Credits' = Credits /\ Charges' = Charges /\ Busy' = Busy /\ Measuring' = FALSE
    BY <2>1 DEF Credits, Charges, Credited, Charged, Busy, Measuring
  <2>3. Total(Credits)' = Total(Credits) /\ Total(Charges)' = Total(Charges)
    BY <2>2 DEF Total
  <2> QED BY <2>1, <2>2, <2>3 DEF Promise!Close, Promise!Next
<1>4. CASE Environment \/ UNCHANGED vars
  <2>1. UNCHANGED <<kind, started, record, successes, errors, pc>>
    BY <1>4 DEF Environment, Answer, PeerCloses, RequestExpires, DeadlinePasses, vars,
                phaseVars, statVars
  <2>2. 0 \in Worker
    BY ConfigAssumption DEF Worker
  <2> QED BY <1>1, <2>1, <2>2, Stutters
<1>5. ASSUME NEW t \in Worker, WorkerStep(t) \/ Throw(t)
      PROVE  [Promise!Next]_Promise!vars
  BY <1>5, WorkerRefines
<1> QED BY <1>2, <1>3, <1>4, <1>5 DEF Next, Coordinator, Ended

\* The replay driver implements the closed loop for every number of threads,
\* connections, records and phases: a client never has two requests under way,
\* each request of a measured phase ends in one credit or one charge, and a
\* phase begins from rest.
THEOREM LoopsImplementClosedLoop == Spec => ImplementsClosedLoop
<1>1. Init => Promise!Init
  <2> SUFFICES ASSUME Init PROVE Promise!Init
    OBVIOUS
  <2>1. Credits = [t \in Worker |-> 0] /\ Charges = [t \in Worker |-> 0]
    BY DEF Init, Credits, Charges, Credited, Charged
  <2>2. Busy = {} /\ Measuring = FALSE /\ started = 0
    BY DEF Init, Busy, Measuring
  <2> QED BY <2>1, <2>2, TotalZero DEF Promise!Init
<1>2. Init => Booked
  BY DEF Init, Booked
<1>3. IInv /\ Booked /\ [Next]_vars => Booked'
  BY NextBooked DEF IInv
<1>4. /\ IInv /\ IInv' /\ Booked /\ (\A u \in Worker : Counted(u)) /\ [Next]_vars
      => [Promise!Next]_Promise!vars
  BY NextRefines
<1> QED BY <1>1, <1>2, <1>3, <1>4, CountsHold, PTL DEF Spec, ImplementsClosedLoop, Promise!Spec

-----------------------------------------------------------------------------
(* What a repetition without duration goes through.                        *)

\* The connections whose cursor run() has set in this phase.
Begun(t) ==
  {c \in Mine(t) :
     /\ pc[t] # "run"
     /\ c < First(t) + booted[t] \/ (InFirstLoop(t) /\ c = First(t) + booted[t])}

\* The worker is about to ask has_next for the connection, or has its yes.
Asked(t, c) == pc[t] \in {"enter", "check", "claim"} /\ conn[t] = c

\* has_next of a phase without duration refuses the connection.
Spent(c) == (PhaseMax # 0 /\ started >= PhaseMax) \/ cursor[c] >= OrderSize

\* A cursor stays in its connection's stride, and a connection rests only when
\* its part of the order is spent.
Strided(t) ==
  \A c \in Begun(t) :
    /\ cursor[c] % Concurrency = c
    /\ ~DurationMode /\ state[c] = "IDLE" /\ ~Asked(t, c) => Spent(c)

\* The positions given out in this phase: those the cursors have passed.
Given ==
  {p \in Nat : \E t \in Worker : \E c \in Begun(t) : p % Concurrency = c /\ p < cursor[c]}

\* Each of them was counted once, unless a worker fails, which ends the run.
Tallied ==
  (\A t \in Worker : pc[t] \notin {"failed", "stopped"}) =>
    /\ IsFiniteSet(Given) /\ started = Cardinality(Given)
    /\ ~DurationMode => Given \subseteq Position

\* What a worker has begun is its own business.
LEMMA OthersBegun ==
  ASSUME NEW t \in Worker, NEW c \in Mine(t), NEW u \in Worker \ {t},
         pc'[u] = pc[u], booted'[u] = booted[u], conn'[u] = conn[u],
         \A e \in Client \ {c} : state'[e] = state[e] /\ cursor'[e] = cursor[e]
  PROVE  /\ Begun(u)' = Begun(u)
         /\ \A e \in Begun(u) : /\ state'[e] = state[e] /\ cursor'[e] = cursor[e]
                                /\ Asked(u, e)' = Asked(u, e)
<1>1. Mine(t) \cap Mine(u) = {} /\ Mine(u) \subseteq Client
  BY Slices
<1>2. InFirstLoop(u)' = InFirstLoop(u)
  BY DEF InFirstLoop, Booting
<1> HIDE DEF Mine, Share, First, InFirstLoop
<1>3. Begun(u)' = Begun(u)
  BY <1>2 DEF Begun
<1>4. \A e \in Begun(u) : e \in Mine(u)
  BY DEF Begun
<1> HIDE DEF Begun
<1> QED BY <1>1, <1>3, <1>4 DEF Asked

\* Within a phase, has_next never takes a refusal back.
LEMMA SpentStays ==
  ASSUME TypeOK, TypeOK', stage' = stage, started' \in {started, started + 1}, NEW c \in Client,
         cursor'[c] \in {cursor[c], cursor[c] + Concurrency}, Spent(c)
  PROVE  Spent(c)'
<1>1. started \in Nat /\ cursor[c] \in Nat /\ Concurrency \in Nat /\ OrderSize \in Nat
  BY ConfigAssumption DEF TypeOK
<1>2. PhaseMax \in Nat /\ PhaseMax' = PhaseMax
  BY ConfigAssumption DEF PhaseMax, StageKind
<1> HIDE DEF PhaseMax
<1> QED BY <1>1, <1>2 DEF Spent

\* A step that leaves the tally and the cursors alone keeps both, if it only
\* brings connections to rest that has_next is asked about or has refused.
LEMMA QuietStrides ==
  ASSUME TypeOK, TypeOK', NEW t \in Worker, NEW c \in Mine(t), UNCHANGED <<stage, cursor, started>>,
         \A u \in Worker \ {t} : pc'[u] = pc[u] /\ booted'[u] = booted[u] /\ conn'[u] = conn[u],
         \A e \in Client \ {c} : state'[e] = state[e],
         Begun(t)' \subseteq Begun(t), pc'[t] # "failed" => Begun(t)' = Begun(t),
         \A e \in Begun(t)' : ~DurationMode /\ state'[e] = "IDLE" /\ ~Asked(t, e)' =>
           (state[e] = "IDLE" /\ ~Asked(t, e)) \/ Spent(e),
         \A u \in Worker : Strided(u), Tallied, pc[t] \notin {"failed", "stopped"}
  PROVE  (\A u \in Worker : Strided(u)') /\ Tallied'
<1>1. DurationMode' = DurationMode
  BY DEF DurationMode, StageKind
<1>2. \A u \in Worker : Mine(u) \subseteq Client
  BY Slices
<1>3. \A u \in Worker : \A e \in Begun(u) : e \in Client
  BY <1>2 DEF Begun
<1>4. \A e \in Client : Spent(e) => Spent(e)'
  BY SpentStays
<1>5. ASSUME NEW u \in Worker \ {t}
      PROVE  /\ Begun(u)' = Begun(u)
             /\ \A e \in Begun(u) : state'[e] = state[e] /\ Asked(u, e)' = Asked(u, e)
  BY OthersBegun
<1> HIDE DEF Begun, Asked, Spent, DurationMode, Mine
<1>6. ASSUME NEW u \in Worker PROVE Strided(u)'
  <2>1. CASE u = t
    <3> SUFFICES ASSUME NEW e \in Begun(t)'
                 PROVE  /\ (cursor[e] % Concurrency)' = e
                        /\ (~DurationMode /\ state[e] = "IDLE" /\ ~Asked(t, e) => Spent(e))'
      BY <2>1 DEF Strided
    <3>1. e \in Begun(t) /\ e \in Client
      BY <1>3
    <3>2. cursor[e] % Concurrency = e
      BY <3>1 DEF Strided
    <3>3. ~DurationMode /\ state[e] = "IDLE" /\ ~Asked(t, e) => Spent(e)
      BY <3>1 DEF Strided
    <3> QED BY <1>1, <1>4, <3>1, <3>2, <3>3
  <2>2. CASE u # t
    <3> SUFFICES ASSUME NEW e \in Begun(u)
                 PROVE  /\ (cursor[e] % Concurrency)' = e
                        /\ (~DurationMode /\ state[e] = "IDLE" /\ ~Asked(u, e) => Spent(e))'
      BY <1>5, <2>2 DEF Strided
    <3>1. e \in Client /\ state'[e] = state[e] /\ Asked(u, e)' = Asked(u, e)
      BY <1>3, <1>5, <2>2
    <3>2. cursor[e] % Concurrency = e
      BY DEF Strided
    <3>3. ~DurationMode /\ state[e] = "IDLE" /\ ~Asked(u, e) => Spent(e)
      BY DEF Strided
    <3> QED BY <1>1, <1>4, <3>1, <3>2, <3>3
  <2> QED BY <2>1, <2>2
<1>7. Tallied'
  <2> SUFFICES ASSUME \A u \in Worker : pc'[u] \notin {"failed", "stopped"}
               PROVE  /\ IsFiniteSet(Given)' /\ (started = Cardinality(Given))'
                      /\ (~DurationMode => Given \subseteq Position)'
    BY DEF Tallied
  <2>1. \A u \in Worker : Begun(u)' = Begun(u)
    BY <1>5
  <2>2. Given' = Given
    BY <2>1 DEF Given
  <2>3. \A u \in Worker : pc[u] \notin {"failed", "stopped"}
    <3> SUFFICES ASSUME NEW u \in Worker PROVE pc[u] \notin {"failed", "stopped"}
      OBVIOUS
    <3>1. CASE u = t
      BY <3>1
    <3>2. CASE u # t
      BY <3>2
    <3> QED BY <3>1, <3>2
  <2>4. IsFiniteSet(Given) /\ started = Cardinality(Given) /\ (~DurationMode => Given \subseteq Position)
    BY <2>3 DEF Tallied
  <2> QED BY <1>1, <2>2, <2>4
<1> QED BY <1>6, <1>7

\* A step along the stride stays in it, and nothing of it lies in between.
LEMMA StrideSteps ==
  ASSUME NEW a \in Nat, NEW n \in Nat \ {0}
  PROVE  /\ (a + n) % n = a % n
         /\ a % n <= a
         /\ \A b \in Nat : b % n = a % n /\ a <= b /\ b < a + n => b = a
<1> DEFINE q == a \div n
           r == a % n
<1>1. q \in Nat /\ r \in 0 .. n - 1 /\ a = n * q + r
  OBVIOUS
<1>2. (a + n) % n = r
  <2>1. a + n = n * (q + 1) + r
    BY <1>1
  <2> HIDE DEF q, r
  <2>2. q + 1 \in Nat
    BY <1>1
  <2> DEFINE k == q + 1
  <2>3. \A m \in Nat : (n * m + r) % n = r
    BY <1>1
  <2> HIDE DEF k
  <2> QED BY <2>1, <2>2, <2>3
<1>3. r <= a
  <2>1. n * q \in Nat
    BY <1>1
  <2> HIDE DEF q, r
  <2> QED BY <1>1, <2>1
<1>4. ASSUME NEW b \in Nat, b % n = a % n, a <= b, b < a + n
      PROVE  b = a
  <2> HIDE DEF q, r
  <2>1. (b - a) % n = 0
    <3>1. a \in Int /\ b \in Int /\ b % n = a % n
      BY <1>4
    <3> QED BY <3>1, SameRemainder
  <2>2. b - a \in 0 .. n - 1
    BY <1>4
  <2>3. (b - a) % n = b - a
    BY <2>2
  <2> QED BY <1>4, <2>1, <2>3
<1> QED BY <1>2, <1>3, <1>4

\* run() sets a cursor to the start of its stride: nothing is given out yet.
LEMMA BootStrides ==
  ASSUME IInv, TypeOK', NEW t \in Worker, Boot(t),
         \A u \in Worker : Rested(u) /\ Strided(u), Tallied
  PROVE  (\A u \in Worker : Strided(u)') /\ Tallied'
<1>1. HandlerTypes /\ PlainTypes /\ TypeOK
  BY TypeSplit DEF IInv
<1>2. PICK c \in Mine(t) : c = First(t) + booted[t]
  BY <1>1, BootVisitsMine DEF Boot, PlainTypes
<1>16. c \in Client /\ First(t) \in Nat /\ booted[t] \in Nat
  BY <1>1, Slices DEF PlainTypes
<1>3. pc[t] = "boot" /\ state[c] = "IDLE"
  <2>1. \A e \in Mine(t) : e >= First(t) + booted[t] => state[e] = "IDLE"
    BY DEF Boot, Rested
  <2> HIDE DEF First, Mine
  <2> QED BY <1>2, <1>16, <2>1 DEF Boot
<1>4. /\ UNCHANGED <<stage, started, booted, state>>
      /\ cursor' = [cursor EXCEPT ![c] = c] /\ conn' = [conn EXCEPT ![t] = c]
      /\ pc' = [pc EXCEPT ![t] = "enter"]
  BY <1>2, <1>3 DEF Boot, phaseVars, frameVars
<1> HIDE DEF First, Mine, Share
<1>5. /\ cursor'[c] = c /\ conn'[t] = c /\ pc'[t] = "enter"
      /\ \A e \in Client \ {c} : cursor'[e] = cursor[e]
      /\ \A u \in Worker \ {t} : pc'[u] = pc[u] /\ conn'[u] = conn[u] /\ booted'[u] = booted[u]
  BY <1>1, <1>16, <1>4 DEF HandlerTypes, PlainTypes
<1>6. Begun(t)' = Begun(t) \union {c} /\ c \notin Begun(t)
  <2>1. InFirstLoop(t)' /\ ~InFirstLoop(t)
    BY <1>3, <1>5 DEF InFirstLoop
  <2>2. \A e \in Mine(t) : e \in Begun(t)' <=> e < First(t) + booted[t] \/ e = c
    BY <1>2, <1>4, <1>5, <2>1 DEF Begun
  <2>3. \A e \in Mine(t) : e \in Begun(t) <=> e < First(t) + booted[t]
    BY <1>3, <2>1 DEF Begun
  <2>4. c \notin Begun(t)
    BY <1>2, <1>16, <2>3
  <2>5. Begun(t) \subseteq Mine(t) /\ Begun(t)' \subseteq Mine(t)
    BY DEF Begun
  <2> HIDE DEF Begun
  <2> QED BY <1>2, <2>2, <2>3, <2>4, <2>5
<1>7. Concurrency \in Nat \ {0} /\ c \in Nat /\ c % Concurrency = c
  <2>1. Concurrency \in Nat \ {0} /\ c \in 0 .. Concurrency - 1
    BY <1>16, ConfigAssumption DEF Client
  <2> QED BY <2>1
<1>8. ASSUME NEW u \in Worker \ {t}
      PROVE  /\ Begun(u)' = Begun(u)
             /\ \A e \in Begun(u) : /\ state'[e] = state[e] /\ cursor'[e] = cursor[e]
                                    /\ Asked(u, e)' = Asked(u, e)
  BY <1>16, <1>4, <1>5, OthersBegun
<1>9. ASSUME NEW u \in Worker, NEW e \in Begun(u)
      PROVE  e \in Begun(u)' /\ cursor'[e] = cursor[e] /\ e \in Client
  <2>1. e \in Mine(u) /\ Mine(u) \subseteq Client
    BY Slices DEF Begun
  <2>2. CASE u = t
    BY <1>5, <1>6, <2>1, <2>2
  <2>3. CASE u # t
    BY <1>8, <2>1, <2>3
  <2> QED BY <2>2, <2>3
<1>10. DurationMode' = DurationMode
  BY <1>4 DEF DurationMode, StageKind
<1>11. \A e \in Client \ {c} : Spent(e) => Spent(e)'
  BY <1>1, <1>4, <1>5, SpentStays
<1>12. Asked(t, c)' /\ \A e : ~Asked(t, e)
  BY <1>3, <1>5 DEF Asked
<1> HIDE DEF Begun, Asked, Spent, DurationMode
<1>13. ASSUME NEW u \in Worker PROVE Strided(u)'
  <2> SUFFICES ASSUME NEW e \in Begun(u)'
               PROVE  /\ (cursor[e] % Concurrency)' = e
                      /\ (~DurationMode /\ state[e] = "IDLE" /\ ~Asked(u, e) => Spent(e))'
    BY DEF Strided
  <2>1. CASE e = c /\ u = t
    BY <1>5, <1>7, <1>12, <2>1
  <2>2. CASE e \in Begun(u)
    <3>1. e # c
      <4>1. CASE u = t
        BY <1>6, <2>2, <4>1
      <4>2. CASE u # t
        <5>1. e \in Mine(u) /\ Mine(t) \cap Mine(u) = {}
          BY <2>2, <4>2, Slices DEF Begun
        <5> QED BY <1>2, <5>1
      <4> QED BY <4>1, <4>2
    <3>2. cursor'[e] = cursor[e] /\ e \in Client /\ state'[e] = state[e]
      BY <1>4, <1>9, <2>2
    <3>3. cursor[e] % Concurrency = e
      BY <2>2 DEF Strided
    <3>4. ~DurationMode /\ state[e] = "IDLE" /\ ~Asked(u, e) => Spent(e)
      BY <2>2 DEF Strided
    <3>5. Asked(u, e) => Asked(u, e)'
      <4>1. CASE u = t
        BY <1>12, <4>1
      <4>2. CASE u # t
        BY <1>8, <2>2, <4>2
      <4> QED BY <4>1, <4>2
    <3> QED BY <1>10, <1>11, <3>1, <3>2, <3>3, <3>4, <3>5
  <2>3. (e = c /\ u = t) \/ e \in Begun(u)
    BY <1>6, <1>8
  <2> QED BY <2>1, <2>2, <2>3
<1>14. Given' = Given
  <2>1. ASSUME NEW p \in Nat, p % Concurrency = c
        PROVE  ~(p < c)
    <3>1. p % Concurrency <= p
      BY <1>7, StrideSteps
    <3> QED BY <1>7, <2>1, <3>1
  <2>2. ASSUME NEW p \in Nat
        PROVE  (\E u \in Worker : \E e \in Begun(u)' : p % Concurrency = e /\ p < cursor'[e])
                 <=> (\E u \in Worker : \E e \in Begun(u) : p % Concurrency = e /\ p < cursor[e])
    <3>1. ASSUME NEW u \in Worker, NEW e \in Begun(u)', p % Concurrency = e, p < cursor'[e]
          PROVE  e \in Begun(u) /\ p < cursor[e]
      <4>1. ~(u = t /\ e = c)
        BY <1>5, <2>1, <3>1
      <4>2. e \in Begun(u)
        BY <1>6, <1>8, <4>1
      <4> QED BY <1>9, <3>1, <4>2
    <3> QED BY <1>9, <3>1
  <2> QED BY <2>2 DEF Given
<1>15. Tallied'
  <2> SUFFICES ASSUME \A u \in Worker : pc'[u] \notin {"failed", "stopped"}
               PROVE  /\ IsFiniteSet(Given)' /\ (started = Cardinality(Given))'
                      /\ (~DurationMode => Given \subseteq Position)'
    BY DEF Tallied
  <2>1. \A u \in Worker : pc[u] \notin {"failed", "stopped"}
    BY <1>3, <1>5
  <2>2. IsFiniteSet(Given) /\ started = Cardinality(Given) /\ (~DurationMode => Given \subseteq Position)
    BY <2>1 DEF Tallied
  <2> QED BY <1>4, <1>10, <1>14, <2>2
<1> QED BY <1>13, <1>15

\* assign_and_start gives out the one position of its connection's cursor.
LEMMA ClaimStrides ==
  ASSUME IInv, TypeOK', NEW t \in Worker, Claim(t),
         \A u \in Worker : Rested(u) /\ Strided(u), Tallied
  PROVE  (\A u \in Worker : Strided(u)') /\ Tallied'
<1>1. HandlerTypes /\ PlainTypes /\ TypeOK
  BY TypeSplit DEF IInv
<1>2. PICK c \in Mine(t) : c = conn[t]
  BY DEF IInv, Owned, Claim
<1>3. PICK a \in Nat : a = cursor[c]
  BY <1>1, <1>2, Slices DEF PlainTypes
<1>4. /\ pc[t] = "claim" /\ UNCHANGED <<stage, booted>> /\ started' = started + 1
      /\ cursor' = [cursor EXCEPT ![c] = a + Concurrency]
      /\ c \in Client /\ booted[t] \in Nat /\ booted[t] <= Share(t)
      /\ First(t) \in Nat /\ Share(t) \in Nat
  BY <1>1, <1>2, <1>3, Slices DEF Claim, phaseVars, frameVars, IInv, Owned, PlainTypes
<1>5. Ends(t, c) \/ Waits(t, c, RecordAt(a), ReturnTo(t))
  BY <1>1, <1>2, <1>3, ClaimShapes
<1>6. /\ conn'[t] = c /\ (pc'[t] = "check" \/ (pc'[t] = ReturnTo(t) /\ state'[c] # "IDLE"))
      /\ \A u \in Worker \ {t} : pc'[u] = pc[u] /\ conn'[u] = conn[u] /\ booted'[u] = booted[u]
      /\ \A e \in Client \ {c} : state'[e] = state[e] /\ cursor'[e] = cursor[e]
      /\ cursor'[c] = a + Concurrency
  <2>1. CASE Ends(t, c)
    BY <1>1, <1>4, <2>1 DEF Ends, HandlerTypes, PlainTypes
  <2>2. CASE Waits(t, c, RecordAt(a), ReturnTo(t))
    BY <1>1, <1>4, <2>2 DEF Waits, HandlerTypes, PlainTypes, InFlight
  <2> QED BY <1>5, <2>1, <2>2
<1>7. InFirstLoop(t)' <=> InFirstLoop(t)
  BY <1>4, <1>6 DEF InFirstLoop, ReturnTo, Booting
<1>8. c \in Begun(t)
  <2>1. CASE Booting(t)
    <3>1. InFirstLoop(t)
      BY <1>4, <2>1 DEF InFirstLoop
    <3>2. c = First(t) + booted[t]
      BY <1>2, <3>1 DEF Rested
    <3> QED BY <1>4, <3>1, <3>2 DEF Begun
  <2>2. CASE ~Booting(t)
    <3>1. c < First(t) + Share(t) /\ booted[t] = Share(t)
      <4> HIDE DEF First, Share
      <4> QED BY <1>2, <1>4, <2>2 DEF Booting, Mine
    <3> QED BY <1>4, <3>1 DEF Begun
  <2> QED BY <2>1, <2>2
<1> HIDE DEF First, Mine, Share
<1>9. Begun(t)' = Begun(t)
  <2>1. pc[t] # "run" /\ pc'[t] # "run"
    BY <1>4, <1>6 DEF ReturnTo
  <2> QED BY <1>4, <1>7, <2>1 DEF Begun
<1>10. \A u \in Worker : Begun(u) \subseteq Client
  BY Slices DEF Begun
<1>11. ASSUME NEW u \in Worker \ {t}
       PROVE  /\ Begun(u)' = Begun(u) /\ c \notin Begun(u)
              /\ \A e \in Begun(u) : Asked(u, e)' = Asked(u, e)
  <2>1. c \notin Begun(u)
    <3>1. Mine(t) \cap Mine(u) = {}
      BY Slices
    <3> QED BY <1>2, <3>1 DEF Begun
  <2> QED BY <1>6, <2>1, OthersBegun
<1>12. /\ \A e \in Client \ {c} : ~Asked(t, e) /\ ~Asked(t, e)'
       /\ state'[c] = "IDLE" => Asked(t, c)'
  BY <1>2, <1>6 DEF Asked
<1>13. \A e \in Client : Spent(e) => Spent(e)'
  BY <1>1, <1>3, <1>4, <1>6, SpentStays
<1>14. DurationMode' = DurationMode /\ Concurrency \in Nat \ {0}
  BY <1>4, ConfigAssumption DEF DurationMode, StageKind
<1>15. a % Concurrency = c /\ (a + Concurrency) % Concurrency = c
  <2>1. a % Concurrency = c
    BY <1>3, <1>8 DEF Strided
  <2> QED BY <1>14, <2>1, StrideSteps
<1> HIDE DEF Begun, Asked, Spent, DurationMode
<1>16. ASSUME NEW u \in Worker PROVE Strided(u)'
  <2>1. Begun(u)' = Begun(u)
    BY <1>9, <1>11
  <2> SUFFICES ASSUME NEW e \in Begun(u)
               PROVE  /\ (cursor[e] % Concurrency)' = e
                      /\ (~DurationMode /\ state[e] = "IDLE" /\ ~Asked(u, e) => Spent(e))'
    BY <2>1 DEF Strided
  <2>2. CASE e = c
    <3>1. u = t
      BY <1>11, <2>2
    <3> QED BY <1>6, <1>12, <1>15, <2>2, <3>1
  <2>3. CASE e # c
    <3>1. e \in Client /\ cursor'[e] = cursor[e] /\ state'[e] = state[e]
      BY <1>6, <1>10, <2>3
    <3>2. cursor[e] % Concurrency = e
      BY DEF Strided
    <3>3. ~DurationMode /\ state[e] = "IDLE" /\ ~Asked(u, e) => Spent(e)
      BY DEF Strided
    <3>4. Asked(u, e) => Asked(u, e)'
      BY <1>11, <1>12, <2>3, <3>1
    <3> QED BY <1>13, <1>14, <3>1, <3>2, <3>3, <3>4
  <2> QED BY <2>2, <2>3
<1>17. Given' = Given \union {a} /\ a \notin Given
  <2>1. ASSUME NEW p \in Nat
        PROVE  /\ p \in Given' <=> p \in Given \/ p = a
               /\ p = a => p \notin Given
    <3>1. p % Concurrency = c /\ p < a + Concurrency <=> p = a \/ (p % Concurrency = c /\ p < a)
      <4>1. ASSUME p % Concurrency = c, a <= p, p < a + Concurrency
            PROVE  p = a
        <5>1. p % Concurrency = a % Concurrency
          BY <1>15, <4>1
        <5> QED BY <1>3, <1>14, <4>1, <5>1, StrideSteps
      <4>2. p < a \/ a <= p
        BY <1>3
      <4>3. p < a => p < a + Concurrency
        BY <1>3, <1>14
      <4>4. a < a + Concurrency
        BY <1>3, <1>14
      <4> QED BY <1>15, <4>1, <4>2, <4>3, <4>4
    <3>2. p \in Given <=> \E u \in Worker : \E e \in Begun(u) : p % Concurrency = e /\ p < cursor[e]
      BY DEF Given
    <3>3. p \in Given' <=> \E u \in Worker : \E e \in Begun(u) : p % Concurrency = e /\ p < cursor'[e]
      <4>1. \A u \in Worker : Begun(u)' = Begun(u)
        BY <1>9, <1>11
      <4> QED BY <4>1 DEF Given
    <3>4. CASE p % Concurrency = c
      <4>1. p \in Given <=> p < a
        BY <1>3, <1>8, <3>2, <3>4
      <4>2. p \in Given' <=> p < a + Concurrency
        BY <1>6, <1>8, <3>3, <3>4
      <4> QED BY <1>3, <3>1, <3>4, <4>1, <4>2
    <3>5. CASE p % Concurrency # c
      <4>1. \A u \in Worker : \A e \in Begun(u) : p % Concurrency = e => cursor'[e] = cursor[e]
        BY <1>6, <1>10, <3>5
      <4> QED BY <1>15, <3>2, <3>3, <3>5, <4>1
    <3> QED BY <3>4, <3>5
  <2>2. Given \subseteq Nat /\ Given' \subseteq Nat
    BY DEF Given
  <2> HIDE DEF Given
  <2> QED BY <2>1, <2>2
<1>18. Tallied'
  <2> SUFFICES ASSUME \A u \in Worker : pc'[u] \notin {"failed", "stopped"}
               PROVE  /\ IsFiniteSet(Given)' /\ (started = Cardinality(Given))'
                      /\ (~DurationMode => Given \subseteq Position)'
    BY DEF Tallied
  <2>1. \A u \in Worker : pc[u] \notin {"failed", "stopped"}
    BY <1>4, <1>6
  <2>2. IsFiniteSet(Given) /\ started = Cardinality(Given) /\ (~DurationMode => Given \subseteq Position)
    BY <2>1 DEF Tallied
  <2>3. IsFiniteSet(Given') /\ Cardinality(Given') = Cardinality(Given) + 1
    <3> HIDE DEF Given
    <3> QED BY <1>17, <2>2, FS_AddElement
  <2>4. ~DurationMode => a \in Position
    <3>1. ~DurationMode => a < OrderSize
      BY <1>2, <1>3, <1>4 DEF IInv, Resting
    <3> QED BY <1>3, <3>1, ConfigAssumption DEF Position
  <2>5. IsFiniteSet(Given)' <=> IsFiniteSet(Given')
    OBVIOUS
  <2>6. Cardinality(Given)' = Cardinality(Given')
    OBVIOUS
  <2>7. ~DurationMode => Given' \subseteq Position
    BY <1>17, <2>2, <2>4
  <2> HIDE DEF Given
  <2> QED BY <1>4, <1>14, <2>2, <2>3, <2>5, <2>6, <2>7
<1> QED BY <1>16, <1>18

\* Every step keeps the strides and the tally.
LEMMA NextStrides ==
  ASSUME IInv, IInv', \A u \in Worker : Counted(u) /\ Rested(u) /\ Strided(u), Tallied, [Next]_vars
  PROVE  (\A u \in Worker : Strided(u)') /\ Tallied'
<1>1. TypeOK /\ TypeOK' /\ HandlerTypes /\ PlainTypes
  BY TypeSplit DEF IInv
<1>2. \A t \in Worker : Mine(t) \subseteq Client /\ Share(t) \in Nat /\ First(t) \in Nat
  BY Slices
<1>3. ASSUME NEW t \in Worker PROVE \E c \in Mine(t) : TRUE
  <2>1. Share(t) > 0
    <3>1. Concurrency \in Nat \ {0} /\ Threads \in 1 .. Concurrency
      BY ConfigAssumption
    <3>2. Concurrency \div Threads \in Nat /\ Concurrency \div Threads > 0
      BY <3>1
    <3> QED BY <3>2 DEF Share
  <2> QED BY <2>1, BootVisitsMine
<1> HIDE DEF Mine, Share, First
<1>4. CASE BeginPhase
  <2>1. /\ started' = 0 /\ \A u \in Worker : pc'[u] = "run"
    BY <1>4 DEF BeginPhase
  <2>2. \A u \in Worker : Begun(u)' = {}
    BY <2>1 DEF Begun
  <2>3. Given' = {}
    BY <2>2 DEF Given
  <2> HIDE DEF Given, Begun
  <2> QED BY <2>1, <2>2, <2>3, FS_EmptySet DEF Strided, Tallied
<1>5. CASE StopWorkers
  <2>1. /\ UNCHANGED <<stage, started, state, cursor, booted>>
        /\ \A u \in Worker : pc[u] \in {"parked", "failed"} /\ pc'[u] = "stopped"
    BY <1>5 DEF StopWorkers, frameVars
  <2>2. \A u \in Worker : Begun(u)' = Begun(u) /\ \A e : ~Asked(u, e)
    BY <2>1 DEF Begun, Asked, InFirstLoop
  <2>3. DurationMode' = DurationMode /\ \A e : Spent(e)' = Spent(e)
    BY <2>1 DEF DurationMode, StageKind, Spent, PhaseMax
  <2> HIDE DEF Begun, DurationMode, Spent, Asked
  <2>4. ASSUME NEW u \in Worker PROVE Strided(u)'
    <3> SUFFICES ASSUME NEW e \in Begun(u)
                 PROVE  /\ (cursor[e] % Concurrency)' = e
                        /\ (~DurationMode /\ state[e] = "IDLE" /\ ~Asked(u, e) => Spent(e))'
      BY <2>2 DEF Strided
    <3>1. /\ cursor[e] % Concurrency = e
          /\ ~DurationMode /\ state[e] = "IDLE" => Spent(e)
      BY <2>2 DEF Strided
    <3> QED BY <2>1, <2>3, <3>1
  <2>5. Tallied'
    <3>1. 0 \in Worker
      BY ConfigAssumption DEF Worker
    <3> QED BY <2>1, <3>1 DEF Tallied
  <2> QED BY <2>4, <2>5
<1>6. CASE Environment \/ UNCHANGED vars
  <2>1. UNCHANGED <<stage, started, state, cursor, booted, pc, conn>>
    BY <1>6 DEF Environment, Answer, PeerCloses, RequestExpires, DeadlinePasses, vars,
                phaseVars, frameVars
  <2>2. \A u \in Worker : Strided(u)' <=> Strided(u)
    BY <2>1 DEF Strided, Begun, InFirstLoop, Booting, Asked, Spent, DurationMode, StageKind, PhaseMax
  <2>3. Given' = Given /\ DurationMode' = DurationMode
    BY <2>1 DEF Given, Begun, InFirstLoop, Booting, DurationMode, StageKind
  <2>4. Tallied'
    <3> HIDE DEF Given, DurationMode
    <3> QED BY <2>1, <2>3 DEF Tallied
  <2> QED BY <2>2, <2>4
<1>7. ASSUME NEW t \in Worker, Run(t) \/ BootDone(t) \/ Booted(t) \/ LeaveLoop(t) \/ Throw(t) \/ CheckNext(t)
      PROVE  (\A u \in Worker : Strided(u)') /\ Tallied'
  <2>1. /\ UNCHANGED <<stage, started, state, cursor, conn>>
        /\ pc[t] \notin {"failed", "stopped"}
        /\ \A u \in Worker \ {t} : pc'[u] = pc[u] /\ booted'[u] = booted[u]
    BY <1>1, <1>7 DEF Run, BootDone, Booted, LeaveLoop, Throw, CheckNext, phaseVars, frameVars,
                      HandlerTypes, PlainTypes
  <2>2. \/ pc[t] = "run" /\ pc'[t] = "boot" /\ booted'[t] = 0
        \/ pc[t] \in {"boot", "poll"} /\ pc'[t] \in {"poll", "parked"} /\ booted'[t] = booted[t]
        \/ pc[t] = "booted" /\ pc'[t] = "boot" /\ booted'[t] = booted[t] + 1
        \/ pc[t] \in {"booted", "resume", "poll"} /\ pc'[t] = "failed" /\ booted'[t] = booted[t]
        \/ pc[t] \in {"enter", "check"} /\ pc'[t] = "claim" /\ booted'[t] = booted[t]
    BY <1>1, <1>7 DEF Run, BootDone, Booted, LeaveLoop, Throw, CheckNext, phaseVars, frameVars,
                      HandlerTypes, PlainTypes
  <2>3. First(t) \in Nat /\ booted[t] \in Nat /\ (pc[t] = "enter" => Booting(t)) /\ \A e \in Mine(t) : e \in Nat
    BY <1>1, <1>2 DEF PlainTypes, IInv, Owned, Booting, Client
  <2>4. Begun(t)' \subseteq Begun(t) /\ (pc'[t] # "failed" => Begun(t)' = Begun(t))
    <3>1. CASE pc[t] = "run" /\ pc'[t] = "boot" /\ booted'[t] = 0
      <4>1. \A e \in Mine(t) : ~(e < First(t) + 0)
        <5> QED BY <1>2, BootVisitsMine DEF Mine
      <4> QED BY <3>1, <4>1 DEF Begun, InFirstLoop
    <3>2. CASE pc[t] \in {"boot", "poll"} /\ pc'[t] \in {"poll", "parked"} /\ booted'[t] = booted[t]
      BY <3>2 DEF Begun, InFirstLoop
    <3>3. CASE pc[t] = "booted" /\ pc'[t] = "boot" /\ booted'[t] = booted[t] + 1
      <4>1. \A e \in Mine(t) : e < First(t) + (booted[t] + 1) <=> e < First(t) + booted[t] \/ e = First(t) + booted[t]
        BY <2>3
      <4> QED BY <3>3, <4>1 DEF Begun, InFirstLoop
    <3>4. CASE pc[t] \in {"booted", "resume", "poll"} /\ pc'[t] = "failed" /\ booted'[t] = booted[t]
      BY <3>4 DEF Begun, InFirstLoop
    <3>5. CASE pc[t] \in {"enter", "check"} /\ pc'[t] = "claim" /\ booted'[t] = booted[t]
      <4>1. InFirstLoop(t)' <=> InFirstLoop(t)
        BY <2>3, <3>5 DEF InFirstLoop, Booting
      <4> QED BY <3>5, <4>1 DEF Begun
    <3> QED BY <2>2, <3>1, <3>2, <3>3, <3>4, <3>5
  <2>5. \A e : Asked(t, e) => Asked(t, e)'
    BY <2>1, <2>2 DEF Asked
  <2>6. PICK c \in Mine(t) : TRUE
    BY <1>3
  <2> HIDE DEF Begun, Asked
  <2> QED BY <1>1, <2>1, <2>4, <2>5, <2>6, QuietStrides
<1>8. ASSUME NEW t \in Worker, CheckRest(t)
      PROVE  (\A u \in Worker : Strided(u)') /\ Tallied'
  <2>1. PICK c \in Mine(t) : c = conn[t]
    BY <1>8 DEF CheckRest, IInv, Owned
  <2>2. /\ UNCHANGED <<stage, started, cursor, conn>> /\ state[c] = "IDLE" /\ c \in Client
        /\ pc[t] \in {"enter", "check"} /\ ~HasNext(c)
        /\ \A u \in Worker \ {t} : pc'[u] = pc[u] /\ booted'[u] = booted[u]
        /\ state' = state
        /\ \/ pc[t] = "enter" /\ pc'[t] = "boot" /\ booted'[t] = booted[t] + 1
           \/ pc[t] = "check" /\ pc'[t] = ReturnTo(t) /\ booted'[t] = booted[t]
    BY <1>1, <1>2, <1>8, <2>1 DEF CheckRest, phaseVars, HandlerTypes, PlainTypes, IInv, Resting
  <2>3. First(t) \in Nat /\ booted[t] \in Nat /\ \A e \in Mine(t) : e \in Nat
    BY <1>1, <1>2 DEF PlainTypes, Client
  <2>4. Begun(t)' = Begun(t)
    <3>1. CASE pc[t] = "enter" /\ pc'[t] = "boot" /\ booted'[t] = booted[t] + 1
      <4>1. \A e \in Mine(t) : e < First(t) + (booted[t] + 1) <=> e < First(t) + booted[t] \/ e = First(t) + booted[t]
        BY <2>3
      <4> QED BY <3>1, <4>1 DEF Begun, InFirstLoop
    <3>2. CASE pc[t] = "check" /\ pc'[t] = ReturnTo(t) /\ booted'[t] = booted[t]
      <4>1. InFirstLoop(t)' <=> InFirstLoop(t)
        BY <3>2 DEF InFirstLoop, Booting, ReturnTo
      <4>2. pc'[t] # "run"
        BY <3>2 DEF ReturnTo
      <4> QED BY <3>2, <4>1, <4>2 DEF Begun
    <3> QED BY <2>2, <3>1, <3>2
  <2>5. \A e \in Client \ {c} : ~Asked(t, e)
    BY <2>1 DEF Asked
  <2>6. ~DurationMode => Spent(c)
    <3>1. cursor[c] \in Nat /\ OrderSize \in Nat /\ started \in Nat /\ PhaseMax \in Nat
      BY <1>1, <2>2, ConfigAssumption DEF PlainTypes, PhaseMax
    <3> HIDE DEF PhaseMax, PhaseMin, DurationMode
    <3> QED BY <2>2, <3>1 DEF HasNext, Spent
  <2>7. pc'[t] # "failed" /\ Begun(t) \subseteq Client
    BY <1>2, <2>2 DEF ReturnTo, Begun
  <2> HIDE DEF Begun, Asked, Spent, DurationMode, HasNext
  <2>8. \A e \in Begun(t)' : ~DurationMode /\ state'[e] = "IDLE" /\ ~Asked(t, e)' =>
          (state[e] = "IDLE" /\ ~Asked(t, e)) \/ Spent(e)
    BY <2>2, <2>4, <2>5, <2>6, <2>7
  <2> QED BY <1>1, <2>2, <2>4, <2>8, QuietStrides
<1>9. ASSUME NEW t \in Worker, NEW c \in Mine(t), pc[t] \in {"poll", "resume"},
             UNCHANGED <<stage, started, cursor, booted>>,
             \/ Ends(t, c)
             \/ \E p, next : next \in {"poll", "resume"} /\ Waits(t, c, p, next)
             \/ pc' = [pc EXCEPT ![t] = "poll"] /\ UNCHANGED <<state, conn>>
      PROVE  (\A u \in Worker : Strided(u)') /\ Tallied'
  <2>1. /\ c \in Client /\ ~Booting(t)
        /\ \/ pc'[t] = "check" /\ conn'[t] = c
           \/ pc'[t] \in {"poll", "resume"} /\ (state'[c] # "IDLE" \/ state' = state)
        /\ \A u \in Worker \ {t} : pc'[u] = pc[u] /\ conn'[u] = conn[u] /\ booted'[u] = booted[u]
        /\ \A e \in Client \ {c} : state'[e] = state[e]
    BY <1>1, <1>2, <1>9 DEF Ends, Waits, HandlerTypes, InFlight, Counted
  <2>2. ~InFirstLoop(t) /\ ~InFirstLoop(t)'
    BY <1>9, <2>1 DEF InFirstLoop, Booting
  <2>3. Begun(t)' = Begun(t) /\ Begun(t) \subseteq Client /\ pc'[t] # "failed"
    <3>1. pc[t] # "run" /\ pc'[t] # "run" /\ pc'[t] # "failed"
      BY <1>9, <2>1
    <3> QED BY <1>2, <1>9, <2>2, <3>1 DEF Begun
  <2>4. \A e : ~Asked(t, e)
    BY <1>9 DEF Asked
  <2>5. state'[c] = "IDLE" => Asked(t, c)' \/ state' = state
    BY <2>1 DEF Asked
  <2> HIDE DEF Begun, Asked, Spent, DurationMode
  <2> QED BY <1>1, <1>9, <2>1, <2>3, <2>4, <2>5, QuietStrides
<1>10. ASSUME NEW t \in Worker, Resume(t)
       PROVE  (\A u \in Worker : Strided(u)') /\ Tallied'
  <2>1. PICK c \in Mine(t) : c = conn[t]
    BY <1>10 DEF Resume, IInv, Owned
  <2>2. c \in Client /\ pc[t] = "resume" /\ UNCHANGED <<stage, started, cursor, booted>>
    BY <1>2, <1>10, <2>1 DEF Resume, phaseVars
  <2>3. \/ Ends(t, c)
        \/ pc' = [pc EXCEPT ![t] = "poll"] /\ UNCHANGED <<state, conn>>
    BY <1>1, <1>10, <2>1, <2>2, HandlerShapes DEF Resume
  <2> QED BY <1>9, <2>2, <2>3
<1>11. ASSUME NEW t \in Worker, NEW c \in Mine(t), IdleHangup(t, c)
       PROVE  (\A u \in Worker : Strided(u)') /\ Tallied'
  <2>1. /\ UNCHANGED <<stage, started, cursor, booted, state, conn>>
        /\ pc[t] = "poll" /\ pc' = [pc EXCEPT ![t] = "poll"]
    BY <1>1, <1>11 DEF IdleHangup, phaseVars, frameVars, HandlerTypes
  <2> QED BY <1>9, <2>1
<1>12. ASSUME NEW t \in Worker, NEW c \in Mine(t),
              \/ RetryDue(t, c) \/ Timeout(t, c) \/ WriteHangup(t, c) \/ ReadEvent(t, c)
              \/ HandleConnect(t, c) \/ WriteEvent(t, c)
       PROVE  (\A u \in Worker : Strided(u)') /\ Tallied'
  <2>1. /\ UNCHANGED <<stage, started, cursor, booted>> /\ pc[t] = "poll" /\ c \in Client
    BY <1>2, <1>12 DEF RetryDue, Timeout, WriteHangup, ReadEvent, HandleConnect, WriteEvent,
                       phaseVars, frameVars
  <2>2. CASE RetryDue(t, c)
    <3>1. Ends(t, c)
      BY <2>2 DEF RetryDue, Ends
    <3> QED BY <1>9, <2>1, <3>1
  <2>3. CASE FailCurrent(t, c) \/ HandleRead(t, c)
    <3>1. Ends(t, c)
      BY <1>1, <2>1, <2>3, HandlerShapes
    <3> QED BY <1>9, <2>1, <3>1
  <2>4. CASE \E p, q, s : \E next \in {"poll", "resume"} : HandleWrite(t, c, p, q, s, next)
    <3>1. Ends(t, c) \/ \E p, next : next \in {"poll", "resume"} /\ Waits(t, c, p, next)
      BY <1>1, <2>1, <2>4, HandlerShapes
    <3> QED BY <1>9, <2>1, <3>1
  <2>5. CASE Timeout(t, c) \/ WriteHangup(t, c) \/ ReadEvent(t, c)
    BY <2>3, <2>5 DEF Timeout, WriteHangup, ReadEvent
  <2>6. CASE HandleConnect(t, c) \/ WriteEvent(t, c)
    BY <2>3, <2>4, <2>6 DEF HandleConnect, WriteEvent
  <2> QED BY <1>12, <2>2, <2>5, <2>6
<1>13. ASSUME NEW t \in Worker, WorkerStep(t) \/ Throw(t)
       PROVE  (\A u \in Worker : Strided(u)') /\ Tallied'
  BY <1>1, <1>7, <1>8, <1>10, <1>11, <1>12, <1>13, BootStrides, ClaimStrides DEF WorkerStep
<1> QED BY <1>4, <1>5, <1>6, <1>13 DEF Next, Coordinator, Ended

\* They hold in every state the driver reaches.
LEMMA StridesHold == Spec => [](\A u \in Worker : Strided(u)) /\ []Tallied
<1>1. Init => (\A u \in Worker : Strided(u)) /\ Tallied
  <2> SUFFICES ASSUME Init PROVE (\A u \in Worker : Strided(u)) /\ Tallied
    OBVIOUS
  <2>1. \A u \in Worker : Begun(u) = {}
    <3> SUFFICES ASSUME NEW u \in Worker, NEW e \in Mine(u) PROVE e \notin Begun(u)
      BY DEF Begun
    <3>1. First(u) \in Nat /\ Share(u) \in Nat /\ booted[u] = 0 /\ pc[u] = "parked"
      BY Slices DEF Init
    <3> HIDE DEF First, Share
    <3>2. ~(e < First(u) + 0)
      BY <3>1 DEF Mine
    <3> HIDE DEF Mine
    <3> QED BY <3>1, <3>2 DEF Begun, InFirstLoop
  <2>2. Given = {}
    BY <2>1 DEF Given
  <2>3. started = 0
    BY DEF Init
  <2> HIDE DEF Begun, Given
  <2> QED BY <2>1, <2>2, <2>3, FS_EmptySet DEF Strided, Tallied
<1>2. /\ IInv /\ IInv' /\ (\A u \in Worker : Counted(u)) /\ (\A u \in Worker : Rested(u))
      /\ (\A u \in Worker : Strided(u)) /\ Tallied /\ [Next]_vars
      => (\A u \in Worker : Strided(u))' /\ Tallied'
  BY NextStrides
<1> QED BY <1>1, <1>2, CountsHold, RestsHold, PTL DEF Spec

\* The busy clients and the tallies are numbers the closed loop can add.
LEMMA BooksTypes ==
  ASSUME TypeOK
  PROVE  /\ started \in Nat /\ Total(Credits) \in Nat /\ Total(Charges) \in Nat
         /\ IsFiniteSet(Busy) /\ Cardinality(Busy) \in Nat
<1>1. Credits \in [Worker -> Nat] /\ Charges \in [Worker -> Nat] /\ started \in Nat
  BY DEF TypeOK, Credits, Charges, Credited, Charged
<1>2. 0 \in Worker
  BY ConfigAssumption DEF Worker
<1>3. IsFiniteSet(Client)
  BY ConfigAssumption, FS_Interval DEF Client
<1>4. IsFiniteSet(Busy) /\ Cardinality(Busy) \in Nat
  <2>1. Busy \subseteq Client
    BY DEF Busy
  <2> QED BY <1>3, <2>1, FS_Subset, FS_CardinalityType
<1> HIDE DEF Credits, Charges
<1> QED BY <1>1, <1>2, <1>4, TotalAdds

\* The sizes the closed loop counts are these.
LEMMA SameCardinality ==
  ASSUME NEW S
  PROVE  Promise!Cardinality(S) = Cardinality(S)
BY DEF Promise!Cardinality, Cardinality

\* A step of the closed loop keeps its books in balance.
LEMMA BalanceKept ==
  ASSUME TypeOK, Promise!Balanced, [Promise!Next]_Promise!vars
  PROVE  Promise!Balanced'
<1> DEFINE cr == Total(Credits)
           ch == Total(Charges)
<1>1. /\ started \in Nat /\ cr \in Nat /\ ch \in Nat
      /\ IsFiniteSet(Busy) /\ Cardinality(Busy) \in Nat
  BY BooksTypes
<1>2. \A c \in Client : /\ c \notin Busy => Cardinality(Busy \union {c}) = Cardinality(Busy) + 1
                        /\ c \in Busy => Cardinality(Busy \ {c}) = Cardinality(Busy) - 1
  BY <1>1, FS_AddElement, FS_RemoveElement
<1>3. Measuring => started = cr + ch + Cardinality(Busy)
  BY SameCardinality DEF Promise!Balanced
<1> HIDE DEF Measuring, Busy, cr, ch
<1>4. Promise!Balanced' <=> (Measuring' => started' = cr' + ch' + Cardinality(Busy'))
  BY SameCardinality DEF Promise!Balanced, cr, ch
<1>5. CASE Promise!Open
  <2>1. Busy' = {} /\ started' = 0 /\ cr' = 0 /\ ch' = 0
    BY <1>5 DEF Promise!Open, cr, ch
  <2> QED BY <1>4, <2>1, FS_EmptySet
<1>6. CASE Promise!Close
  BY <1>4, <1>6 DEF Promise!Close
<1>7. ASSUME NEW c \in Client, Promise!Start(c)
      PROVE  Promise!Balanced'
  <2>1. /\ c \notin Busy /\ Busy' = Busy \union {c} /\ started' = started + 1
        /\ Measuring' = Measuring /\ cr' = cr /\ ch' = ch
    BY <1>7 DEF Promise!Start, cr, ch
  <2> QED BY <1>1, <1>2, <1>3, <1>4, <2>1
<1>8. ASSUME NEW c \in Client, Promise!Finish(c)
      PROVE  Promise!Balanced'
  <2>1. /\ c \in Busy /\ Busy' = Busy \ {c} /\ started' = started
        /\ Measuring' = Measuring
        /\ Measuring => \/ cr' = cr + 1 /\ ch' = ch
                        \/ ch' = ch + 1 /\ cr' = cr
    BY <1>8 DEF Promise!Finish, cr, ch
  <2> QED BY <1>1, <1>2, <1>3, <1>4, <2>1
<1>9. ASSUME NEW c \in Client, Promise!Bounce(c)
      PROVE  Promise!Balanced'
  <2>1. /\ Busy' = Busy /\ started' = started + 1 /\ Measuring' = Measuring
        /\ Measuring => ch' = ch + 1
        /\ cr' = cr
    BY <1>9 DEF Promise!Bounce, cr, ch
  <2> QED BY <1>1, <1>3, <1>4, <2>1
<1>10. CASE UNCHANGED Promise!vars
  <2>1. /\ Busy' = Busy /\ started' = started /\ Measuring' = Measuring /\ ch' = ch /\ cr' = cr
    BY <1>10 DEF Promise!vars, cr, ch
  <2> QED BY <1>3, <1>4, <2>1
<1> QED BY <1>5, <1>6, <1>7, <1>8, <1>9, <1>10 DEF Promise!Next

\* At every moment of a measured phase, the requests started are those credited,
\* those charged and one per connection with a record, for any number of threads.
THEOREM BooksBalance == Spec => []Promise!Balanced
<1>1. Init => Promise!Balanced
  BY DEF Init, Promise!Balanced, Measuring
<1>2. TypeOK /\ Promise!Balanced /\ [Promise!Next]_Promise!vars => Promise!Balanced'
  BY BalanceKept
<1> QED BY <1>1, <1>2, TypeCorrect, LoopsImplementClosedLoop, PTL
        DEF Spec, ImplementsClosedLoop, Promise!Spec

\* Between the first phase and the end of the run, the kind is the stage's.
Kinded ==
  (\A t \in Worker : pc[t] # "stopped") => stage = 0 \/ kind = StageKind(stage)

LEMMA KindsHold == Spec => []Kinded
<1>1. Init => Kinded
  BY DEF Init, Kinded
<1>2. TypeOK /\ Kinded /\ [Next]_vars => Kinded'
  <2> SUFFICES ASSUME TypeOK, Kinded, [Next]_vars PROVE Kinded'
    OBVIOUS
  <2>1. 0 \in Worker
    BY ConfigAssumption DEF Worker
  <2>2. CASE BeginPhase
    BY <2>2 DEF BeginPhase, Kinded, StageKind
  <2>3. CASE StopWorkers
    <3>1. \A t \in Worker : pc'[t] = "stopped"
      BY <2>3 DEF StopWorkers
    <3> QED BY <2>1, <3>1 DEF Kinded
  <2>4. CASE Environment \/ UNCHANGED vars
    <3>1. UNCHANGED <<stage, kind, pc>>
      BY <2>4 DEF Environment, Answer, PeerCloses, RequestExpires, DeadlinePasses, vars, phaseVars
    <3> QED BY <3>1 DEF Kinded, StageKind
  <2>5. ASSUME NEW t \in Worker, WorkerStep(t) \/ Throw(t)
        PROVE  Kinded'
    <3>1. /\ UNCHANGED <<stage, kind>> /\ pc[t] # "stopped"
          /\ \A u \in Worker \ {t} : pc'[u] = pc[u]
      BY <2>5, WorkerBooks
    <3>2. (\A u \in Worker : pc'[u] # "stopped") => (\A u \in Worker : pc[u] # "stopped")
      BY <3>1
    <3> QED BY <3>1, <3>2 DEF Kinded, StageKind
  <2> QED BY <2>2, <2>3, <2>4, <2>5 DEF Next, Coordinator, Ended
<1> QED BY <1>1, <1>2, TypeCorrect, PTL DEF Spec

\* "--duration 0 executes every query once per repetition", for any number of
\* connections, threads and records, however many requests fail.
THEOREM QueriesRunOnce == Spec => []EachQueryOnce
<1>1. /\ IInv /\ (\A u \in Worker : Counted(u)) /\ (\A u \in Worker : Strided(u))
      /\ Tallied /\ Promise!Balanced /\ Kinded
      => EachQueryOnce
  <2> SUFFICES ASSUME IInv, \A u \in Worker : Counted(u) /\ Strided(u),
                      Tallied, Promise!Balanced, Kinded,
                      AllParked, ~DurationMode, ~(PhaseMax > 0 /\ started >= PhaseMax)
               PROVE  /\ started = OrderSize
                      /\ Total(Credits) + Total(Charges) = OrderSize
                      /\ \A p \in Position : p < cursor[p % Concurrency]
    BY DEF EachQueryOnce
  <2>1. TypeOK /\ HandlerTypes /\ PlainTypes
    BY TypeSplit DEF IInv
  <2>2. \A u \in Worker : pc[u] = "parked" /\ Busied(u) = {} /\ ~Booting(u)
    BY DEF AllParked, Counted
  <2>3. ASSUME NEW c \in Client
        PROVE  \E u \in Worker : c \in Begun(u) /\ state[c] = "IDLE" /\ ~Asked(u, c)
    <3>1. PICK u \in Worker : c \in Mine(u)
      BY SlicesCover
    <3>2. First(u) \in Nat /\ Share(u) \in Nat /\ booted[u] \in Nat /\ booted[u] >= Share(u)
      BY <2>1, <2>2, Slices DEF PlainTypes, Booting
    <3> HIDE DEF First, Share
    <3>3. c < First(u) + booted[u]
      BY <3>1, <3>2 DEF Mine
    <3> HIDE DEF Mine
    <3>4. c \in Begun(u) /\ ~Asked(u, c)
      BY <2>2, <3>1, <3>3 DEF Begun, Asked
    <3>5. state[c] = "IDLE"
      BY <2>2, <3>1 DEF Busied
    <3> QED BY <3>4, <3>5
  <2>4. ASSUME NEW c \in Client PROVE cursor[c] >= OrderSize
    <3>1. Spent(c)
      BY <2>3 DEF Strided
    <3>2. PhaseMax \in Nat
      BY ConfigAssumption DEF PhaseMax
    <3> HIDE DEF PhaseMax
    <3> QED BY <3>1, <3>2 DEF Spent
  <2>5. ASSUME NEW p \in Position
        PROVE  p \in Nat /\ p % Concurrency \in Client /\ p < cursor[p % Concurrency]
    <3>1. p \in Nat /\ p < OrderSize /\ OrderSize \in Nat
      BY ConfigAssumption DEF Position
    <3>2. p % Concurrency \in Client
      BY <3>1, ConfigAssumption DEF Client
    <3>3. cursor[p % Concurrency] \in Nat
      BY <2>1, <3>2 DEF PlainTypes
    <3> QED BY <2>4, <3>1, <3>2, <3>3
  <2>6. Given = Position
    <3>1. Given \subseteq Position
      BY <2>2 DEF Tallied
    <3>2. Position \subseteq Given
      <4> SUFFICES ASSUME NEW p \in Position PROVE p \in Given
        OBVIOUS
      <4>1. PICK u \in Worker : p % Concurrency \in Begun(u)
        BY <2>3, <2>5
      <4> HIDE DEF Begun
      <4> QED BY <2>5, <4>1 DEF Given
    <3> QED BY <3>1, <3>2
  <2>7. started = OrderSize
    <3>1. Cardinality(Position) = OrderSize
      BY ConfigAssumption, FS_Interval DEF Position
    <3> QED BY <2>2, <2>6, <3>1 DEF Tallied
  <2>8. Busy = {}
    <3>1. \A c \in Client : record[c] = NoRecord
      BY <2>3 DEF IInv, ClientOK, InFlight
    <3> QED BY <3>1 DEF Busy
  <2>9. Measuring
    <3>1. kind = StageKind(stage)
      BY <2>1, <2>2 DEF Kinded, AllParked, PlainTypes
    <3> QED BY <3>1 DEF Measuring, DurationMode, StageKind
  <2>10. Total(Credits) + Total(Charges) = started
    <3>1. started = Total(Credits) + Total(Charges) + Cardinality(Busy)
      BY <2>9, SameCardinality DEF Promise!Balanced
    <3> QED BY <2>1, <2>8, <3>1, BooksTypes, FS_EmptySet
  <2> QED BY <2>5, <2>7, <2>10
<1> QED BY <1>1, CountsHold, StridesHold, BooksBalance, KindsHold, PTL

-----------------------------------------------------------------------------
(* The phases run in lock step.                                            *)

\* A worker that takes a step has not failed, and does not stop by itself.
LEMMA StepsInPlace ==
  ASSUME TypeOK, NEW t \in Worker, WorkerStep(t) \/ Throw(t)
  PROVE  pc[t] # "failed" /\ pc'[t] # "stopped"
<1>1. HandlerTypes
  BY TypeSplit
<1>2. \A c \in Mine(t) : c \in Client
  BY Slices
<1>3. \A c \in Client :
        /\ FailCurrent(t, c) \/ HandleRead(t, c) => pc'[t] = "check"
        /\ \A p, q, s, next : HandleWrite(t, c, p, q, s, next) => pc'[t] \in {"check", next}
  BY <1>1, HandlerShapes DEF Ends, Waits, HandlerTypes
<1> HIDE DEF Mine
<1>4. CASE \/ Run(t) \/ Boot(t) \/ BootDone(t) \/ CheckNext(t) \/ CheckRest(t)
           \/ Booted(t) \/ LeaveLoop(t) \/ Throw(t)
  BY <1>1, <1>4 DEF Run, Boot, BootDone, CheckNext, CheckRest, Booted, LeaveLoop, Throw,
                    ReturnTo, HandlerTypes
<1>5. CASE Claim(t)
  <2>1. conn[t] \in Client /\ pc[t] = "claim"
    BY <1>1, <1>5 DEF Claim, HandlerTypes
  <2>2. Ends(t, conn[t]) \/ \E p : Waits(t, conn[t], p, ReturnTo(t))
    BY <1>5, ClaimShapes
  <2>3. pc'[t] \in {"check", ReturnTo(t)}
    BY <1>1, <2>2 DEF Ends, Waits, HandlerTypes
  <2> QED BY <2>1, <2>3 DEF ReturnTo
<1>6. CASE Resume(t)
  <2>1. conn[t] \in Client /\ pc[t] = "resume"
    BY <1>1, <1>6 DEF Resume, HandlerTypes
  <2>2. pc'[t] \in {"check", "poll"}
    BY <1>1, <1>3, <1>6, <2>1 DEF Resume, HandlerTypes
  <2> QED BY <2>1, <2>2
<1>7. ASSUME NEW c \in Mine(t),
             \/ IdleHangup(t, c) \/ RetryDue(t, c) \/ Timeout(t, c) \/ HandleConnect(t, c)
             \/ WriteEvent(t, c) \/ WriteHangup(t, c) \/ ReadEvent(t, c)
      PROVE  pc[t] # "failed" /\ pc'[t] # "stopped"
  <2>1. pc[t] = "poll"
    BY <1>7 DEF IdleHangup, RetryDue, Timeout, HandleConnect, WriteEvent, WriteHangup, ReadEvent
  <2>2. pc'[t] \in {"check", "poll", "resume"}
    BY <1>1, <1>2, <1>3, <1>7, <2>1 DEF IdleHangup, RetryDue, Timeout, HandleConnect, WriteEvent,
                                      WriteHangup, ReadEvent, HandlerTypes
  <2> QED BY <2>1, <2>2
<1> QED BY <1>4, <1>5, <1>6, <1>7 DEF WorkerStep

\* The coordinator's steps and the workers' ends of a phase are the lock step's;
\* everything else a worker does lies within its round.
LEMMA NextInStep ==
  ASSUME TypeOK, [Next]_vars
  PROVE  [Steps!Next]_Steps!vars
<1> DEFINE working == {t \in Worker : pc[t] \notin {"parked", "failed", "stopped"}}
           broken == {t \in Worker : pc[t] = "failed"}
           over == \A t \in Worker : pc[t] = "stopped"
<1>1. 0 \in Worker /\ HandlerTypes /\ PlainTypes
  BY ConfigAssumption, TypeSplit DEF Worker
<1>2. CASE BeginPhase
  <2>1. /\ working = {} /\ broken = {} /\ ~over
        /\ working' = Worker /\ broken' = {} /\ ~over'
        /\ stage' = stage + 1 /\ stage < Stages
    BY <1>1, <1>2 DEF BeginPhase
  <2> QED BY <2>1 DEF Steps!Next, Steps!Begin
<1>3. CASE StopWorkers
  <2>1. /\ working = {} /\ ~over /\ working' = {} /\ broken' = {} /\ over' /\ stage' = stage
    BY <1>1, <1>3 DEF StopWorkers
  <2> QED BY <2>1 DEF Steps!Next, Steps!Stop
<1>4. CASE Environment \/ UNCHANGED vars
  <2>1. UNCHANGED <<stage, pc>>
    BY <1>4 DEF Environment, Answer, PeerCloses, RequestExpires, DeadlinePasses, vars, phaseVars
  <2> QED BY <2>1 DEF Steps!vars
<1>5. ASSUME NEW t \in Worker, WorkerStep(t) \/ Throw(t)
      PROVE  [Steps!Next]_Steps!vars
  <2>1. /\ stage' = stage /\ pc[t] \notin {"parked", "stopped"}
        /\ \A u \in Worker \ {t} : pc'[u] = pc[u]
    BY <1>1, <1>5, WorkerBooks
  <2>2. pc[t] # "failed" /\ pc'[t] # "stopped"
    BY <1>5, StepsInPlace
  <2>3. ~over /\ ~over'
    BY <2>1, <2>2
  <2>4. CASE pc'[t] \notin {"parked", "failed"}
    <3>1. working' = working /\ broken' = broken
      BY <2>1, <2>2, <2>4
    <3> QED BY <2>1, <2>3, <3>1 DEF Steps!vars
  <2>5. CASE pc'[t] = "parked"
    <3>1. t \in working /\ working' = working \ {t} /\ broken' = broken
      BY <2>1, <2>2, <2>5
    <3> QED BY <2>1, <2>3, <3>1 DEF Steps!Next, Steps!Leave
  <2>6. CASE pc'[t] = "failed"
    <3>1. t \in working /\ working' = working \ {t} /\ broken' = broken \union {t}
      BY <2>1, <2>2, <2>6
    <3> QED BY <2>1, <2>3, <3>1 DEF Steps!Next, Steps!Leave
  <2> QED BY <2>4, <2>5, <2>6
<1> QED BY <1>2, <1>3, <1>4, <1>5 DEF Next, Coordinator, Ended

\* The workers run a phase in lock step: it begins for all of them at once, only
\* when all have left the phase before and none has failed, for any number of
\* threads and phases.  ReplayPhases shows as much of the barrier they meet at.
THEOREM LoopsRunInLockStep == Spec => RunsInLockStep
<1>1. Init => Steps!Init
  <2>1. 0 \in Worker
    BY ConfigAssumption DEF Worker
  <2> QED BY <2>1 DEF Init, Steps!Init
<1>2. TypeOK /\ [Next]_vars => [Steps!Next]_Steps!vars
  BY NextInStep
<1> QED BY <1>1, <1>2, TypeCorrect, PTL DEF Spec, RunsInLockStep, Steps!Spec
=============================================================================
