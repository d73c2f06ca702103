-------------------------- MODULE ReplayRefinement --------------------------
(***************************************************************************)
(* ReplayLoop implements ClosedLoop: a connection with a record is a busy  *)
(* client, and the workers' tallies add up to the round's.  It implements  *)
(* LockStep too, which ReplayPhases shows of the barrier: what the two     *)
(* halves of the driver rely on in each other is one specification.        *)
(***************************************************************************)
EXTENDS ReplayLoop

\* What the workers' tallies f add up to: <<t, n>> is the n-th of worker t.
Total(f) == Cardinality(UNION {{t} \X (1 .. f[t]) : t \in Worker})

Credits == [t \in Worker |-> Credited(t)]
Charges == [t \in Worker |-> Charged(t)]

Promise == INSTANCE ClosedLoop WITH
  counting <- Measuring,
  busy     <- Busy,
  credited <- Total(Credits),
  charged  <- Total(Charges)

\* The replay driver behaves as a closed loop: no client ever has two requests
\* under way, every request ends once, with one credit or one charge, and a
\* phase begins only when all the requests of the last one have ended.
ImplementsClosedLoop == Promise!Spec

\* "--duration 0 executes every query once per repetition": a repetition that
\* no cap cut short has taken every position of the order, each in its
\* connection's stride, as many requests as there are positions, and each of
\* them ended in one credit or one charge, whatever failed, in whatever order.
EachQueryOnce ==
  AllParked /\ ~DurationMode /\ ~(PhaseMax > 0 /\ started >= PhaseMax) =>
    /\ started = OrderSize
    /\ Total(Credits) + Total(Charges) = OrderSize
    /\ \A p \in Position : p < cursor[p % Concurrency]

Steps == INSTANCE LockStep WITH
  Rounds  <- Stages,
  round   <- stage,
  working <- {t \in Worker : pc[t] \notin {"parked", "failed", "stopped"}},
  broken  <- {t \in Worker : pc[t] = "failed"},
  over    <- \A t \in Worker : pc[t] = "stopped"

\* The phases run in lock step, as the coordinator's barrier has them: one
\* begins for all workers at once, when all have left the one before and none
\* has failed.
RunsInLockStep == Steps!Spec
=============================================================================
