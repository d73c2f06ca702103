-------------------------- MODULE PhasesRefinement --------------------------
(***************************************************************************)
(* ReplayPhases implements LockStep: the latch, the two barriers of a      *)
(* phase and check_workers make rounds of it.  A round begins when the     *)
(* first barrier opens; a worker leaves it when EventLoop::run ends.       *)
(***************************************************************************)
EXTENDS ReplayPhases

Stopping == main \in {"stop", "stopping", "stopped", "join", "output", "write",
                      "return", "exit"}

\* The coordinator has set up one phase more while the barrier is closed.
Round   == IF main = "begin" \/ (main = "begun" /\ ~open) THEN stage - 1 ELSE stage
Working == {t \in Worker : open /\ kind # "STOP" /\ pc[t] \in {"begun", "run", "running"}}
Broken  == IF Stopping THEN {} ELSE failed

Rounds == INSTANCE LockStep WITH
  Rounds  <- Stages,
  round   <- Round,
  working <- Working,
  broken  <- Broken,
  over    <- Stopping

\* The coordinator and the workers run in lock step: a phase begins for all
\* workers at once, only when all of them have left the phase before and none
\* has failed, and none begins after the stop.
ImplementsLockStep == Rounds!Spec
=============================================================================
