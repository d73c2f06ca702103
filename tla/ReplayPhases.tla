---------------------------- MODULE ReplayPhases ----------------------------
(***************************************************************************)
(* run() of driver/bench_replay.cpp: how the main thread (the coordinator) *)
(* and the worker threads take turns over memory that no lock protects.    *)
(* The coordinator writes the fields of the Phase, the workers read them;  *)
(* each worker writes its worker_errors entry and its EventLoop's tallies, *)
(* the coordinator reads them.  A latch and one std::barrier, passed twice *)
(* per phase, are all that keeps them apart.                               *)
(*                                                                         *)
(* Every step here touches the shared memory at most once, so two steps    *)
(* that touch the same field, one of them writing, and that are enabled at *)
(* the same time are a data race of the program.  What a worker does in a  *)
(* phase is ReplayLoop.                                                    *)
(***************************************************************************)
EXTENDS Naturals, FiniteSets

CONSTANTS
  Threads,      \* --threads
  Warmup,       \* is there a warmup phase before the measured ones?
  Repetitions   \* --repetitions

ASSUME PhasesAssumption ==
  /\ Threads \in Nat \ {0}
  /\ Warmup \in BOOLEAN
  /\ Repetitions \in Nat \ {0}

Worker == 0 .. Threads - 1
Main   == Threads              \* the coordinator's place at the barrier
Party  == Worker \union {Main}

VARIABLES
  main,      \* where the coordinator is
  pc,        \* where each worker is
  ready,     \* workers that counted the latch down
  arrived,   \* parties waiting at the barrier in its current phase
  open,      \* has the barrier opened an odd number of times?
  kind,      \* Phase::kind
  stage,     \* how many phases the coordinator has set up
  failed,    \* workers whose worker_errors entry is not empty
  tally,     \* the phase a worker's successes_ and errors_ were counted in
  merged,    \* phases pushed to repetitions and added to the aggregate
  verdict,   \* "reported" is exit code 0 or 1, "failed" is exit code 2
  file       \* the output file

barrierVars == <<arrived, open>>
phaseVars   == <<kind, stage>>
outVars     == <<merged, verdict, file>>
vars == <<main, pc, ready, arrived, open, kind, stage, failed, tally, merged,
          verdict, file>>

Stages       == Repetitions + (IF Warmup THEN 1 ELSE 0)
StageKind(n) == IF Warmup /\ n = 1 THEN "WARMUP" ELSE "MEASURED"

Init ==
  /\ main = "ready"
  /\ pc = [t \in Worker |-> "pin"]
  /\ ready = {} /\ arrived = {} /\ open = FALSE
  /\ kind = "STOP" /\ stage = 0
  /\ failed = {}
  /\ tally = [t \in Worker |-> 0]
  /\ merged = {} /\ verdict = "none" /\ file = "old"

\* A slip: the barrier is made for the workers alone.
ArriveWithoutMain(p) ==
  LET all == arrived \union {p}
  IN  IF Cardinality(all) = Threads THEN arrived' = {} /\ open' = ~open
      ELSE arrived' = all /\ UNCHANGED open

\* arrive_and_wait up to the wait: the last party opens the barrier for all.
Arrive(p) ==
  LET all == arrived \union {p}
  IN  IF all = Party THEN arrived' = {} /\ open' = ~open
      ELSE arrived' = all /\ UNCHANGED open

\* arrive_and_wait returns to a party once the barrier has opened for it.
Released(p) == p \notin arrived

-----------------------------------------------------------------------------
(* A worker thread.                                                        *)

GoTo(t, place) == pc' = [pc EXCEPT ![t] = place]

Pin(t) ==
  /\ pc[t] = "pin"
  /\ GoTo(t, "count_down")
  /\ UNCHANGED failed \/ failed' = failed \union {t}
  /\ UNCHANGED <<main, ready, barrierVars, phaseVars, tally, outVars>>

CountDown(t) ==
  /\ pc[t] = "count_down"
  /\ GoTo(t, "begin")
  /\ ready' = ready \union {t}
  /\ UNCHANGED <<main, barrierVars, phaseVars, failed, tally, outVars>>

\* The arrival at the first ("begin") or the second ("end") barrier.
WorkerArrives(t) ==
  /\ \/ pc[t] = "begin" /\ GoTo(t, "begun")
     \/ pc[t] = "end" /\ GoTo(t, "ended")
  /\ Arrive(t)
  /\ UNCHANGED <<main, ready, phaseVars, failed, tally, outVars>>

\* Past the first barrier the worker looks at phase.kind and at its own error.
Look(t) ==
  /\ pc[t] = "begun" /\ Released(t)
  /\ GoTo(t, IF kind = "STOP" THEN "exit"
             ELSE IF t \in failed THEN "end" ELSE "run")
  /\ UNCHANGED <<main, ready, barrierVars, phaseVars, failed, tally, outVars>>

\* EventLoop::run reads the phase; a measured one starts new tallies.
RunPhase(t) ==
  /\ pc[t] = "run"
  /\ GoTo(t, "running")
  /\ tally' = [tally EXCEPT ![t] = IF kind = "MEASURED" THEN stage ELSE @]
  /\ UNCHANGED <<main, ready, barrierVars, phaseVars, failed, outVars>>

\* A slip: a worker that failed leaves its thread.
RunEndsThread(t) ==
  /\ pc[t] = "running"
  /\ \/ GoTo(t, "end") /\ UNCHANGED failed
     \/ GoTo(t, "exit") /\ failed' = failed \union {t}
  /\ UNCHANGED <<main, ready, barrierVars, phaseVars, tally, outVars>>

\* EventLoop::run returns, or throws and the worker keeps the error.
RunEnds(t) ==
  /\ pc[t] = "running"
  /\ GoTo(t, "end")
  /\ UNCHANGED failed \/ failed' = failed \union {t}
  /\ UNCHANGED <<main, ready, barrierVars, phaseVars, tally, outVars>>

LoopAround(t) ==
  /\ pc[t] = "ended" /\ Released(t)
  /\ GoTo(t, "begin")
  /\ UNCHANGED <<main, ready, barrierVars, phaseVars, failed, tally, outVars>>

-----------------------------------------------------------------------------
(* The coordinator.                                                        *)

\* Slips: the latch is not waited for; the warmup is counted among the
\* repetitions.
ReadyAtOnce ==
  /\ main = "ready"
  /\ main' = "check"
  /\ UNCHANGED <<pc, ready, barrierVars, phaseVars, failed, tally, outVars>>

LastRepetitionDone ==
  /\ main = "next" /\ stage = Repetitions
  /\ main' = "stop"
  /\ UNCHANGED <<pc, ready, barrierVars, phaseVars, failed, tally, outVars>>

\* After ready.wait() and after each phase, check_workers; an error, or a
\* server_cpu_seconds that throws, leads to the catch block.
Ready ==
  /\ main = "ready" /\ ready = Worker
  /\ main' = "check"
  /\ UNCHANGED <<pc, ready, barrierVars, phaseVars, failed, tally, outVars>>

CheckWorkers ==
  /\ main = "check"
  /\ IF failed # {}
     THEN main' = "stop" /\ verdict' = "failed"
     ELSE /\ main' = IF stage > 0 /\ StageKind(stage) = "MEASURED" THEN "merge"
                     ELSE "next"
          /\ UNCHANGED verdict
  /\ UNCHANGED <<pc, ready, barrierVars, phaseVars, failed, tally, merged, file>>

\* server_cpu_seconds before or after a measured phase: the server is gone.
ServerGone ==
  /\ \/ main = "next" /\ stage < Stages /\ StageKind(stage + 1) = "MEASURED"
     \/ main = "measured"
  /\ main' = "stop" /\ verdict' = "failed"
  /\ UNCHANGED <<pc, ready, barrierVars, phaseVars, failed, tally, merged, file>>

ServerAlive ==
  /\ main = "measured"
  /\ main' = "check"
  /\ UNCHANGED <<pc, ready, barrierVars, phaseVars, failed, tally, outVars>>

SetPhase ==
  /\ main = "next" /\ stage < Stages
  /\ stage' = stage + 1
  /\ kind' = StageKind(stage + 1)
  /\ main' = "begin"
  /\ UNCHANGED <<pc, ready, barrierVars, failed, tally, outVars>>

\* All repetitions are done.
LastPhaseDone ==
  /\ main = "next" /\ stage = Stages
  /\ main' = "stop"
  /\ UNCHANGED <<pc, ready, barrierVars, phaseVars, failed, tally, outVars>>

MainArrives ==
  /\ \/ main = "begin" /\ main' = "begun"
     \/ main = "end" /\ main' = "ended"
     \/ main = "stopping" /\ main' = "stopped"
  /\ Arrive(Main)
  /\ UNCHANGED <<pc, ready, phaseVars, failed, tally, outVars>>

MainReleased ==
  /\ Released(Main)
  /\ \/ main = "begun" /\ main' = "end"
     \/ main = "ended" /\ main' = IF kind = "MEASURED" THEN "measured" ELSE "check"
     \/ main = "stopped" /\ main' = "join"
  /\ UNCHANGED <<pc, ready, barrierVars, phaseVars, failed, tally, outVars>>

\* merge_stats reads every loop's tallies.
Merge ==
  /\ main = "merge"
  /\ merged' = merged \union {stage}
  /\ main' = "next"
  /\ UNCHANGED <<pc, ready, barrierVars, phaseVars, failed, tally, verdict, file>>

\* stop_workers: the barrier once more, then the joins.
SetStop ==
  /\ main = "stop"
  /\ kind' = "STOP"
  /\ main' = "stopping"
  /\ UNCHANGED <<pc, ready, barrierVars, stage, failed, tally, outVars>>

Join ==
  /\ main = "join" /\ \A t \in Worker : pc[t] = "exit"
  /\ main' = IF verdict = "failed" THEN "exit" ELSE "output"
  /\ UNCHANGED <<pc, ready, barrierVars, phaseVars, failed, tally, outVars>>

\* The output file is opened and truncated, and written into the stream's
\* buffer and beyond; a failure of either is noticed.
OpenOutput ==
  /\ main = "output"
  /\ \/ main' = "write" /\ file' = "empty" /\ UNCHANGED verdict
     \/ main' = "exit" /\ verdict' = "failed" /\ UNCHANGED file
  /\ UNCHANGED <<pc, ready, barrierVars, phaseVars, failed, tally, merged>>

WriteOutput ==
  /\ main = "write"
  /\ \/ main' = "return" /\ UNCHANGED <<verdict, file>>
     \/ main' = "exit" /\ verdict' = "failed" /\ file' \in {"empty", "partial"}
  /\ UNCHANGED <<pc, ready, barrierVars, phaseVars, failed, tally, merged>>

\* run() returns; what is still in the stream's buffer - it may be everything - is
\* written by its destructor, which has nobody to tell about a failure.
Return ==
  /\ main = "return"
  /\ main' = "exit" /\ verdict' = "reported"
  /\ file' \in {"whole", "partial", "empty"}
  /\ UNCHANGED <<pc, ready, barrierVars, phaseVars, failed, tally, merged>>

-----------------------------------------------------------------------------

WorkerStep(t) ==
  \/ Pin(t) \/ CountDown(t) \/ WorkerArrives(t) \/ Look(t) \/ RunPhase(t)
  \/ RunEnds(t) \/ LoopAround(t)

MainStep ==
  \/ Ready \/ CheckWorkers \/ ServerGone \/ ServerAlive \/ SetPhase
  \/ LastPhaseDone \/ MainArrives \/ MainReleased \/ Merge \/ SetStop \/ Join
  \/ OpenOutput \/ WriteOutput \/ Return

Exited == main = "exit" /\ UNCHANGED vars

Next == MainStep \/ (\E t \in Worker : WorkerStep(t)) \/ Exited

Spec == Init /\ [][Next]_vars

\* Every thread runs, and a phase ends (FairSpec of ReplayLoop shows why).
Fairness == WF_vars(MainStep) /\ \A t \in Worker : WF_vars(WorkerStep(t))

FairSpec == Spec /\ Fairness

-----------------------------------------------------------------------------
(* Properties.                                                             *)

\* Every variable keeps its type.
TypeOK ==
  /\ main \in {"ready", "check", "next", "begin", "begun", "end", "ended",
               "measured", "merge", "stop", "stopping", "stopped", "join",
               "output", "write", "return", "exit"}
  /\ pc \in [Worker -> {"pin", "count_down", "begin", "begun", "run", "running",
                        "end", "ended", "exit"}]
  /\ ready \subseteq Worker
  /\ arrived \subseteq Party
  /\ open \in BOOLEAN
  /\ kind \in {"STOP", "WARMUP", "MEASURED"}
  /\ stage \in 0 .. Stages
  /\ failed \subseteq Worker
  /\ tally \in [Worker -> 0 .. Stages]
  /\ merged \subseteq 1 .. Stages
  /\ verdict \in {"none", "reported", "failed"}
  /\ file \in {"old", "empty", "partial", "whole"}

\* A worker is about to read the phase, or still works from it.
ReadsPhase(t) ==
  \/ pc[t] = "begun" /\ Released(t)
  \/ pc[t] \in {"run", "running"}

\* The coordinator never writes a field of the Phase while a worker may read one.
PhaseRaceFree ==
  main = "stop" \/ (main = "next" /\ stage < Stages) =>
    \A t \in Worker : ~ReadsPhase(t)

\* check_workers reads worker_errors, merge_stats and the collection of samples
\* read the loops' tallies, only while no worker can write them.
ResultsRaceFree ==
  main \in {"check", "merge", "output"} =>
    \A t \in Worker : pc[t] \notin {"pin", "run", "running"} /\ ~ReadsPhase(t)

\* The comment at Phase::started: the phase is "set between barriers and
\* read-only to workers".  Neither it, nor the errors, nor the tallies are ever
\* the subject of a data race, whoever fails and whenever.
RaceFree == PhaseRaceFree /\ ResultsRaceFree

\* merge_stats adds up the tallies of the phase it was called for: every
\* worker took part in it, and none has gone on to the next.
MergesThisPhase ==
  main = "merge" => \A t \in Worker : tally[t] = stage

\* A run that reports merged every measured phase, no worker had failed in
\* any of them or before, and the output is not that of an earlier run.  (It may
\* still be cut short, or empty: what the stream's destructor fails to write,
\* nobody sees.)
ReportIsComplete ==
  verdict = "reported" =>
    /\ failed = {}
    /\ merged = {n \in 1 .. Stages : StageKind(n) = "MEASURED"}
    /\ file # "old"

\* Nobody waits forever: whatever fails, the main thread stops and joins every
\* worker and the program exits.
RunExits == <>(main = "exit" /\ \A t \in Worker : pc[t] = "exit")
=============================================================================
