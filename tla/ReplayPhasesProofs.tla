------------------------- MODULE ReplayPhasesProofs -------------------------
(***************************************************************************)
(* Proofs about ReplayPhases, for every number of threads and repetitions. *)
(* The invariant PInv says where the coordinator and each worker stand     *)
(* while the barrier has opened an even number of times (between phases)   *)
(* and an odd number of times (in a phase, or after the stop).  Freedom    *)
(* from data races, the bookkeeping of the repetitions and the refinement  *)
(* of LockStep follow from it.                                             *)
(***************************************************************************)
EXTENDS PhasesRefinement, TLAPS

\* The coordinator is not one of the workers.
LEMMA MainIsApart == Main \notin Worker /\ Main \in Party /\ Worker \subseteq Party
BY PhasesAssumption DEF Main, Worker, Party

\* Stages are counted from one.
LEMMA StagesType == Stages \in Nat \ {0}
BY PhasesAssumption DEF Stages

\* A stage is a warmup or measured.
LEMMA StageKindType == \A n : StageKind(n) \in {"WARMUP", "MEASURED"}
BY DEF StageKind

-----------------------------------------------------------------------------
(* The inductive invariant.                                                *)

\* The worker has started to count the current phase, if it is a measured one.
Past(t) == kind = "MEASURED" => tally[t] = stage

\* Where a worker stands between the phases ...
Outside(t) ==
  \/ pc[t] \in {"pin", "count_down", "begin", "ended"} /\ t \notin arrived
  \/ pc[t] = "begun" /\ t \in arrived

\* ... in a phase, and when the barrier opened to stop it.
Inside(t) ==
  \/ pc[t] \in {"begun", "run"} /\ t \notin arrived /\ t \notin failed
  \/ pc[t] = "running" /\ t \notin arrived /\ t \notin failed /\ Past(t)
  \/ pc[t] = "end" /\ t \notin arrived /\ Past(t)
  \/ pc[t] = "ended" /\ t \in arrived /\ Past(t)
Dismissed(t) == pc[t] \in {"begun", "exit"} /\ t \notin arrived

WorkerOK(t) ==
  /\ t \in ready <=> pc[t] \notin {"pin", "count_down"}
  /\ main # "ready" => t \in ready
  /\ IF ~open THEN Outside(t)
     ELSE IF kind = "STOP" THEN Dismissed(t) ELSE Inside(t)

\* Where the coordinator stands at the same times.
MainOK ==
  IF ~open
  THEN \/ main \in {"ready", "check", "next", "begin", "ended", "measured",
                    "merge", "stop", "stopping"} /\ Main \notin arrived
       \/ main \in {"begun", "stopped"} /\ Main \in arrived
  ELSE IF kind = "STOP"
       THEN main \in {"stopped", "join", "output", "write", "return", "exit"}
              /\ Main \notin arrived
       ELSE \/ main \in {"begun", "end"} /\ Main \notin arrived
            \/ main = "ended" /\ Main \in arrived

\* What the coordinator knows where it stands.
KindOK ==
  /\ main = "ready" => stage = 0
  /\ main \in {"begin", "begun", "end", "ended", "measured", "merge"} => stage > 0
  /\ main \in {"begin", "begun", "end", "ended", "measured", "merge", "check"} /\ stage > 0
       => kind = StageKind(stage)
  /\ main \in {"measured", "merge"} => kind = "MEASURED"
  /\ main \in {"stopping", "stopped", "join", "output", "write", "return", "exit"}
       => kind = "STOP"

\* The coordinator begins a phase, merges one, and ends well, only with no
\* worker failed.
FailedOK ==
  /\ main \in {"next", "begin", "merge"} \/ (main = "begun" /\ ~open) => failed = {}
  /\ Stopping /\ verdict # "failed" => failed = {} /\ stage = Stages
  /\ verdict = "reported" => main = "exit"
  /\ main \in {"output", "write", "return"} => verdict # "failed"

\* After a measured phase all tallies are of that phase.
TallyOK ==
  ~open /\ main \in {"ended", "measured", "check", "merge"} /\ stage > 0 /\ kind = "MEASURED"
    => \A t \in Worker : tally[t] = stage

\* The output is written when the workers have left.
Gone ==
  main \in {"output", "write", "return", "exit"} => \A t \in Worker : pc[t] = "exit"

\* The last stage whose tallies are merged, unless the coordinator gave up.
LastDone ==
  IF main \in {"begin", "begun", "end", "ended", "measured", "check", "merge"} /\ stage > 0
  THEN stage - 1 ELSE stage

\* Nothing is merged twice or left out.
BooksOK ==
  verdict # "failed" => merged = {n \in 1 .. LastDone : StageKind(n) = "MEASURED"}

\* All of it is needed: a race is excluded by where the barrier stands, and
\* where the barrier stands by who has arrived at it.
PInv ==
  /\ TypeOK /\ arrived # Party
  /\ \A t \in Worker : WorkerOK(t)
  /\ MainOK /\ KindOK /\ FailedOK /\ TallyOK /\ Gone /\ BooksOK

\* The invariant holds when run() has created its threads.
LEMMA InitPInv == Init => PInv
<1> SUFFICES ASSUME Init PROVE PInv
  OBVIOUS
<1>1. Stages \in Nat /\ Worker \subseteq Party /\ Main \in Party /\ Main \notin Worker
  BY StagesType, MainIsApart
<1>2. TypeOK
  <2>1. 0 \in 0 .. Stages
    BY <1>1
  <2> QED BY <2>1 DEF Init, TypeOK
<1>6. arrived # Party
  BY <1>1 DEF Init
<1>3. \A t \in Worker : WorkerOK(t)
  BY DEF Init, WorkerOK, Outside
<1>4. MainOK /\ KindOK /\ FailedOK /\ TallyOK /\ Gone
  BY DEF Init, MainOK, KindOK, FailedOK, TallyOK, Gone, Stopping
<1>5. BooksOK
  BY DEF Init, BooksOK, LastDone
<1> QED BY <1>2, <1>3, <1>4, <1>5, <1>6 DEF PInv

-----------------------------------------------------------------------------

\* Pin keeps the invariant.
LEMMA PinPInv ==
  ASSUME PInv, NEW t \in Worker, Pin(t)
  PROVE  PInv'
<1>1. TypeOK /\ Stages \in Nat \ {0}
  BY StagesType DEF PInv
<1>2. TypeOK' /\ arrived' # Party
  BY <1>1 DEF PInv, TypeOK, Pin, GoTo, barrierVars, phaseVars, outVars
<1>3. ASSUME NEW u \in Worker PROVE WorkerOK(u)'
  BY <1>1 DEF PInv, TypeOK, Pin, GoTo, barrierVars, phaseVars, outVars, WorkerOK, Inside, Outside, Dismissed, Past, MainOK, KindOK, FailedOK, Released, Stopping
<1>4. MainOK' /\ KindOK' /\ FailedOK' /\ TallyOK' /\ Gone'
  BY <1>1 DEF PInv, TypeOK, Pin, GoTo, barrierVars, phaseVars, outVars, WorkerOK, Inside, Outside, Dismissed, Past, MainOK, KindOK, FailedOK, TallyOK, Gone, Released, Stopping
<1>5. BooksOK'
  BY <1>1 DEF PInv, Pin, phaseVars, outVars, BooksOK, LastDone
<1> QED BY <1>2, <1>3, <1>4, <1>5 DEF PInv

\* CountDown keeps the invariant.
LEMMA CountDownPInv ==
  ASSUME PInv, NEW t \in Worker, CountDown(t)
  PROVE  PInv'
<1>1. TypeOK /\ Stages \in Nat \ {0}
  BY StagesType DEF PInv
<1>2. TypeOK' /\ arrived' # Party
  BY <1>1 DEF PInv, TypeOK, CountDown, GoTo, barrierVars, phaseVars, outVars
<1>3. ASSUME NEW u \in Worker PROVE WorkerOK(u)'
  BY <1>1 DEF PInv, TypeOK, CountDown, GoTo, barrierVars, phaseVars, outVars, WorkerOK, Inside, Outside, Dismissed, Past, MainOK, KindOK, FailedOK, Released, Stopping
<1>4. MainOK' /\ KindOK' /\ FailedOK' /\ TallyOK' /\ Gone'
  BY <1>1 DEF PInv, TypeOK, CountDown, GoTo, barrierVars, phaseVars, outVars, WorkerOK, Inside, Outside, Dismissed, Past, MainOK, KindOK, FailedOK, TallyOK, Gone, Released, Stopping
<1>5. BooksOK'
  BY <1>1 DEF PInv, CountDown, phaseVars, outVars, BooksOK, LastDone
<1> QED BY <1>2, <1>3, <1>4, <1>5 DEF PInv

\* Look keeps the invariant.
LEMMA LookPInv ==
  ASSUME PInv, NEW t \in Worker, Look(t)
  PROVE  PInv'
<1>1. TypeOK /\ Stages \in Nat \ {0}
  BY StagesType DEF PInv
<1>2. TypeOK' /\ arrived' # Party
  BY <1>1 DEF PInv, TypeOK, Look, GoTo, barrierVars, phaseVars, outVars
<1>3. ASSUME NEW u \in Worker PROVE WorkerOK(u)'
  BY <1>1 DEF PInv, TypeOK, Look, GoTo, barrierVars, phaseVars, outVars, WorkerOK, Inside, Outside, Dismissed, Past, MainOK, KindOK, FailedOK, Released, Stopping
<1>4. MainOK' /\ KindOK' /\ FailedOK' /\ TallyOK' /\ Gone'
  BY <1>1 DEF PInv, TypeOK, Look, GoTo, barrierVars, phaseVars, outVars, WorkerOK, Inside, Outside, Dismissed, Past, MainOK, KindOK, FailedOK, TallyOK, Gone, Released, Stopping
<1>5. BooksOK'
  BY <1>1 DEF PInv, Look, phaseVars, outVars, BooksOK, LastDone
<1> QED BY <1>2, <1>3, <1>4, <1>5 DEF PInv

\* RunPhase keeps the invariant.
LEMMA RunPhasePInv ==
  ASSUME PInv, NEW t \in Worker, RunPhase(t)
  PROVE  PInv'
<1>1. TypeOK /\ Stages \in Nat \ {0}
  BY StagesType DEF PInv
<1>2. TypeOK' /\ arrived' # Party
  BY <1>1 DEF PInv, TypeOK, RunPhase, GoTo, barrierVars, phaseVars, outVars
<1>3. ASSUME NEW u \in Worker PROVE WorkerOK(u)'
  BY <1>1 DEF PInv, TypeOK, RunPhase, GoTo, barrierVars, phaseVars, outVars, WorkerOK, Inside, Outside, Dismissed, Past, MainOK, KindOK, FailedOK, Released, Stopping
<1>4. MainOK' /\ KindOK' /\ FailedOK' /\ TallyOK' /\ Gone'
  BY <1>1 DEF PInv, TypeOK, RunPhase, GoTo, barrierVars, phaseVars, outVars, WorkerOK, Inside, Outside, Dismissed, Past, MainOK, KindOK, FailedOK, TallyOK, Gone, Released, Stopping
<1>5. BooksOK'
  BY <1>1 DEF PInv, RunPhase, phaseVars, outVars, BooksOK, LastDone
<1> QED BY <1>2, <1>3, <1>4, <1>5 DEF PInv

\* RunEnds keeps the invariant.
LEMMA RunEndsPInv ==
  ASSUME PInv, NEW t \in Worker, RunEnds(t)
  PROVE  PInv'
<1>1. TypeOK /\ Stages \in Nat \ {0}
  BY StagesType DEF PInv
<1>2. TypeOK' /\ arrived' # Party
  BY <1>1 DEF PInv, TypeOK, RunEnds, GoTo, barrierVars, phaseVars, outVars
<1>3. ASSUME NEW u \in Worker PROVE WorkerOK(u)'
  BY <1>1 DEF PInv, TypeOK, RunEnds, GoTo, barrierVars, phaseVars, outVars, WorkerOK, Inside, Outside, Dismissed, Past, MainOK, KindOK, FailedOK, Released, Stopping
<1>4. MainOK' /\ KindOK' /\ FailedOK' /\ TallyOK' /\ Gone'
  BY <1>1 DEF PInv, TypeOK, RunEnds, GoTo, barrierVars, phaseVars, outVars, WorkerOK, Inside, Outside, Dismissed, Past, MainOK, KindOK, FailedOK, TallyOK, Gone, Released, Stopping
<1>5. BooksOK'
  BY <1>1 DEF PInv, RunEnds, phaseVars, outVars, BooksOK, LastDone
<1> QED BY <1>2, <1>3, <1>4, <1>5 DEF PInv

\* LoopAround keeps the invariant.
LEMMA LoopAroundPInv ==
  ASSUME PInv, NEW t \in Worker, LoopAround(t)
  PROVE  PInv'
<1>1. TypeOK /\ Stages \in Nat \ {0}
  BY StagesType DEF PInv
<1>2. TypeOK' /\ arrived' # Party
  BY <1>1 DEF PInv, TypeOK, LoopAround, GoTo, barrierVars, phaseVars, outVars
<1>3. ASSUME NEW u \in Worker PROVE WorkerOK(u)'
  BY <1>1 DEF PInv, TypeOK, LoopAround, GoTo, barrierVars, phaseVars, outVars, WorkerOK, Inside, Outside, Dismissed, Past, MainOK, KindOK, FailedOK, Released, Stopping
<1>4. MainOK' /\ KindOK' /\ FailedOK' /\ TallyOK' /\ Gone'
  BY <1>1 DEF PInv, TypeOK, LoopAround, GoTo, barrierVars, phaseVars, outVars, WorkerOK, Inside, Outside, Dismissed, Past, MainOK, KindOK, FailedOK, TallyOK, Gone, Released, Stopping
<1>5. BooksOK'
  BY <1>1 DEF PInv, LoopAround, phaseVars, outVars, BooksOK, LastDone
<1> QED BY <1>2, <1>3, <1>4, <1>5 DEF PInv

\* Ready keeps the invariant.
LEMMA ReadyPInv ==
  ASSUME PInv, Ready
  PROVE  PInv'
<1>1. TypeOK /\ Stages \in Nat \ {0}
  BY StagesType DEF PInv
<1>2. TypeOK' /\ arrived' # Party
  BY <1>1, StageKindType DEF PInv, TypeOK, Ready, barrierVars, phaseVars, outVars, KindOK
<1>3. ASSUME NEW u \in Worker PROVE WorkerOK(u)'
  BY <1>1, StageKindType DEF PInv, TypeOK, Ready, barrierVars, phaseVars, outVars, WorkerOK, Inside, Outside, Dismissed, Past, MainOK, KindOK, FailedOK, Released, Stopping
<1>4. MainOK' /\ KindOK' /\ FailedOK' /\ TallyOK' /\ Gone'
  BY <1>1, StageKindType DEF PInv, TypeOK, Ready, barrierVars, phaseVars, outVars, WorkerOK, Inside, Outside, Dismissed, Past, MainOK, KindOK, FailedOK, TallyOK, Gone, Released, Stopping
<1>5. BooksOK'
  BY <1>1, StageKindType DEF PInv, TypeOK, Ready, phaseVars, outVars, BooksOK, LastDone, KindOK, FailedOK, MainOK
<1> QED BY <1>2, <1>3, <1>4, <1>5 DEF PInv

\* CheckWorkers keeps the invariant.
LEMMA CheckWorkersPInv ==
  ASSUME PInv, CheckWorkers
  PROVE  PInv'
<1>1. TypeOK /\ Stages \in Nat \ {0}
  BY StagesType DEF PInv
<1>2. TypeOK' /\ arrived' # Party
  BY <1>1, StageKindType DEF PInv, TypeOK, CheckWorkers, barrierVars, phaseVars, outVars, KindOK
<1>3. ASSUME NEW u \in Worker PROVE WorkerOK(u)'
  BY <1>1, StageKindType DEF PInv, TypeOK, CheckWorkers, barrierVars, phaseVars, outVars, WorkerOK, Inside, Outside, Dismissed, Past, MainOK, KindOK, FailedOK, Released, Stopping
<1>4. MainOK' /\ KindOK' /\ FailedOK' /\ TallyOK' /\ Gone'
  BY <1>1, StageKindType DEF PInv, TypeOK, CheckWorkers, barrierVars, phaseVars, outVars, WorkerOK, Inside, Outside, Dismissed, Past, MainOK, KindOK, FailedOK, TallyOK, Gone, Released, Stopping
<1>5. BooksOK'
  BY <1>1, StageKindType DEF PInv, TypeOK, CheckWorkers, phaseVars, outVars, BooksOK, LastDone, KindOK, FailedOK, MainOK
<1> QED BY <1>2, <1>3, <1>4, <1>5 DEF PInv

\* ServerGone keeps the invariant.
LEMMA ServerGonePInv ==
  ASSUME PInv, ServerGone
  PROVE  PInv'
<1>1. TypeOK /\ Stages \in Nat \ {0}
  BY StagesType DEF PInv
<1>2. TypeOK' /\ arrived' # Party
  BY <1>1, StageKindType DEF PInv, TypeOK, ServerGone, barrierVars, phaseVars, outVars, KindOK
<1>3. ASSUME NEW u \in Worker PROVE WorkerOK(u)'
  BY <1>1, StageKindType DEF PInv, TypeOK, ServerGone, barrierVars, phaseVars, outVars, WorkerOK, Inside, Outside, Dismissed, Past, MainOK, KindOK, FailedOK, Released, Stopping
<1>4. MainOK' /\ KindOK' /\ FailedOK' /\ TallyOK' /\ Gone'
  BY <1>1, StageKindType DEF PInv, TypeOK, ServerGone, barrierVars, phaseVars, outVars, WorkerOK, Inside, Outside, Dismissed, Past, MainOK, KindOK, FailedOK, TallyOK, Gone, Released, Stopping
<1>5. BooksOK'
  BY <1>1, StageKindType DEF PInv, TypeOK, ServerGone, phaseVars, outVars, BooksOK, LastDone, KindOK, FailedOK, MainOK
<1> QED BY <1>2, <1>3, <1>4, <1>5 DEF PInv

\* ServerAlive keeps the invariant.
LEMMA ServerAlivePInv ==
  ASSUME PInv, ServerAlive
  PROVE  PInv'
<1>1. TypeOK /\ Stages \in Nat \ {0}
  BY StagesType DEF PInv
<1>2. TypeOK' /\ arrived' # Party
  BY <1>1, StageKindType DEF PInv, TypeOK, ServerAlive, barrierVars, phaseVars, outVars, KindOK
<1>3. ASSUME NEW u \in Worker PROVE WorkerOK(u)'
  BY <1>1, StageKindType DEF PInv, TypeOK, ServerAlive, barrierVars, phaseVars, outVars, WorkerOK, Inside, Outside, Dismissed, Past, MainOK, KindOK, FailedOK, Released, Stopping
<1>4. MainOK' /\ KindOK' /\ FailedOK' /\ TallyOK' /\ Gone'
  BY <1>1, StageKindType DEF PInv, TypeOK, ServerAlive, barrierVars, phaseVars, outVars, WorkerOK, Inside, Outside, Dismissed, Past, MainOK, KindOK, FailedOK, TallyOK, Gone, Released, Stopping
<1>5. BooksOK'
  BY <1>1, StageKindType DEF PInv, TypeOK, ServerAlive, phaseVars, outVars, BooksOK, LastDone, KindOK, FailedOK, MainOK
<1> QED BY <1>2, <1>3, <1>4, <1>5 DEF PInv

\* SetPhase keeps the invariant.
LEMMA SetPhasePInv ==
  ASSUME PInv, SetPhase
  PROVE  PInv'
<1>1. TypeOK /\ Stages \in Nat \ {0}
  BY StagesType DEF PInv
<1>2. TypeOK' /\ arrived' # Party
  BY <1>1, StageKindType DEF PInv, TypeOK, SetPhase, barrierVars, phaseVars, outVars, KindOK
<1>3. ASSUME NEW u \in Worker PROVE WorkerOK(u)'
  BY <1>1, StageKindType DEF PInv, TypeOK, SetPhase, barrierVars, phaseVars, outVars, WorkerOK, Inside, Outside, Dismissed, Past, MainOK, KindOK, FailedOK, Released, Stopping
<1>4. MainOK' /\ KindOK' /\ FailedOK' /\ TallyOK' /\ Gone'
  BY <1>1, StageKindType DEF PInv, TypeOK, SetPhase, barrierVars, phaseVars, outVars, WorkerOK, Inside, Outside, Dismissed, Past, MainOK, KindOK, FailedOK, TallyOK, Gone, Released, Stopping
<1>5. BooksOK'
  BY <1>1, StageKindType DEF PInv, TypeOK, SetPhase, phaseVars, outVars, BooksOK, LastDone, KindOK, FailedOK, MainOK
<1> QED BY <1>2, <1>3, <1>4, <1>5 DEF PInv

\* LastPhaseDone keeps the invariant.
LEMMA LastPhaseDonePInv ==
  ASSUME PInv, LastPhaseDone
  PROVE  PInv'
<1>1. TypeOK /\ Stages \in Nat \ {0}
  BY StagesType DEF PInv
<1>2. TypeOK' /\ arrived' # Party
  BY <1>1, StageKindType DEF PInv, TypeOK, LastPhaseDone, barrierVars, phaseVars, outVars, KindOK
<1>3. ASSUME NEW u \in Worker PROVE WorkerOK(u)'
  BY <1>1, StageKindType DEF PInv, TypeOK, LastPhaseDone, barrierVars, phaseVars, outVars, WorkerOK, Inside, Outside, Dismissed, Past, MainOK, KindOK, FailedOK, Released, Stopping
<1>4. MainOK' /\ KindOK' /\ FailedOK' /\ TallyOK' /\ Gone'
  BY <1>1, StageKindType DEF PInv, TypeOK, LastPhaseDone, barrierVars, phaseVars, outVars, WorkerOK, Inside, Outside, Dismissed, Past, MainOK, KindOK, FailedOK, TallyOK, Gone, Released, Stopping
<1>5. BooksOK'
  BY <1>1, StageKindType DEF PInv, TypeOK, LastPhaseDone, phaseVars, outVars, BooksOK, LastDone, KindOK, FailedOK, MainOK
<1> QED BY <1>2, <1>3, <1>4, <1>5 DEF PInv

\* MainReleased keeps the invariant.
LEMMA MainReleasedPInv ==
  ASSUME PInv, MainReleased
  PROVE  PInv'
<1>1. TypeOK /\ Stages \in Nat \ {0}
  BY StagesType DEF PInv
<1>2. TypeOK' /\ arrived' # Party
  BY <1>1, StageKindType DEF PInv, TypeOK, MainReleased, barrierVars, phaseVars, outVars, KindOK
<1>3. ASSUME NEW u \in Worker PROVE WorkerOK(u)'
  BY <1>1, StageKindType DEF PInv, TypeOK, MainReleased, barrierVars, phaseVars, outVars, WorkerOK, Inside, Outside, Dismissed, Past, MainOK, KindOK, FailedOK, Released, Stopping
<1>4. MainOK' /\ KindOK' /\ FailedOK' /\ TallyOK' /\ Gone'
  BY <1>1, StageKindType DEF PInv, TypeOK, MainReleased, barrierVars, phaseVars, outVars, WorkerOK, Inside, Outside, Dismissed, Past, MainOK, KindOK, FailedOK, TallyOK, Gone, Released, Stopping
<1>5. BooksOK'
  BY <1>1, StageKindType DEF PInv, TypeOK, MainReleased, phaseVars, outVars, BooksOK, LastDone, KindOK, FailedOK, MainOK
<1> QED BY <1>2, <1>3, <1>4, <1>5 DEF PInv

\* Merge keeps the invariant.
LEMMA MergePInv ==
  ASSUME PInv, Merge
  PROVE  PInv'
<1>1. TypeOK /\ Stages \in Nat \ {0}
  BY StagesType DEF PInv
<1>2. TypeOK' /\ arrived' # Party
  BY <1>1, StageKindType DEF PInv, TypeOK, Merge, barrierVars, phaseVars, outVars, KindOK
<1>3. ASSUME NEW u \in Worker PROVE WorkerOK(u)'
  BY <1>1, StageKindType DEF PInv, TypeOK, Merge, barrierVars, phaseVars, outVars, WorkerOK, Inside, Outside, Dismissed, Past, MainOK, KindOK, FailedOK, Released, Stopping
<1>4. MainOK' /\ KindOK' /\ FailedOK' /\ TallyOK' /\ Gone'
  BY <1>1, StageKindType DEF PInv, TypeOK, Merge, barrierVars, phaseVars, outVars, WorkerOK, Inside, Outside, Dismissed, Past, MainOK, KindOK, FailedOK, TallyOK, Gone, Released, Stopping
<1>5. BooksOK'
  <2>1. /\ main = "merge" /\ main' = "next" /\ stage \in Nat /\ stage > 0
        /\ UNCHANGED <<stage, verdict>> /\ merged' = merged \union {stage}
        /\ StageKind(stage) = "MEASURED"
    BY <1>1 DEF PInv, TypeOK, KindOK, Merge, phaseVars
  <2>2. LastDone = stage - 1 /\ LastDone' = stage
    BY <2>1 DEF LastDone
  <2>3. 1 .. stage = (1 .. (stage - 1)) \union {stage}
    BY <2>1
  <2> QED BY <2>1, <2>2, <2>3 DEF PInv, BooksOK
<1> QED BY <1>2, <1>3, <1>4, <1>5 DEF PInv

\* SetStop keeps the invariant.
LEMMA SetStopPInv ==
  ASSUME PInv, SetStop
  PROVE  PInv'
<1>1. TypeOK /\ Stages \in Nat \ {0}
  BY StagesType DEF PInv
<1>2. TypeOK' /\ arrived' # Party
  BY <1>1, StageKindType DEF PInv, TypeOK, SetStop, barrierVars, phaseVars, outVars, KindOK
<1>3. ASSUME NEW u \in Worker PROVE WorkerOK(u)'
  BY <1>1, StageKindType DEF PInv, TypeOK, SetStop, barrierVars, phaseVars, outVars, WorkerOK, Inside, Outside, Dismissed, Past, MainOK, KindOK, FailedOK, Released, Stopping
<1>4. MainOK' /\ KindOK' /\ FailedOK' /\ TallyOK' /\ Gone'
  BY <1>1, StageKindType DEF PInv, TypeOK, SetStop, barrierVars, phaseVars, outVars, WorkerOK, Inside, Outside, Dismissed, Past, MainOK, KindOK, FailedOK, TallyOK, Gone, Released, Stopping
<1>5. BooksOK'
  BY <1>1, StageKindType DEF PInv, TypeOK, SetStop, phaseVars, outVars, BooksOK, LastDone, KindOK, FailedOK, MainOK
<1> QED BY <1>2, <1>3, <1>4, <1>5 DEF PInv

\* Join keeps the invariant.
LEMMA JoinPInv ==
  ASSUME PInv, Join
  PROVE  PInv'
<1>1. TypeOK /\ Stages \in Nat \ {0}
  BY StagesType DEF PInv
<1>2. TypeOK' /\ arrived' # Party
  BY <1>1, StageKindType DEF PInv, TypeOK, Join, barrierVars, phaseVars, outVars, KindOK
<1>3. ASSUME NEW u \in Worker PROVE WorkerOK(u)'
  BY <1>1, StageKindType DEF PInv, TypeOK, Join, barrierVars, phaseVars, outVars, WorkerOK, Inside, Outside, Dismissed, Past, MainOK, KindOK, FailedOK, Released, Stopping
<1>4. MainOK' /\ KindOK' /\ FailedOK' /\ TallyOK' /\ Gone'
  BY <1>1, StageKindType DEF PInv, TypeOK, Join, barrierVars, phaseVars, outVars, WorkerOK, Inside, Outside, Dismissed, Past, MainOK, KindOK, FailedOK, TallyOK, Gone, Released, Stopping
<1>5. BooksOK'
  BY <1>1, StageKindType DEF PInv, TypeOK, Join, phaseVars, outVars, BooksOK, LastDone, KindOK, FailedOK, MainOK
<1> QED BY <1>2, <1>3, <1>4, <1>5 DEF PInv

\* OpenOutput keeps the invariant.
LEMMA OpenOutputPInv ==
  ASSUME PInv, OpenOutput
  PROVE  PInv'
<1>1. TypeOK /\ Stages \in Nat \ {0}
  BY StagesType DEF PInv
<1>2. TypeOK' /\ arrived' # Party
  BY <1>1, StageKindType DEF PInv, TypeOK, OpenOutput, barrierVars, phaseVars, outVars, KindOK
<1>3. ASSUME NEW u \in Worker PROVE WorkerOK(u)'
  BY <1>1, StageKindType DEF PInv, TypeOK, OpenOutput, barrierVars, phaseVars, outVars, WorkerOK, Inside, Outside, Dismissed, Past, MainOK, KindOK, FailedOK, Released, Stopping
<1>4. MainOK' /\ KindOK' /\ FailedOK' /\ TallyOK' /\ Gone'
  BY <1>1, StageKindType DEF PInv, TypeOK, OpenOutput, barrierVars, phaseVars, outVars, WorkerOK, Inside, Outside, Dismissed, Past, MainOK, KindOK, FailedOK, TallyOK, Gone, Released, Stopping
<1>5. BooksOK'
  BY <1>1, StageKindType DEF PInv, TypeOK, OpenOutput, phaseVars, outVars, BooksOK, LastDone, KindOK, FailedOK, MainOK
<1> QED BY <1>2, <1>3, <1>4, <1>5 DEF PInv

\* WriteOutput keeps the invariant.
LEMMA WriteOutputPInv ==
  ASSUME PInv, WriteOutput
  PROVE  PInv'
<1>1. TypeOK /\ Stages \in Nat \ {0}
  BY StagesType DEF PInv
<1>2. TypeOK' /\ arrived' # Party
  BY <1>1, StageKindType DEF PInv, TypeOK, WriteOutput, barrierVars, phaseVars, outVars, KindOK
<1>3. ASSUME NEW u \in Worker PROVE WorkerOK(u)'
  BY <1>1, StageKindType DEF PInv, TypeOK, WriteOutput, barrierVars, phaseVars, outVars, WorkerOK, Inside, Outside, Dismissed, Past, MainOK, KindOK, FailedOK, Released, Stopping
<1>4. MainOK' /\ KindOK' /\ FailedOK' /\ TallyOK' /\ Gone'
  BY <1>1, StageKindType DEF PInv, TypeOK, WriteOutput, barrierVars, phaseVars, outVars, WorkerOK, Inside, Outside, Dismissed, Past, MainOK, KindOK, FailedOK, TallyOK, Gone, Released, Stopping
<1>5. BooksOK'
  BY <1>1, StageKindType DEF PInv, TypeOK, WriteOutput, phaseVars, outVars, BooksOK, LastDone, KindOK, FailedOK, MainOK
<1> QED BY <1>2, <1>3, <1>4, <1>5 DEF PInv

\* Return keeps the invariant.
LEMMA ReturnPInv ==
  ASSUME PInv, Return
  PROVE  PInv'
<1>1. TypeOK /\ Stages \in Nat \ {0}
  BY StagesType DEF PInv
<1>2. TypeOK' /\ arrived' # Party
  BY <1>1, StageKindType DEF PInv, TypeOK, Return, barrierVars, phaseVars, outVars, KindOK
<1>3. ASSUME NEW u \in Worker PROVE WorkerOK(u)'
  BY <1>1, StageKindType DEF PInv, TypeOK, Return, barrierVars, phaseVars, outVars, WorkerOK, Inside, Outside, Dismissed, Past, MainOK, KindOK, FailedOK, Released, Stopping
<1>4. MainOK' /\ KindOK' /\ FailedOK' /\ TallyOK' /\ Gone'
  BY <1>1, StageKindType DEF PInv, TypeOK, Return, barrierVars, phaseVars, outVars, WorkerOK, Inside, Outside, Dismissed, Past, MainOK, KindOK, FailedOK, TallyOK, Gone, Released, Stopping
<1>5. BooksOK'
  BY <1>1, StageKindType DEF PInv, TypeOK, Return, phaseVars, outVars, BooksOK, LastDone, KindOK, FailedOK, MainOK
<1> QED BY <1>2, <1>3, <1>4, <1>5 DEF PInv

\* A party that is not the last waits.
LEMMA WorkerWaitsPInv ==
  ASSUME PInv, NEW t \in Worker, WorkerArrives(t), arrived \union {t} # Party
  PROVE  PInv'
<1>1. TypeOK /\ Stages \in Nat \ {0} /\ Main \notin Worker /\ Worker \subseteq Party
  BY StagesType, MainIsApart DEF PInv
<1>2. /\ arrived' = arrived \union {t} /\ open' = open
      /\ UNCHANGED <<main, ready, kind, stage, failed, tally, merged, verdict, file>>
      /\ pc[t] \in {"begin", "end"}
      /\ pc' = [pc EXCEPT ![t] = IF pc[t] = "begin" THEN "begun" ELSE "ended"]
  BY DEF WorkerArrives, Arrive, GoTo, phaseVars, outVars
<1>3. TypeOK' /\ arrived' # Party
  BY <1>1, <1>2 DEF TypeOK
<1>4. ASSUME NEW u \in Worker PROVE WorkerOK(u)'
  BY <1>1, <1>2 DEF PInv, TypeOK, WorkerOK, Inside, Outside, Dismissed, Past
<1>5. MainOK' /\ KindOK' /\ FailedOK' /\ TallyOK' /\ Gone'
  BY <1>1, <1>2 DEF PInv, TypeOK, MainOK, KindOK, FailedOK, TallyOK, Gone, Stopping
<1>6. BooksOK'
  BY <1>2 DEF PInv, BooksOK, LastDone
<1> QED BY <1>3, <1>4, <1>5, <1>6 DEF PInv

\* A worker that arrives last opens the barrier.
LEMMA WorkerOpensPInv ==
  ASSUME PInv, NEW t \in Worker, WorkerArrives(t), arrived \union {t} = Party
  PROVE  PInv'
<1>1. TypeOK /\ Stages \in Nat \ {0} /\ Main \notin Worker /\ Main \in Party /\ Worker \subseteq Party
  BY StagesType, MainIsApart DEF PInv
<1>2. /\ arrived' = {} /\ open' = ~open /\ open' \in BOOLEAN
      /\ UNCHANGED <<main, ready, kind, stage, failed, tally, merged, verdict, file>>
      /\ pc[t] \in {"begin", "end"}
      /\ pc' = [pc EXCEPT ![t] = IF pc[t] = "begin" THEN "begun" ELSE "ended"]
  BY <1>1 DEF WorkerArrives, Arrive, GoTo, phaseVars, outVars, TypeOK
<1>3. Main \in arrived /\ \A u \in Worker \ {t} : u \in arrived
  BY <1>1
<1>4. TypeOK' /\ arrived' # Party
  BY <1>1, <1>2 DEF TypeOK
<1>5. CASE ~open
  <2>1. /\ pc[t] = "begin" /\ \A u \in Worker : pc'[u] = "begun"
        /\ main \in {"begun", "stopped"}
        /\ kind # "STOP" => main = "begun" /\ failed = {}
    BY <1>1, <1>2, <1>3, <1>5 DEF PInv, TypeOK, WorkerOK, Outside, MainOK, KindOK, FailedOK
  <2>2. ASSUME NEW u \in Worker PROVE WorkerOK(u)'
    BY <1>1, <1>2, <1>5, <2>1 DEF PInv, WorkerOK, Outside, Inside, Dismissed
  <2>3. MainOK' /\ KindOK' /\ FailedOK' /\ TallyOK' /\ Gone'
    BY <1>1, <1>2, <1>5, <2>1, StageKindType
    DEF PInv, TypeOK, MainOK, KindOK, FailedOK, TallyOK, Gone, Stopping
  <2>4. BooksOK'
    BY <1>2 DEF PInv, BooksOK, LastDone
  <2> QED BY <1>4, <2>2, <2>3, <2>4 DEF PInv
<1>6. CASE open
  <2>1. kind # "STOP" /\ main = "ended"
    BY <1>3, <1>6 DEF PInv, MainOK
  <2>2. \A u \in Worker : pc'[u] = "ended" /\ Past(u)
    BY <1>1, <1>2, <1>3, <1>6, <2>1 DEF PInv, TypeOK, WorkerOK, Inside
  <2>3. ASSUME NEW u \in Worker PROVE WorkerOK(u)'
    BY <1>1, <1>2, <1>6, <2>1, <2>2 DEF PInv, WorkerOK, Outside, Inside
  <2>4. MainOK' /\ KindOK' /\ FailedOK' /\ TallyOK' /\ Gone'
    BY <1>1, <1>2, <1>6, <2>1, <2>2
    DEF PInv, TypeOK, MainOK, KindOK, FailedOK, TallyOK, Gone, Stopping, Past
  <2>5. BooksOK'
    BY <1>2 DEF PInv, BooksOK, LastDone
  <2> QED BY <1>4, <2>3, <2>4, <2>5 DEF PInv
<1> QED BY <1>5, <1>6

\* The coordinator waits ...
LEMMA MainWaitsPInv ==
  ASSUME PInv, MainArrives, arrived \union {Main} # Party
  PROVE  PInv'
<1>1. TypeOK /\ Stages \in Nat \ {0} /\ Main \notin Worker /\ Main \in Party
  BY StagesType, MainIsApart DEF PInv
<1>2. /\ arrived' = arrived \union {Main} /\ open' = open
      /\ UNCHANGED <<pc, ready, kind, stage, failed, tally, merged, verdict, file>>
  BY DEF MainArrives, Arrive, phaseVars, outVars
<1>3. TypeOK' /\ arrived' # Party
  BY <1>1, <1>2 DEF TypeOK, MainArrives
<1>4. ASSUME NEW u \in Worker PROVE WorkerOK(u)'
  BY <1>1, <1>2 DEF PInv, TypeOK, WorkerOK, Inside, Outside, Dismissed, Past, MainArrives
<1>5. MainOK' /\ KindOK' /\ FailedOK' /\ TallyOK' /\ Gone'
  BY <1>1, <1>2, StageKindType
  DEF PInv, TypeOK, MainArrives, MainOK, KindOK, FailedOK, TallyOK, Gone, Stopping
<1>6. BooksOK'
  BY <1>2 DEF PInv, BooksOK, LastDone, MainArrives
<1> QED BY <1>3, <1>4, <1>5, <1>6 DEF PInv

\* ... or opens the barrier itself.
LEMMA MainOpensPInv ==
  ASSUME PInv, MainArrives, arrived \union {Main} = Party
  PROVE  PInv'
<1>1. TypeOK /\ Stages \in Nat \ {0} /\ Main \notin Worker /\ Main \in Party /\ Worker \subseteq Party
  BY StagesType, MainIsApart DEF PInv
<1>2. /\ arrived' = {} /\ open' = ~open /\ open' \in BOOLEAN
      /\ UNCHANGED <<pc, ready, kind, stage, failed, tally, merged, verdict, file>>
  BY <1>1 DEF MainArrives, Arrive, phaseVars, outVars, TypeOK
<1>3. \A u \in Worker : u \in arrived
  BY <1>1
<1>4. TypeOK' /\ arrived' # Party
  BY <1>1, <1>2 DEF TypeOK, MainArrives
<1>5. BooksOK'
  BY <1>2 DEF PInv, BooksOK, LastDone, MainArrives
<1>6. CASE ~open
  <2>1. \/ main = "begin" /\ main' = "begun" /\ kind # "STOP" /\ failed = {}
        \/ main = "stopping" /\ main' = "stopped" /\ kind = "STOP"
    BY <1>1, <1>6, StageKindType DEF PInv, TypeOK, MainArrives, MainOK, KindOK, FailedOK
  <2>2. \A u \in Worker : pc[u] = "begun"
    BY <1>3, <1>6 DEF PInv, WorkerOK, Outside
  <2>3. ASSUME NEW u \in Worker PROVE WorkerOK(u)'
    BY <1>1, <1>2, <1>6, <2>1, <2>2 DEF PInv, WorkerOK, Inside, Outside, Dismissed
  <2>4. MainOK' /\ KindOK' /\ FailedOK' /\ TallyOK' /\ Gone'
    BY <1>1, <1>2, <1>6, <2>1
    DEF PInv, TypeOK, MainOK, KindOK, FailedOK, TallyOK, Gone, Stopping
  <2> QED BY <1>4, <1>5, <2>3, <2>4 DEF PInv
<1>7. CASE open
  <2>1. main = "end" /\ main' = "ended" /\ kind # "STOP"
    BY <1>7 DEF PInv, MainArrives, MainOK
  <2>2. \A u \in Worker : pc[u] = "ended" /\ Past(u)
    BY <1>3, <1>7, <2>1 DEF PInv, WorkerOK, Inside
  <2>3. ASSUME NEW u \in Worker PROVE WorkerOK(u)'
    BY <1>1, <1>2, <1>7, <2>1, <2>2 DEF PInv, WorkerOK, Outside
  <2>4. MainOK' /\ KindOK' /\ FailedOK' /\ TallyOK' /\ Gone'
    BY <1>1, <1>2, <1>7, <2>1, <2>2
    DEF PInv, TypeOK, MainOK, KindOK, FailedOK, TallyOK, Gone, Stopping, Past
  <2> QED BY <1>4, <1>5, <2>3, <2>4 DEF PInv
<1> QED BY <1>1, <1>6, <1>7 DEF TypeOK

\* Every step keeps the invariant.
LEMMA NextPInv == PInv /\ [Next]_vars => PInv'
<1> SUFFICES ASSUME PInv, [Next]_vars PROVE PInv'
  OBVIOUS
<1>1. ASSUME NEW t \in Worker, WorkerStep(t) PROVE PInv'
  BY <1>1, PinPInv, CountDownPInv, WorkerWaitsPInv, WorkerOpensPInv, LookPInv, RunPhasePInv,
     RunEndsPInv, LoopAroundPInv DEF WorkerStep
<1>2. CASE MainStep
  BY <1>2, ReadyPInv, CheckWorkersPInv, ServerGonePInv, ServerAlivePInv, SetPhasePInv,
     LastPhaseDonePInv, MainWaitsPInv, MainOpensPInv, MainReleasedPInv, MergePInv,
     SetStopPInv, JoinPInv, OpenOutputPInv, WriteOutputPInv, ReturnPInv DEF MainStep
<1>3. CASE UNCHANGED vars
  BY <1>3 DEF vars, PInv, TypeOK, WorkerOK, Inside, Outside, Dismissed, Past, MainOK, KindOK,
     FailedOK, TallyOK, Gone, BooksOK, LastDone, Stopping
<1> QED BY <1>1, <1>2, <1>3 DEF Next, Exited

-----------------------------------------------------------------------------
(* The theorems.                                                           *)

\* Every state run() reaches satisfies the inductive invariant.
THEOREM Invariance == Spec => []PInv
<1> QED BY InitPInv, NextPInv, PTL DEF Spec

\* The latch and the barrier keep the coordinator's writes to the Phase apart
\* from the workers' reads, for every number of threads and phases.
LEMMA PhaseNeverRaces == Spec => []PhaseRaceFree
<1>1. PInv => PhaseRaceFree
  BY DEF PInv, WorkerOK, Outside, MainOK, PhaseRaceFree, ReadsPhase, Released
<1> QED BY <1>1, Invariance, PTL

\* They keep the coordinator's reads of worker_errors, of the tallies and of
\* the error samples apart from the workers' writes.
LEMMA ResultsNeverRace == Spec => []ResultsRaceFree
<1>1. PInv => ResultsRaceFree
  <2> SUFFICES ASSUME PInv, main \in {"check", "merge", "output"}, NEW t \in Worker
               PROVE  pc[t] \notin {"pin", "run", "running"} /\ ~ReadsPhase(t)
    BY DEF ResultsRaceFree
  <2>1. CASE main = "output"
    BY <2>1 DEF PInv, Gone, ReadsPhase
  <2>2. CASE main # "output"
    BY <2>2 DEF PInv, WorkerOK, Outside, MainOK, ReadsPhase, Released
  <2> QED BY <2>1, <2>2
<1> QED BY <1>1, Invariance, PTL

\* The Phase, the errors and the tallies are free of data races.
THEOREM NothingRaces == Spec => []RaceFree
BY PhaseNeverRaces, ResultsNeverRace, PTL DEF RaceFree

\* Whatever was merged was counted in the phase it was merged for.
THEOREM MergesAreCurrent == Spec => []MergesThisPhase
<1>1. PInv => MergesThisPhase
  BY DEF PInv, TypeOK, MainOK, KindOK, TallyOK, MergesThisPhase
<1> QED BY <1>1, Invariance, PTL

\* A run that came to its output leaves nothing of an earlier one.
Written == main \in {"write", "return"} \/ verdict = "reported" => file # "old"

\* Exit codes 0 and 1 come with all repetitions and no failed worker.
THEOREM ReportsAreComplete == Spec => []ReportIsComplete
<1>1. PInv /\ Written => ReportIsComplete
  <2> SUFFICES ASSUME PInv, Written, verdict = "reported"
               PROVE  failed = {} /\ merged = {n \in 1 .. Stages : StageKind(n) = "MEASURED"}
    BY DEF ReportIsComplete, Written
  <2>1. main = "exit" /\ failed = {} /\ stage = Stages
    BY DEF PInv, FailedOK, Stopping
  <2> QED BY <2>1 DEF PInv, BooksOK, LastDone
<1>2. Init => Written
  BY DEF Init, Written
<1>3. PInv /\ Written /\ [Next]_vars => Written'
  <2> SUFFICES ASSUME PInv, Written, [Next]_vars PROVE Written'
    OBVIOUS
  <2>1. ASSUME UNCHANGED outVars, main' \in {"write", "return"} => main' = main PROVE Written'
    BY <2>1 DEF outVars, Written
  <2>2. ASSUME NEW t \in Worker, WorkerStep(t) PROVE UNCHANGED outVars /\ main' = main
    BY <2>2 DEF WorkerStep, Pin, CountDown, WorkerArrives, Look, RunPhase, RunEnds, LoopAround
  <2>3. CASE Ready \/ ServerAlive \/ SetPhase \/ LastPhaseDone \/ MainArrives
             \/ MainReleased \/ SetStop \/ Join
    <3>1. UNCHANGED outVars /\ main' \notin {"write", "return"}
      BY <2>3 DEF Ready, ServerAlive, SetPhase, LastPhaseDone, MainArrives, MainReleased,
        SetStop, Join
    <3> QED BY <2>1, <3>1
  <2>4. CASE CheckWorkers \/ ServerGone \/ Merge
    <3>1. /\ main' \notin {"write", "return"} /\ verdict' \in {verdict, "failed"}
          /\ file' = file
      BY <2>4 DEF CheckWorkers, ServerGone, Merge
    <3> QED BY <3>1 DEF Written
  <2>5. CASE OpenOutput \/ WriteOutput \/ Return
    <3>1. verdict # "reported"
      BY <2>5 DEF PInv, FailedOK, OpenOutput, WriteOutput, Return
    <3>2. CASE OpenOutput
      BY <3>1, <3>2 DEF OpenOutput, Written
    <3>3. CASE WriteOutput
      BY <3>1, <3>3 DEF WriteOutput, Written
    <3>4. CASE Return
      BY <3>4 DEF Return, Written
    <3> QED BY <2>5, <3>2, <3>3, <3>4
  <2> QED BY <2>1, <2>2, <2>3, <2>4, <2>5 DEF Next, MainStep, Exited, vars, outVars
<1> QED BY <1>1, <1>2, <1>3, Invariance, PTL DEF Spec

-----------------------------------------------------------------------------
(* The refinement.                                                         *)

\* What the worker does to the image.
LEMMA WorkerRefines ==
  ASSUME PInv, NEW t \in Worker, WorkerStep(t)
  PROVE  [Rounds!Next]_Rounds!vars
<1>1. TypeOK /\ Main \notin Worker /\ Main \in Party /\ Worker \subseteq Party
  BY MainIsApart DEF PInv
<1>2. CASE Pin(t)
  <2>1. UNCHANGED <<main, open, kind, stage>> /\ pc' = [pc EXCEPT ![t] = "count_down"]
        /\ pc[t] = "pin"
    BY <1>2 DEF Pin, GoTo, barrierVars, phaseVars
  <2>2. main = "ready" /\ stage = 0
    BY <2>1 DEF PInv, WorkerOK, KindOK
  <2>3. Working' = Working /\ Round' = Round /\ Round = 0 /\ ~Stopping /\ ~Stopping'
    BY <1>1, <2>1, <2>2 DEF Working, Round, Stopping, TypeOK
  <2>4. failed' = failed \/ failed' = failed \union {t}
    BY <1>2 DEF Pin
  <2>5. Broken' = Broken \/ Broken' = Broken \union {t}
    BY <2>3, <2>4 DEF Broken
  <2>6. Stopping' = Stopping
    BY <2>1 DEF Stopping
  <2> QED BY <2>3, <2>5, <2>6 DEF Rounds!Next, Rounds!Unfit, Rounds!vars
<1>3. CASE RunEnds(t)
  <2>1. UNCHANGED <<main, open, kind, stage>> /\ pc' = [pc EXCEPT ![t] = "end"]
        /\ pc[t] = "running"
    BY <1>3 DEF RunEnds, GoTo, barrierVars, phaseVars
  <2>2. open /\ kind # "STOP" /\ ~Stopping /\ ~Stopping'
    BY <2>1 DEF PInv, WorkerOK, Outside, Dismissed, MainOK, Stopping
  <2>3. t \in Working /\ Working' = Working \ {t} /\ Round' = Round
    BY <1>1, <2>1, <2>2 DEF Working, Round, TypeOK
  <2>4. failed' = failed \/ failed' = failed \union {t}
    BY <1>3 DEF RunEnds
  <2>5. Broken' = Broken \/ Broken' = Broken \union {t}
    BY <2>2, <2>4 DEF Broken
  <2>6. Stopping' = Stopping
    BY <2>1 DEF Stopping
  <2> QED BY <2>3, <2>5, <2>6 DEF Rounds!Next, Rounds!Leave, Rounds!vars
<1>4. CASE CountDown(t) \/ Look(t) \/ RunPhase(t) \/ LoopAround(t)
  <2>1. UNCHANGED <<main, open, kind, stage, failed>>
    BY <1>4 DEF CountDown, Look, RunPhase, LoopAround, GoTo, barrierVars, phaseVars
  <2>2. Working' = Working
    BY <1>1, <1>4, <2>1
    DEF PInv, TypeOK, WorkerOK, Outside, Inside, Dismissed, CountDown, Look, RunPhase,
        LoopAround, GoTo, Working
  <2>3. UNCHANGED <<Round, Broken, Stopping>>
    BY <2>1 DEF Round, Broken, Stopping
  <2> QED BY <2>2, <2>3 DEF Rounds!vars
<1>5. CASE WorkerArrives(t) /\ arrived \union {t} # Party
  <2>1. UNCHANGED <<main, open, kind, stage, failed>>
    BY <1>5 DEF WorkerArrives, Arrive, GoTo, phaseVars
  <2>2. Working' = Working
    BY <1>1, <1>5, <2>1
    DEF PInv, TypeOK, WorkerOK, Outside, Inside, Dismissed, WorkerArrives, GoTo, Working
  <2>3. UNCHANGED <<Round, Broken, Stopping>>
    BY <2>1 DEF Round, Broken, Stopping
  <2> QED BY <2>2, <2>3 DEF Rounds!vars
<1>6. CASE WorkerArrives(t) /\ arrived \union {t} = Party
  <2>1. UNCHANGED <<main, kind, stage, failed>> /\ open' = ~open /\ open' \in BOOLEAN
        /\ pc[t] \in {"begin", "end"}
        /\ pc' = [pc EXCEPT ![t] = IF pc[t] = "begin" THEN "begun" ELSE "ended"]
        /\ Main \in arrived /\ \A u \in Worker \ {t} : u \in arrived
    BY <1>1, <1>6 DEF WorkerArrives, Arrive, GoTo, phaseVars, TypeOK
  <2>2. CASE ~open /\ kind # "STOP"
    <3>1. main = "begun" /\ failed = {} /\ stage \in 1 .. Stages /\ ~Stopping /\ ~Stopping'
      BY <1>1, <2>1, <2>2, StagesType DEF PInv, TypeOK, MainOK, KindOK, FailedOK, Stopping
    <3>2. \A u \in Worker : pc'[u] = "begun"
      BY <1>1, <2>1, <2>2 DEF PInv, TypeOK, WorkerOK, Outside
    <3>3. Working = {} /\ Working' = Worker
      BY <2>1, <2>2, <3>2 DEF Working
    <3>4. Round = stage - 1 /\ Round' = stage
      BY <2>1, <2>2, <3>1 DEF Round
    <3>5. Round < Stages /\ Round' = Round + 1
      BY <3>1, <3>4, StagesType
    <3>6. Broken = {} /\ Broken' = {}
      BY <2>1, <3>1 DEF Broken
    <3>7. Stopping' = Stopping
      BY <2>1 DEF Stopping
    <3> QED BY <3>1, <3>3, <3>5, <3>6, <3>7 DEF Rounds!Next, Rounds!Begin, Rounds!vars
  <2>3. CASE open \/ kind = "STOP"
    <3>1. main # "begin" /\ ~(main = "begun" /\ ~open) /\ ~(main = "begun" /\ ~open')
      BY <1>1, <2>1, <2>3 DEF PInv, TypeOK, MainOK, KindOK, StageKind
    <3>2. Working = {} /\ Working' = {}
      BY <1>1, <2>1, <2>3 DEF PInv, TypeOK, WorkerOK, Inside, Dismissed, MainOK, Working
    <3>3. Round' = Round
      BY <2>1, <3>1 DEF Round
    <3>4. UNCHANGED <<Broken, Stopping>>
      BY <2>1 DEF Broken, Stopping
    <3> QED BY <3>2, <3>3, <3>4 DEF Rounds!vars
  <2> QED BY <1>1, <2>2, <2>3 DEF TypeOK
<1> QED BY <1>2, <1>3, <1>4, <1>5, <1>6 DEF WorkerStep

\* What the coordinator does to the image.
LEMMA MainRefines ==
  ASSUME PInv, MainStep
  PROVE  [Rounds!Next]_Rounds!vars
<1>1. TypeOK /\ Main \notin Worker /\ Main \in Party /\ Worker \subseteq Party /\ Stages \in Nat \ {0}
  BY MainIsApart, StagesType DEF PInv
\* A step that leaves the workers and the barrier alone, and does not stop.
<1>2. ASSUME UNCHANGED <<pc, open, kind, failed>>, Stopping' = Stopping, Round' = Round
      PROVE  [Rounds!Next]_Rounds!vars
  <2>1. UNCHANGED <<Working, Broken>>
    BY <1>2 DEF Working, Broken
  <2> QED BY <1>2, <2>1 DEF Rounds!vars
\* A step that gives up.
<1>3. ASSUME UNCHANGED <<pc, open, kind, stage>>, ~open, ~Stopping, main' = "stop",
             main \notin {"begin", "begun"}
      PROVE  [Rounds!Next]_Rounds!vars
  <2>1. Working = {} /\ Working' = {} /\ Stopping' /\ Round' = Round /\ Broken' = {}
    BY <1>3 DEF Working, Stopping, Round, Broken
  <2> QED BY <1>3, <2>1 DEF Rounds!Next, Rounds!Stop, Rounds!vars, Stopping
<1>4. CASE CheckWorkers \/ ServerGone \/ LastPhaseDone
  <2>1. UNCHANGED <<pc, open, kind, stage, failed>> /\ ~open /\ ~Stopping
        /\ main \in {"check", "next", "measured"} /\ main' \in {"stop", "merge", "next"}
    BY <1>4 DEF PInv, MainOK, CheckWorkers, ServerGone, LastPhaseDone, barrierVars, phaseVars,
                Stopping
  <2>2. CASE main' = "stop"
    BY <1>3, <2>1, <2>2
  <2>3. CASE main' # "stop"
    <3>1. Stopping' = Stopping /\ Round' = Round
      BY <2>1, <2>3 DEF Stopping, Round
    <3> QED BY <1>2, <2>1, <3>1
  <2> QED BY <2>2, <2>3
<1>5. CASE Ready \/ ServerAlive \/ Merge \/ Join \/ OpenOutput \/ WriteOutput \/ Return
  <2>1. UNCHANGED <<pc, open, kind, stage, failed>>
    BY <1>5 DEF Ready, ServerAlive, Merge, Join, OpenOutput, WriteOutput, Return,
                barrierVars, phaseVars
  <2>2. Stopping' = Stopping /\ Round' = Round
    BY <1>5, <2>1 DEF Ready, ServerAlive, Merge, Join, OpenOutput, WriteOutput, Return,
                      Stopping, Round
  <2> QED BY <1>2, <2>1, <2>2
<1>6. CASE SetPhase
  <2>1. /\ UNCHANGED <<pc, open, failed>> /\ ~open /\ stage' = stage + 1
        /\ main = "next" /\ main' = "begin"
    BY <1>6 DEF PInv, MainOK, SetPhase, barrierVars
  <2>2. /\ Working = {} /\ Working' = {} /\ ~Stopping /\ ~Stopping'
        /\ Round' = Round /\ Broken' = Broken
    BY <1>1, <2>1 DEF Working, Stopping, Round, Broken, TypeOK
  <2> QED BY <2>2 DEF Rounds!vars, Stopping
<1>7. CASE SetStop
  <2>1. /\ UNCHANGED <<pc, open, failed, stage>> /\ ~open
        /\ main = "stop" /\ main' = "stopping"
    BY <1>7 DEF PInv, MainOK, SetStop, barrierVars
  <2>2. /\ Working = {} /\ Working' = {} /\ Stopping /\ Stopping'
        /\ Round' = Round /\ Broken' = {} /\ Broken = {}
    BY <2>1 DEF Working, Stopping, Round, Broken
  <2> QED BY <2>2 DEF Rounds!vars, Stopping
<1>8. CASE MainReleased
  <2>1. UNCHANGED <<pc, open, kind, failed, stage>>
    BY <1>8 DEF MainReleased, barrierVars, phaseVars
  <2>2. Stopping' = Stopping
    BY <1>8 DEF MainReleased, Stopping
  <2>3. main = "begun" => open
    BY <1>8 DEF PInv, MainOK, MainReleased, Released
  <2>4. Round' = Round
    BY <1>8, <2>1, <2>3 DEF MainReleased, Round
  <2> QED BY <1>2, <2>1, <2>2, <2>4
<1>9. CASE MainArrives /\ arrived \union {Main} # Party
  <2>1. UNCHANGED <<pc, open, kind, failed, stage>>
    BY <1>9 DEF MainArrives, Arrive, phaseVars
  <2>2. Stopping' = Stopping
    BY <1>9 DEF MainArrives, Stopping
  <2>3. main = "begin" => ~open
    BY DEF PInv, MainOK
  <2>4. Round' = Round
    BY <1>9, <2>1, <2>3 DEF MainArrives, Round
  <2> QED BY <1>2, <2>1, <2>2, <2>4
<1>10. CASE MainArrives /\ arrived \union {Main} = Party
  <2>1. /\ UNCHANGED <<pc, kind, failed, stage>> /\ open' = ~open /\ open' \in BOOLEAN
        /\ \A u \in Worker : u \in arrived
    BY <1>1, <1>10 DEF MainArrives, Arrive, phaseVars, TypeOK
  <2>2. Stopping' = Stopping
    BY <1>10 DEF MainArrives, Stopping
  <2>3. CASE main = "begin"
    <3>1. /\ ~open /\ open' /\ main' = "begun" /\ kind # "STOP" /\ failed = {}
          /\ stage \in 1 .. Stages /\ ~Stopping
      <4>1. ~open /\ failed = {} /\ stage \in 0 .. Stages /\ stage > 0 /\ kind = StageKind(stage)
        BY <2>3 DEF PInv, TypeOK, MainOK, KindOK, FailedOK
      <4>2. kind # "STOP" /\ stage \in 1 .. Stages
        BY <1>1, <4>1, StageKindType
      <4> QED BY <1>10, <2>1, <2>3, <4>1, <4>2 DEF MainArrives, Stopping
    <3>2. \A u \in Worker : pc[u] = "begun"
      BY <2>1, <3>1 DEF PInv, WorkerOK, Outside
    <3>3. Working = {} /\ Working' = Worker /\ Broken = {} /\ Broken' = {}
      BY <2>1, <2>2, <3>1, <3>2 DEF Working, Broken
    <3>4. Round = stage - 1 /\ Round' = stage
      BY <2>1, <2>3, <3>1 DEF Round
    <3>5. Round < Stages /\ Round' = Round + 1
      BY <1>1, <3>1, <3>4
    <3> QED BY <2>2, <3>1, <3>3, <3>5 DEF Rounds!Next, Rounds!Begin, Rounds!vars, Stopping
  <2>4. CASE main # "begin"
    <3>1. \/ main = "end" /\ main' = "ended" /\ open
          \/ main = "stopping" /\ main' = "stopped" /\ ~open /\ kind = "STOP"
      BY <1>10, <2>4 DEF PInv, MainOK, KindOK, MainArrives
    <3>2. open => \A u \in Worker : pc[u] = "ended"
      BY <2>1, <3>1 DEF PInv, MainOK, WorkerOK, Inside, Dismissed
    <3>3. Working = {} /\ Working' = {} /\ Round' = Round /\ Broken' = Broken
      BY <2>1, <2>2, <3>1, <3>2 DEF Working, Round, Broken
    <3> QED BY <2>2, <3>3 DEF Rounds!vars
  <2> QED BY <2>3, <2>4
<1> QED BY <1>4, <1>5, <1>6, <1>7, <1>8, <1>9, <1>10 DEF MainStep

\* The coordinator, the latch and the barrier make lock-step rounds of the
\* phases, for every number of threads and phases.
THEOREM PhasesImplementLockStep == Spec => ImplementsLockStep
<1>1. Init => Rounds!Init
  BY DEF Init, Rounds!Init, Round, Working, Broken, Stopping
<1>2. PInv /\ [Next]_vars => [Rounds!Next]_Rounds!vars
  <2> SUFFICES ASSUME PInv, [Next]_vars PROVE [Rounds!Next]_Rounds!vars
    OBVIOUS
  <2>1. CASE UNCHANGED vars
    <3>1. UNCHANGED <<Round, Working, Broken, Stopping>>
      BY <2>1 DEF vars, Round, Working, Broken, Stopping
    <3> QED BY <3>1 DEF Rounds!vars
  <2> QED BY <2>1, WorkerRefines, MainRefines DEF Next, Exited
<1> QED BY <1>1, <1>2, Invariance, PTL DEF Spec, ImplementsLockStep, Rounds!Spec
=============================================================================
