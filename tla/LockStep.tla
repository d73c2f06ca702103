------------------------------ MODULE LockStep ------------------------------
(***************************************************************************)
(* Rounds in lock step: a round begins for all workers at once, only when  *)
(* all have left the round before and none of them is broken.  This is     *)
(* what the replay driver's coordinator and barrier are for.               *)
(***************************************************************************)
EXTENDS Naturals

CONSTANTS
  Worker,   \* the workers
  Rounds    \* how many rounds there are to run, a natural number

VARIABLES
  round,     \* rounds begun
  working,   \* the workers that are in the round
  broken,    \* the workers that failed
  over       \* no round will begin any more

vars == <<round, working, broken, over>>

Init == round = 0 /\ working = {} /\ broken = {} /\ over = FALSE

\* A worker fails before the first round.
Unfit(t) ==
  /\ ~over /\ round = 0
  /\ broken' = broken \union {t}
  /\ UNCHANGED <<round, working, over>>

Begin ==
  /\ ~over /\ working = {} /\ broken = {} /\ round < Rounds
  /\ round' = round + 1
  /\ working' = Worker
  /\ UNCHANGED <<broken, over>>

\* A worker is done with the round, or fails in it.
Leave(t) ==
  /\ t \in working
  /\ working' = working \ {t}
  /\ \/ UNCHANGED broken
     \/ broken' = broken \union {t}
  /\ UNCHANGED <<round, over>>

\* Everybody goes home, the broken workers too.
Stop ==
  /\ ~over /\ working = {}
  /\ over' = TRUE
  /\ broken' = {}
  /\ UNCHANGED <<round, working>>

Next == Begin \/ Stop \/ \E t \in Worker : Unfit(t) \/ Leave(t)

Spec == Init /\ [][Next]_vars
=============================================================================
