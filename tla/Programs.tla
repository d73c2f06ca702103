------------------------------ MODULE Programs ------------------------------
(***************************************************************************)
(* The programs that run one at a time: the preparations, the vector       *)
(* benchmark, a grid's legs, the requests they send, and the report.  One  *)
(* behaviour is of one of them.                                            *)
(***************************************************************************)
EXTENDS Requests, Campaign, Board, Preparation, CorpusTransform, VectorCampaign

VARIABLE active

vars == <<active, campaignVars, case, board, prep, disk, xf, run, data, serving, published>>

Init ==
    /\ active \in {"requests", "campaign", "report", "preparation", "transform", "vector"}
    /\ CaseInit /\ BoardInit /\ VectorInit
    /\ IF active = "campaign" THEN CampaignInit
       ELSE /\ files = [k \in Cells \X Params |-> None] /\ prev = files /\ world = <<>>
            /\ contexts = {} /\ torn = {} /\ control = None
            /\ leg = [pc |-> "idle", engine |-> "none", status |-> "none"]
    /\ IF active = "preparation" THEN PrepInit ELSE prep = [tool |-> "none", pc |-> "idle"] /\ disk = <<>>
    /\ IF active = "transform" THEN TransformInit ELSE xf = [ended |-> FALSE]

Requesting == active = "requests" /\ CaseStep
    /\ UNCHANGED <<active, campaignVars, board, prep, disk, xf, vectorVars>>
Measuring == active = "campaign" /\ CampaignStep
    /\ UNCHANGED <<active, case, board, prep, disk, xf, vectorVars>>
Reporting == active = "report" /\ Render
    /\ UNCHANGED <<active, campaignVars, case, prep, disk, xf, vectorVars>>
Preparing == active = "preparation" /\ PrepStep
    /\ UNCHANGED <<active, campaignVars, case, board, xf, vectorVars>>
Transforming == active = "transform" /\ TransformStep
    /\ UNCHANGED <<active, campaignVars, case, board, prep, disk, vectorVars>>
Benchmarking == active = "vector" /\ VectorStep
    /\ UNCHANGED <<active, campaignVars, case, board, prep, disk, xf>>

Next == Requesting \/ Measuring \/ Reporting \/ Preparing \/ Transforming \/ Benchmarking

Spec == Init /\ [][Next]_vars
=============================================================================
