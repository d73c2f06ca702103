--------------------------- MODULE VectorCampaign ---------------------------
(***************************************************************************)
(* vector_benchmark.py: an index is fed or reused, merged into one segment *)
(* with its vector overlay, and each cell's recall and throughput are      *)
(* taken from it.  A smoke has documents of its own, hence its own         *)
(* directory.  The campaign may be killed between any two steps, which     *)
(* leaves its server; and another client may reach the index meanwhile.    *)
(***************************************************************************)
EXTENDS Integers, FiniteSets

CONSTANTS Documents,   \* bound: documents of the corpus
          Points,      \* bound: cells
          Campaigns,   \* bound: campaigns run
          Intrusions   \* bound: changes another client makes

ASSUME VectorAssumption ==
    Documents \in Nat /\ Points \in Nat /\ Campaigns \in Nat /\ Intrusions \in Nat

VARIABLES run,         \* the campaign
          data,        \* data[smoke]: the directory and its index
          serving,     \* what is served: nothing, or the directory of ...
          published    \* cells saved

vectorVars == <<run, data, serving, published>>

NoData == [there |-> FALSE, marker |-> FALSE, docs |-> 0, version |-> 0, one |-> FALSE]
Nobody == "nobody"
Kinds == {"smoke", "full"}

VectorInit ==
    /\ run = [pc |-> "idle", kind |-> "full", refeed |-> FALSE, reuse |-> FALSE, layout |-> 0,
              recall |-> 0, ran |-> 0, cells |-> 0, count |-> 0, intrusions |-> 0,
              status |-> "none"]
    /\ data = [k \in Kinds |-> NoData] /\ serving = Nobody /\ published = {}

To(pc) == run' = [run EXCEPT !.pc = pc]
Index == data[run.kind]

\* Refused: a PID file, or a smoke's directory that another left.
Launch ==
    /\ run.pc = "idle" /\ run.count < Campaigns
    /\ \E kind \in Kinds, refeed \in BOOLEAN :
          LET old == data[kind]
              refused == serving # Nobody \/ (kind = "smoke" /\ old.there)
              reuse == old.marker /\ ~refeed
          IN  /\ run' = [run EXCEPT !.pc = IF refused THEN "idle" ELSE "start",
                            !.kind = kind, !.refeed = refeed, !.reuse = reuse,
                            !.count = @ + 1, !.cells = 0,
                            !.status = IF refused THEN "refused" ELSE "none"]
              /\ data' = IF refused \/ reuse THEN data ELSE [data EXCEPT ![kind] = NoData]
    /\ UNCHANGED <<serving, published>>

StartServer ==
    /\ run.pc = "start"
    /\ data' = [data EXCEPT ![run.kind].there = TRUE]
    /\ \/ serving' = run.kind /\ To(IF run.reuse THEN "merge" ELSE "feed")
       \/ UNCHANGED serving /\ To("finish")
    /\ UNCHANGED published

FeedRow ==
    /\ run.pc = "feed" /\ Index.docs < Documents
    /\ data' = [data EXCEPT ![run.kind].docs = @ + 1, ![run.kind].version = @ + 1]
    /\ UNCHANGED <<run, serving, published>>

\* The feed exits by itself, and the index is counted.
FeedCounted ==
    /\ run.pc = "feed" /\ To(IF Index.docs = Documents THEN "mark" ELSE "finish")
    /\ UNCHANGED <<data, serving, published>>

Mark ==
    /\ run.pc = "mark" /\ To("merge")
    /\ data' = [data EXCEPT ![run.kind].marker = TRUE]
    /\ UNCHANGED <<serving, published>>

ForceMerge ==
    /\ run.pc = "merge" /\ To("layout")
    /\ data' = [data EXCEPT ![run.kind].one = TRUE,
                            ![run.kind].version = IF Index.one THEN @ ELSE @ + 1]
    /\ UNCHANGED <<serving, published>>

\* posture(): one quiet segment with the rows and the overlay, or an error.
Posture == Index.one /\ Index.docs = Documents

Layout ==
    /\ run.pc = "layout"
    /\ IF Posture THEN run' = [run EXCEPT !.pc = "cell", !.layout = Index.version]
       ELSE To("finish")
    /\ UNCHANGED <<data, serving, published>>

CellPosture ==
    /\ run.pc = "cell" /\ run.cells < Points /\ To(IF Posture THEN "recall" ELSE "finish")
    /\ UNCHANGED <<data, serving, published>>

Recall ==
    /\ run.pc = "recall"
    /\ run' = [run EXCEPT !.pc = "replay", !.recall = Index.version]
    /\ UNCHANGED <<data, serving, published>>

Replay ==
    /\ run.pc = "replay"
    /\ run' = [run EXCEPT !.pc = "after", !.ran = Index.version]
    /\ UNCHANGED <<data, serving, published>>

\* A slip: after the replay, the index need only be in order.
AfterInOrder ==
    /\ run.pc = "after"
    /\ IF Posture
         THEN /\ run' = [run EXCEPT !.pc = "cell", !.cells = @ + 1]
              /\ published' = published \cup
                    {[layout |-> run.layout, recall |-> run.recall, ran |-> run.ran]}
         ELSE To("finish") /\ UNCHANGED published
    /\ UNCHANGED <<data, serving>>
\* After the replay, the index must be what it was when it was laid out.
After ==
    /\ run.pc = "after"
    /\ IF Posture /\ Index.version = run.layout
         THEN /\ run' = [run EXCEPT !.pc = "cell", !.cells = @ + 1]
              /\ published' = published \cup
                    {[layout |-> run.layout, recall |-> run.recall, ran |-> run.ran]}
         ELSE To("finish") /\ UNCHANGED published
    /\ UNCHANGED <<data, serving>>

\* The recall of a smoke, or the transport control of a campaign.
Conclude ==
    /\ run.pc = "cell" /\ run.cells = Points
    /\ run' = [run EXCEPT !.pc = "finish", !.status = "passed"]
    /\ UNCHANGED <<data, serving, published>>

\* A request, a check or SIGTERM raises.
VectorRaises ==
    /\ run.pc \notin {"idle", "start", "finish"} /\ To("finish")
    /\ UNCHANGED <<data, serving, published>>

\* The server is stopped and a smoke's directory removed.
Finish ==
    /\ run.pc = "finish"
    /\ run' = [run EXCEPT !.pc = "idle", !.status = IF @ = "passed" THEN @ ELSE "failed"]
    /\ serving' = Nobody
    /\ data' = IF run.kind = "smoke" THEN [data EXCEPT !["smoke"] = NoData] ELSE data
    /\ UNCHANGED published

CampaignKilled ==
    /\ run.pc # "idle" /\ run' = [run EXCEPT !.pc = "idle", !.status = "killed"]
    /\ UNCHANGED <<data, serving, published>>

\* scripts/stop-luxir.sh, by hand.
StopServer ==
    /\ run.pc = "idle" /\ serving # Nobody /\ serving' = Nobody
    /\ UNCHANGED <<run, data, published>>

Intrude ==
    /\ serving # Nobody /\ run.intrusions < Intrusions
    /\ run' = [run EXCEPT !.intrusions = @ + 1]
    /\ \E more \in 0..1, one \in BOOLEAN :
          data' = [data EXCEPT ![serving].version = @ + 1, ![serving].docs = @ + more,
                               ![serving].one = one]
    /\ UNCHANGED <<serving, published>>

VectorStep ==
    \/ Launch \/ StartServer \/ FeedRow \/ FeedCounted \/ Mark \/ ForceMerge \/ Layout
    \/ CellPosture \/ Recall \/ Replay \/ After \/ Conclude \/ VectorRaises \/ Finish
    \/ CampaignKilled \/ StopServer \/ Intrude

VectorSpec == VectorInit /\ [][VectorStep]_vectorVars

-----------------------------------------------------------------------------
\* A directory with the marker that lets it be reused was fed to the last row;
\* a cell's recall and its throughput are of one index, the one whose layout
\* the campaign recorded, whoever else reached it.
VectorFedIsAsked ==
    /\ \A k \in Kinds : data[k].marker => data[k].docs >= Documents
    /\ \A c \in published : c.recall = c.layout /\ c.ran = c.layout
=============================================================================
