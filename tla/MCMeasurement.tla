---------------------------- MODULE MCMeasurement ----------------------------
(* Two declared tiers, sources one document short, exact and one long. *)
EXTENDS Measurement

CONSTANTS w1, w2

MCTiers == <<2, 1>>
MCArgs == {a \in RestArgs : ~a.many \/ a.flush} \cup LuxirArgs
MCSources == {2, 3, 4}
MCWorker == {w1, w2}
=============================================================================
