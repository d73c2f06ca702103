------------------------------ MODULE MCCampaign ------------------------------
(* Builds, corpora and settings are interchangeable. *)
EXTENDS Campaign, TLC

Symmetry == Permutations(Builds) \cup Permutations(Corpora)
              \cup Permutations(Effective) \cup Permutations(Parallel)
=============================================================================
