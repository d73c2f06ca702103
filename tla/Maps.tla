-------------------------------- MODULE Maps --------------------------------
(***************************************************************************)
(* What the provers do not know of TLC's @@ and :>, defined here: a map    *)
(* filled up with the keys it lacks.                                       *)
(***************************************************************************)
f ++ g == [k \in DOMAIN f \cup DOMAIN g |-> IF k \in DOMAIN f THEN f[k] ELSE g[k]]
=============================================================================
