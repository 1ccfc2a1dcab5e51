----------------------------- MODULE MCPersist -----------------------------
(* Three keys: two that share a bucket for ever, one that leaves them when the *)
(* table grows.                                                               *)
EXTENDS CachePersist, TLC

CONSTANTS k1, k2, k3, half

MCHashOf == (k1 :> 0) @@ (k2 :> 0) @@ (k3 :> 3) @@ (half :> 3)

\* k1 and k2 have one hash and nothing else tells them apart.
MCSymmetry == Permutations({k1, k2})
=============================================================================
