------------------------------ MODULE MCVectors ------------------------------
(***************************************************************************)
(* Two vectors that lie apart.                                             *)
(***************************************************************************)
EXTENDS VectorIndex, TLC

CONSTANTS p1, p2

MCPoints == {p1, p2}

MCDistance == [pq \in MCPoints \X MCPoints |-> IF pq[1] = pq[2] THEN 0 ELSE 1]

PointSymmetry == Permutations(MCPoints)
=============================================================================
