--------------------------- MODULE MCPartMaterials ---------------------------
(* Two loads, the second with a token, and calls for one part.              *)
EXTENDS PartMaterials, TLC

CONSTANTS A, B, t1, p1, p2

MCTokenOf == (A :> NoToken) @@ (B :> t1)
=============================================================================
