-------------------------- MODULE MCLoadPublication --------------------------
(* A is called without a token, B with token t1, C with the token that the *)
(* configuration chooses: B's (a token used twice) or none.                *)
EXTENDS LoadPublication

CONSTANTS A, B, C, t1, TokenOfC

MCTokenOf == [l \in Loads |-> CASE l = A -> NoToken
                                [] l = B -> t1
                                [] OTHER -> TokenOfC]
=============================================================================
