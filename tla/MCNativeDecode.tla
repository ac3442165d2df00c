---------------------------- MODULE MCNativeDecode ----------------------------
(* A few requests and the workers of Android's pool.                       *)
EXTENDS NativeDecode, TLC

CONSTANTS r1, r2, r3, w1, w2

Symmetry == Permutations(Requests) \cup Permutations(Workers)
=============================================================================
