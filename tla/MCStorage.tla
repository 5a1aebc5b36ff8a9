----------------------------- MODULE MCStorage ------------------------------
(* A small instance: two callers, one key, four messages, one page walk.   *)
EXTENDS Storage, TLC

CONSTANTS a1, a2, k1, i1, i2, i3, m1, m2, m3, m4, w1, v1, v2, x1

StorageSymmetry ==
    Permutations(Callers) \cup Permutations(ConvIds) \cup Permutations(MsgIds)
=============================================================================
