----------------------------- MODULE MCIndexing -----------------------------
(* A small instance of incremental indexing: two runs and an issue.        *)
EXTENDS Indexing, TLC

CONSTANTS f1, r1, r2

RunSymmetry == Permutations(Runs)
=============================================================================
