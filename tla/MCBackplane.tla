---------------------------- MODULE MCBackplane ----------------------------
(* Two pods with a connection each, a publisher on one, one group target.  *)
EXTENDS Backplane, TLC

CONSTANTS p1, p2, c1, c2, u1, g1

Home == (c1 :> p1) @@ (c2 :> p2) @@ (u1 :> p1)
=============================================================================
