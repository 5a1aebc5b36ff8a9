------------------------------ MODULE MCBridge ------------------------------
(* As many callers as the runtime has workers, and a scheduler that puts   *)
(* the spawned work where every worker may take it from.                   *)
EXTENDS BlockingBridge

CONSTANTS b1, b2
=============================================================================
