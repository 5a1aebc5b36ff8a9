---------------------------- MODULE MCTurnClient ----------------------------
(* Two dials, a turn and a request.                                        *)
EXTENDS TurnClient, TLC

CONSTANTS k1, k2, none, t1, q1
=============================================================================
