------------------------------ MODULE MCLambda ------------------------------
(* One client whose creation, turn and lookup are concurrent invocations.  *)
EXTENDS LambdaDispatch, TLC

CONSTANTS c1, s1, t1, g1

OwnSink == [r \in {t1} |-> r]
OneClient == [r \in {s1, t1, g1} |-> c1]
=============================================================================
