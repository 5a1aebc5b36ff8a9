---------------------------- MODULE MCChatServer ----------------------------
(* Small instances of the server: one or two connections, one session.     *)
EXTENDS ChatServer, TLC

CONSTANTS c1, c2, s1, t1, t2, g1

\* One connection that sends turn after turn.
SingleSink == (s1 :> c1) @@ (t1 :> c1) @@ (t2 :> c1)
TwoTurns == {[requests |-> {s1, t1, t2}, leavers |-> {c1}, crashes |-> MaxRestarts]}

\* Two connections: either both talk to one session at the same time, and the
\* one that did not create it may leave, or the second one looks the session up
\* and uses it while either may leave and the process may crash.
PairSink == (s1 :> c1) @@ (t1 :> c2) @@ (t2 :> c1) @@ (g1 :> c2)
SharedOrLookup ==
    {[requests |-> {s1, t1, t2}, leavers |-> {c2}, crashes |-> 0],
     [requests |-> {s1, t1, g1}, leavers |-> {c1, c2}, crashes |-> MaxRestarts]}
=============================================================================
