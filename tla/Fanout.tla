------------------------------- MODULE Fanout -------------------------------
(***************************************************************************)
(* What the Backplane trait promises, without pods, registries or a bus:   *)
(* connections belong to targets while they are open, and an event         *)
(* published to a target reaches members of that target, each of them at   *)
(* most once and in the publisher's order.  Which members it reaches, and  *)
(* when, is left open: delivery over the bus is best effort.               *)
(***************************************************************************)
EXTENDS Naturals, Sequences

CONSTANTS Conns, Groups, Publishers, MaxPublish

VARIABLES
    conn,       \* life of a connection
    member,     \* the targets a connection belongs to
    published,  \* the target of each event of a publisher
    delivered   \* the events each connection has been given

fvars == <<conn, member, published, delivered>>

Targets == Conns \cup Groups

FInit ==
    /\ conn = [c \in Conns |-> "new"]
    /\ member = [c \in Conns |-> {}]
    /\ published = [u \in Publishers |-> <<>>]
    /\ delivered = [c \in Conns |-> <<>>]

\* attach: an open connection is always reachable by its own id.
Join(c) ==
    /\ conn[c] = "new"
    /\ conn' = [conn EXCEPT ![c] = "open"]
    /\ member' = [member EXCEPT ![c] = {c}]
    /\ UNCHANGED <<published, delivered>>

\* associate.
Enter(c, t) ==
    /\ conn[c] = "open"
    /\ member' = [member EXCEPT ![c] = @ \cup {t}]
    /\ UNCHANGED <<conn, published, delivered>>

\* detach, or the end of a pod, which closes many connections at once.
Leave(S) ==
    /\ \A c \in S : conn[c] = "open"
    /\ conn' = [c \in Conns |-> IF c \in S THEN "closed" ELSE conn[c]]
    /\ member' = [c \in Conns |-> IF c \in S THEN {} ELSE member[c]]
    /\ UNCHANGED <<published, delivered>>

\* c may be given event e, published to t: it belongs to t, and it has seen no
\* event of that publisher that is as recent.
MayReceive(c, e, t) ==
    /\ t \in member[c]
    /\ \A i \in 1..Len(delivered[c]) :
         delivered[c][i].pub = e.pub => delivered[c][i].seq < e.seq

GiveTo(S, e) ==
    delivered' = [c \in Conns |->
        IF c \in S THEN Append(delivered[c], e) ELSE delivered[c]]

\* publish, with the deliveries it makes itself.
Publish(u, t, S) ==
    LET e == [pub |-> u, seq |-> Len(published[u]) + 1] IN
    /\ Len(published[u]) < MaxPublish
    /\ \A c \in S : MayReceive(c, e, t)
    /\ published' = [published EXCEPT ![u] = Append(@, t)]
    /\ GiveTo(S, e)
    /\ UNCHANGED <<conn, member>>

\* A later delivery of an event that was published before.
Deliver(u, n, S) ==
    LET e == [pub |-> u, seq |-> n] IN
    /\ \A c \in S : MayReceive(c, e, published[u][n])
    /\ GiveTo(S, e)
    /\ UNCHANGED <<conn, member, published>>

FNext ==
    \/ \E c \in Conns : Join(c)
    \/ \E c \in Conns, t \in Groups : Enter(c, t)
    \/ \E S \in SUBSET Conns : Leave(S)
    \/ \E u \in Publishers, t \in Targets, S \in SUBSET Conns : Publish(u, t, S)
    \/ \E u \in Publishers, S \in SUBSET Conns :
         \E n \in 1..Len(published[u]) : Deliver(u, n, S)

Spec == FInit /\ [][FNext]_fvars
=============================================================================
