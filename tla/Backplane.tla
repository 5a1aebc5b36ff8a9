----------------------------- MODULE Backplane -----------------------------
(***************************************************************************)
(* The connection backplane: a registry of outbound sinks per pod          *)
(* (InMemoryBackplane) and the Redis/NATS bus that fans a publish out to   *)
(* the other pods (RedisBackplane, NatsBackplane).                         *)
(*                                                                         *)
(* Every registry operation runs under one RwLock and is one action.       *)
(* publish is two: the local delivery, then, after an await, the broadcast *)
(* on the bus, so anything may happen between the two.  A pod id and a     *)
(* connection id are fresh UUIDs: a restarted pod is another pod, and a    *)
(* connection is attached once, to the pod that holds its socket.          *)
(***************************************************************************)
EXTENDS Naturals, Sequences, FiniteSets

CONSTANTS
    Pods,           \* pod ids
    Conns,          \* connection ids
    Groups,         \* the Session, User, Org and Agent targets
    Publishers,     \* tasks that call publish, one call at a time
    HomeOf,         \* the pod each connection and each publisher runs on
    MaxPublish      \* bound: publishes per publisher

ASSUME BackplaneAssumption ==
    /\ HomeOf \in [Conns \cup Publishers -> Pods]
    /\ Conns \cap Groups = {}
    /\ MaxPublish \in Nat

VARIABLES
    pod,            \* life of a pod: "new", "up", "stopped"
    subscribed,     \* the pod's subscriber task: "none", "active", "ended"
    conn,           \* life of a connection: "new", "open", "closed"
    sinks,          \* Registry.sinks of each pod
    conn_targets,   \* Registry.conn_targets of each pod
    target_conns,   \* Registry.target_conns of each pod
    inbox,          \* envelopes the bus holds for each pod's subscriber
    published,      \* history: the targets each publisher has published to
    sending,        \* envelopes delivered locally and not yet broadcast
    delivered,      \* events pushed into each connection's sink, in order
    owed            \* history: [event, conn] entitled when publish was called,
                    \* and not lost since by a fault

vars == <<pod, subscribed, conn, sinks, conn_targets, target_conns, inbox,
          published, sending, delivered, owed>>

registry == <<sinks, conn_targets, target_conns>>

-----------------------------------------------------------------------------
(* Data *)

\* Target::Connection(c) is c itself; every other target is a group.
Target == Conns \cup Groups

\* The n-th event of publisher u.
Event == [pub : Publishers, seq : 1..MaxPublish]

BackplaneEnvelope == [origin : Pods, target : Target, event : Event]

EmptyMap == [x \in {} |-> {}]

\* map.entry(k).or_default().insert(v) for a HashMap of HashSets.
InsertInto(map, k, v) ==
    [x \in DOMAIN map \cup {k} |->
        (IF x \in DOMAIN map THEN map[x] ELSE {})
            \cup (IF x = k THEN {v} ELSE {})]

\* Mutant: an emptied target entry stays in the map.
PruneConnKeepsEmpty(map, targets, c) ==
    [t \in DOMAIN map |-> IF t \in targets THEN map[t] \ {c} ELSE map[t]]

\* detach's loop over the targets of a connection: take c out of each set, and
\* the entry out of the map when its set becomes empty.
PruneConn(map, targets, c) ==
    [t \in {x \in DOMAIN map : x \in targets => map[x] \ {c} # {}} |->
        IF t \in targets THEN map[t] \ {c} ELSE map[t]]

\* The connections of pod p that InMemoryBackplane::publish reaches for t.
Reached(p, t) ==
    {c \in Conns : /\ t \in DOMAIN target_conns[p]
                   /\ c \in target_conns[p][t]
                   /\ c \in sinks[p]}

\* Push event e into the sink of every connection of pod p reached for t.
DeliverLocal(p, t, e) ==
    delivered' = [c \in Conns |->
        IF c \in Reached(p, t) THEN Append(delivered[c], e) ELSE delivered[c]]

\* The connections, on any pod, that are associated with t.
Entitled(t) ==
    {c \in Conns : /\ c \in DOMAIN conn_targets[HomeOf[c]]
                   /\ t \in conn_targets[HomeOf[c]][c]}

\* The connections that an event of pod p cannot reach: their pods are others
\* and have lost their subscription.
Deaf(p) == {c \in Conns : HomeOf[c] # p /\ subscribed[HomeOf[c]] = "ended"}

-----------------------------------------------------------------------------
(* The states the program starts in: no pod has connected yet. *)

Init ==
    /\ pod = [p \in Pods |-> "new"]
    /\ subscribed = [p \in Pods |-> "none"]
    /\ conn = [c \in Conns |-> "new"]
    /\ sinks = [p \in Pods |-> {}]
    /\ conn_targets = [p \in Pods |-> EmptyMap]
    /\ target_conns = [p \in Pods |-> EmptyMap]
    /\ inbox = [p \in Pods |-> <<>>]
    /\ published = [u \in Publishers |-> <<>>]
    /\ sending = [u \in Publishers |-> {}]
    /\ delivered = [c \in Conns |-> <<>>]
    /\ owed = {}

\* Mutant: the backplane is handed out before its subscription exists.
ConnectUnsubscribed(p) ==
    /\ pod[p] = "new"
    /\ pod' = [pod EXCEPT ![p] = "up"]
    /\ UNCHANGED <<subscribed, conn, registry, inbox, published, sending,
                   delivered, owed>>

\* connect_on_channel / connect_on_subject: the pod is subscribed to the bus
\* before the backplane exists, hence before any connection can attach.
Connect(p) ==
    /\ pod[p] = "new"
    /\ pod' = [pod EXCEPT ![p] = "up"]
    /\ subscribed' = [subscribed EXCEPT ![p] = "active"]
    /\ UNCHANGED <<conn, registry, inbox, published, sending, delivered, owed>>

\* attach: register the sink, and the connection under its own target.
Attach(c) ==
    LET p == HomeOf[c] IN
    /\ pod[p] = "up"
    /\ conn[c] = "new"
    /\ conn' = [conn EXCEPT ![c] = "open"]
    /\ sinks' = [sinks EXCEPT ![p] = @ \cup {c}]
    /\ conn_targets' = [conn_targets EXCEPT ![p] = InsertInto(@, c, c)]
    /\ target_conns' = [target_conns EXCEPT ![p] = InsertInto(@, c, c)]
    /\ UNCHANGED <<pod, subscribed, inbox, published, sending, delivered, owed>>

\* Mutant: the reverse map is keyed by the target.
AssociateSwapped(c, t) ==
    LET p == HomeOf[c] IN
    /\ conn[c] = "open"
    /\ conn_targets' = [conn_targets EXCEPT ![p] = InsertInto(@, t, c)]
    /\ target_conns' = [target_conns EXCEPT ![p] = InsertInto(@, t, c)]
    /\ UNCHANGED <<pod, subscribed, conn, sinks, inbox, published, sending,
                   delivered, owed>>

\* associate: called by the connection's own reader task, so between its attach
\* and its detach.
Associate(c, t) ==
    LET p == HomeOf[c] IN
    /\ conn[c] = "open"
    /\ conn_targets' = [conn_targets EXCEPT ![p] = InsertInto(@, c, t)]
    /\ target_conns' = [target_conns EXCEPT ![p] = InsertInto(@, t, c)]
    /\ UNCHANGED <<pod, subscribed, conn, sinks, inbox, published, sending,
                   delivered, owed>>

\* Mutant: detach forgets the connection's targets and nothing else.
DetachKeepsSink(c) ==
    LET p == HomeOf[c] IN
    /\ conn[c] = "open"
    /\ conn' = [conn EXCEPT ![c] = "closed"]
    /\ conn_targets' = [conn_targets EXCEPT
            ![p] = [x \in DOMAIN @ \ {c} |-> @[x]]]
    /\ UNCHANGED <<pod, subscribed, sinks, target_conns, inbox, published,
                   sending, delivered, owed>>

\* detach: drop the sink and every association of the connection.
Detach(c) ==
    LET p == HomeOf[c] IN
    /\ conn[c] = "open"
    /\ conn' = [conn EXCEPT ![c] = "closed"]
    /\ sinks' = [sinks EXCEPT ![p] = @ \ {c}]
    /\ conn_targets' = [conn_targets EXCEPT
            ![p] = [x \in DOMAIN @ \ {c} |-> @[x]]]
    /\ target_conns' = [target_conns EXCEPT
            ![p] = IF c \in DOMAIN conn_targets[p]
                   THEN PruneConn(@, conn_targets[p][c], c)
                   ELSE @]
    /\ UNCHANGED <<pod, subscribed, inbox, published, sending, delivered, owed>>

\* publish, first half: deliver to this pod's sockets now.
PublishLocal(u, t) ==
    LET e == [pub |-> u, seq |-> Len(published[u]) + 1] IN
    /\ pod[HomeOf[u]] = "up"
    /\ sending[u] = {}
    /\ Len(published[u]) < MaxPublish
    /\ published' = [published EXCEPT ![u] = Append(@, t)]
    /\ sending' = [sending EXCEPT
            ![u] = {[origin |-> HomeOf[u], target |-> t, event |-> e]}]
    /\ DeliverLocal(HomeOf[u], t, e)
    /\ owed' = owed \cup {[event |-> e, conn |-> c] :
                               c \in Entitled(t) \ Deaf(HomeOf[u])}
    /\ UNCHANGED <<pod, subscribed, conn, registry, inbox>>

\* publish, second half: the bus hands the envelope to every live subscriber,
\* the publishing pod's own included.
PublishBus(u) ==
    \E env \in sending[u] :
        /\ sending' = [sending EXCEPT ![u] = {}]
        /\ inbox' = [p \in Pods |->
                IF subscribed[p] = "active" THEN Append(inbox[p], env) ELSE inbox[p]]
        /\ UNCHANGED <<pod, subscribed, conn, registry, published, delivered, owed>>

\* The broadcast returns an error: a warning is logged and the other pods never
\* see the event.
PublishBusFails(u) ==
    /\ sending[u] # {}
    /\ sending' = [sending EXCEPT ![u] = {}]
    /\ owed' = {o \in owed : \A env \in sending[u] : o.event # env.event}
    /\ UNCHANGED <<pod, subscribed, conn, registry, inbox, published, delivered>>

\* Mutant: the subscriber delivers its own echo too.
ReceiveEcho(p) ==
    LET env == Head(inbox[p]) IN
    /\ subscribed[p] = "active"
    /\ inbox[p] # <<>>
    /\ inbox' = [inbox EXCEPT ![p] = Tail(@)]
    /\ DeliverLocal(p, env.target, env.event)
    /\ UNCHANGED <<pod, subscribed, conn, registry, published, sending, owed>>

\* The subscriber task takes the next envelope: its own echo is skipped, any
\* other is resolved against this pod's registry.
Receive(p) ==
    LET env == Head(inbox[p]) IN
    /\ subscribed[p] = "active"
    /\ inbox[p] # <<>>
    /\ inbox' = [inbox EXCEPT ![p] = Tail(@)]
    /\ IF env.origin = p
       THEN UNCHANGED delivered
       ELSE DeliverLocal(p, env.target, env.event)
    /\ UNCHANGED <<pod, subscribed, conn, registry, published, sending, owed>>

\* The subscription stream ends (the bus dropped the connection): the task's
\* loop is over and nothing starts it again, while the pod serves on.
SubscriberEnds(p) ==
    /\ subscribed[p] = "active"
    /\ subscribed' = [subscribed EXCEPT ![p] = "ended"]
    /\ inbox' = [inbox EXCEPT ![p] = <<>>]
    /\ owed' = {o \in owed : HomeOf[o.conn] # p}
    /\ UNCHANGED <<pod, conn, registry, published, sending, delivered>>

\* The process dies, or drops its backplane: its registry, its subscriber, its
\* sockets and the publish calls in progress are gone.
Stop(p) ==
    /\ pod[p] = "up"
    /\ pod' = [pod EXCEPT ![p] = "stopped"]
    /\ subscribed' = [subscribed EXCEPT ![p] = "ended"]
    /\ conn' = [c \in Conns |->
            IF HomeOf[c] = p /\ conn[c] = "open" THEN "closed" ELSE conn[c]]
    /\ sinks' = [sinks EXCEPT ![p] = {}]
    /\ conn_targets' = [conn_targets EXCEPT ![p] = EmptyMap]
    /\ target_conns' = [target_conns EXCEPT ![p] = EmptyMap]
    /\ inbox' = [inbox EXCEPT ![p] = <<>>]
    /\ sending' = [u \in Publishers |->
            IF HomeOf[u] = p THEN {} ELSE sending[u]]
    /\ owed' = {o \in owed : \A u \in Publishers : \A env \in sending[u] :
                    HomeOf[u] = p => o.event # env.event}
    /\ UNCHANGED <<published, delivered>>

Next ==
    \/ \E p \in Pods : Connect(p) \/ Receive(p) \/ SubscriberEnds(p) \/ Stop(p)
    \/ \E c \in Conns : Attach(c) \/ Detach(c)
    \/ \E c \in Conns, t \in Groups : Associate(c, t)
    \/ \E u \in Publishers, t \in Target : PublishLocal(u, t)
    \/ \E u \in Publishers : PublishBus(u) \/ PublishBusFails(u)

Spec == Init /\ [][Next]_vars

\* The runtime keeps polling the subscriber tasks and a publish that awaits the
\* bus; nothing obliges anybody to connect, to publish or to leave.
Fairness ==
    /\ \A p \in Pods : WF_vars(Receive(p))
    /\ \A u \in Publishers : WF_vars(PublishBus(u))

FairSpec == Spec /\ Fairness

-----------------------------------------------------------------------------
(* Properties *)

\* A map of the registry with keys in K and, under every key, a set of V's.
IsMapOfSets(map, K, V) ==
    /\ DOMAIN map \subseteq K
    /\ \A k \in DOMAIN map : map[k] \subseteq V

\* Type invariant: the shape of every variable, partial registry maps included.
TypeOK ==
    /\ pod \in [Pods -> {"new", "up", "stopped"}]
    /\ subscribed \in [Pods -> {"none", "active", "ended"}]
    /\ conn \in [Conns -> {"new", "open", "closed"}]
    /\ sinks \in [Pods -> SUBSET Conns]
    /\ DOMAIN conn_targets = Pods
    /\ DOMAIN target_conns = Pods
    /\ \A p \in Pods : /\ IsMapOfSets(conn_targets[p], Conns, Target)
                       /\ IsMapOfSets(target_conns[p], Target, Conns)
    /\ inbox \in [Pods -> Seq(BackplaneEnvelope)]
    /\ published \in [Publishers -> Seq(Target)]
    /\ \A u \in Publishers : Len(published[u]) <= MaxPublish
    /\ sending \in [Publishers -> SUBSET BackplaneEnvelope]
    /\ delivered \in [Conns -> Seq(Event)]
    /\ owed \subseteq [event : Event, conn : Conns]

\* The two maps of a registry are each other's inverse, they name exactly the
\* connections whose sink is registered (the open ones of that pod), and no
\* empty entry is left behind: after any sequence of attach, associate and
\* detach, a disconnect leaks nothing and a publish finds every association.
RegistryConsistent ==
    \A p \in Pods :
        /\ DOMAIN conn_targets[p] = sinks[p]
        /\ sinks[p] = {c \in Conns : HomeOf[c] = p /\ conn[c] = "open"}
        /\ \A c \in sinks[p] : c \in conn_targets[p][c]
        /\ \A c \in Conns, t \in Target :
             (c \in sinks[p] /\ t \in conn_targets[p][c])
                <=> (t \in DOMAIN target_conns[p] /\ c \in target_conns[p][t])
        /\ \A t \in DOMAIN target_conns[p] : target_conns[p][t] # {}

\* What a sequence of events says of one publisher: never twice, never back.
InPublishOrder(events) ==
    \A i, j \in 1..Len(events) :
        (i < j /\ events[i].pub = events[j].pub) => events[i].seq < events[j].seq

\* A connection sees the events of one publisher in the order of its publish
\* calls and none of them twice, although an event reaches it by two routes
\* (the local delivery and the bus) and the publisher hears its own echo.
InOrderAtMostOnce == \A c \in Conns : InPublishOrder(delivered[c])

\* The fan-out that publish promises, abstracted from pods and bus.
MemberOf(c) ==
    IF c \in DOMAIN conn_targets[HomeOf[c]] THEN conn_targets[HomeOf[c]][c] ELSE {}

Abstract == INSTANCE Fanout WITH member <- [c \in Conns |-> MemberOf(c)]

\* The pods with their registries and the bus implement Fanout: whatever the
\* interleaving and the faults, an event is only ever pushed to connections
\* that belong to its target at that moment, in order and at most once.
ImplementsFanout == Abstract!Spec

\* An event that sits in the sink's history of c.
HasReceived(c, e) == \E i \in 1..Len(delivered[c]) : delivered[c][i] = e

\* Every connection that belonged to the target when publish was called gets
\* the event or closes: the pod subscribes before the first connection
\* attaches, so no event falls between the two. Only faults excuse: a broadcast
\* that fails, a publishing pod that stops, a subscription that is lost.
EntitledAreReached ==
    \A e \in Event, c \in Conns :
        LET due == [event |-> e, conn |-> c] IN
        due \in owed ~> (due \notin owed \/ HasReceived(c, e) \/ conn[c] = "closed")
=============================================================================
