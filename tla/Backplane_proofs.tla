-------------------------- MODULE Backplane_proofs --------------------------
(***************************************************************************)
(* Proofs about the backplane, for any pods, connections, publishers and   *)
(* any bound on the number of publishes.                                   *)
(***************************************************************************)
EXTENDS Backplane, TLAPS

\* entry(k).or_default().insert(v) keeps a map of sets a map of sets.
LEMMA InsertIntoType ==
    ASSUME NEW K, NEW V, NEW map, IsMapOfSets(map, K, V),
           NEW k \in K, NEW v \in V
    PROVE  IsMapOfSets(InsertInto(map, k, v), K, V)
BY DEF IsMapOfSets, InsertInto

\* So does detach's pruning loop.
LEMMA PruneConnType ==
    ASSUME NEW K, NEW V, NEW map, IsMapOfSets(map, K, V), NEW S, NEW v
    PROVE  IsMapOfSets(PruneConn(map, S, v), K, V)
BY DEF IsMapOfSets, PruneConn

\* Pushing an event into sinks keeps the sinks sequences of events.
LEMMA DeliverLocalType ==
    ASSUME delivered \in [Conns -> Seq(Event)],
           NEW p, NEW t, NEW e \in Event, DeliverLocal(p, t, e)
    PROVE  delivered' \in [Conns -> Seq(Event)]
BY DEF DeliverLocal

\* Every reachable state of the backplane has the declared shape.
THEOREM TypeCorrect == Spec => []TypeOK
<1>1. Init => TypeOK
  BY BackplaneAssumption DEF Init, TypeOK, IsMapOfSets, EmptyMap
<1>2. TypeOK /\ [Next]_vars => TypeOK'
  <2> SUFFICES ASSUME TypeOK, [Next]_vars PROVE TypeOK'
    OBVIOUS
  <2> USE BackplaneAssumption
  <2>1. ASSUME NEW p \in Pods, Connect(p) PROVE TypeOK'
    BY <2>1 DEF TypeOK, Connect, registry
  <2>2. ASSUME NEW p \in Pods, Receive(p) PROVE TypeOK'
    <3>1. Head(inbox[p]) \in BackplaneEnvelope /\ Tail(inbox[p]) \in Seq(BackplaneEnvelope)
      BY <2>2 DEF TypeOK, Receive
    <3>2. inbox' \in [Pods -> Seq(BackplaneEnvelope)]
      BY <2>2, <3>1 DEF TypeOK, Receive
    <3>3. delivered' \in [Conns -> Seq(Event)]
      BY <2>2, <3>1, DeliverLocalType DEF TypeOK, Receive, BackplaneEnvelope
    <3> QED
      BY <2>2, <3>2, <3>3 DEF TypeOK, Receive, registry
  <2>3. ASSUME NEW p \in Pods, SubscriberEnds(p) PROVE TypeOK'
    BY <2>3 DEF TypeOK, SubscriberEnds, registry
  <2>4. ASSUME NEW p \in Pods, Stop(p) PROVE TypeOK'
    BY <2>4 DEF TypeOK, Stop, IsMapOfSets, EmptyMap
  <2>5. ASSUME NEW c \in Conns, Attach(c) PROVE TypeOK'
    <3> DEFINE h == HomeOf[c]
    <3>1. h \in Pods /\ c \in Target
      BY DEF Target
    <3>2. /\ IsMapOfSets(InsertInto(conn_targets[h], c, c), Conns, Target)
          /\ IsMapOfSets(InsertInto(target_conns[h], c, c), Target, Conns)
      BY <3>1, InsertIntoType DEF TypeOK
    <3> QED
      BY <2>5, <3>1, <3>2 DEF TypeOK, Attach
  <2>6. ASSUME NEW c \in Conns, Detach(c) PROVE TypeOK'
    <3> DEFINE h == HomeOf[c]
    <3>1. h \in Pods
      OBVIOUS
    <3>2. \A S : IsMapOfSets(PruneConn(target_conns[h], S, c), Target, Conns)
      BY <3>1, PruneConnType DEF TypeOK
    <3>3. IsMapOfSets([x \in DOMAIN conn_targets[h] \ {c} |-> conn_targets[h][x]], Conns, Target)
      BY <3>1 DEF TypeOK, IsMapOfSets
    <3> QED
      BY <2>6, <3>1, <3>2, <3>3 DEF TypeOK, Detach
  <2>7. ASSUME NEW c \in Conns, NEW t \in Groups, Associate(c, t) PROVE TypeOK'
    <3> DEFINE h == HomeOf[c]
    <3>1. h \in Pods /\ t \in Target
      BY DEF Target
    <3>2. /\ IsMapOfSets(InsertInto(conn_targets[h], c, t), Conns, Target)
          /\ IsMapOfSets(InsertInto(target_conns[h], t, c), Target, Conns)
      BY <3>1, InsertIntoType DEF TypeOK
    <3> QED
      BY <2>7, <3>1, <3>2 DEF TypeOK, Associate
  <2>8. ASSUME NEW u \in Publishers, NEW t \in Target, PublishLocal(u, t) PROVE TypeOK'
    <3> DEFINE e == [pub |-> u, seq |-> Len(published[u]) + 1]
    <3>1. e \in Event
      BY <2>8 DEF TypeOK, PublishLocal, Event
    <3>2. delivered' \in [Conns -> Seq(Event)]
      BY <2>8, <3>1, DeliverLocalType DEF TypeOK, PublishLocal
    <3>3. sending' \in [Publishers -> SUBSET BackplaneEnvelope]
      BY <2>8, <3>1 DEF TypeOK, PublishLocal, BackplaneEnvelope
    <3>4. /\ published' \in [Publishers -> Seq(Target)]
          /\ \A v \in Publishers : Len(published'[v]) <= MaxPublish
      BY <2>8 DEF TypeOK, PublishLocal
    <3>5. owed' \subseteq [event : Event, conn : Conns]
      BY <2>8, <3>1 DEF TypeOK, PublishLocal, Entitled
    <3> QED
      BY <2>8, <3>2, <3>3, <3>4, <3>5 DEF TypeOK, PublishLocal, registry
  <2>9. ASSUME NEW u \in Publishers, PublishBus(u) PROVE TypeOK'
    BY <2>9 DEF TypeOK, PublishBus, registry
  <2>10. ASSUME NEW u \in Publishers, PublishBusFails(u) PROVE TypeOK'
    BY <2>10 DEF TypeOK, PublishBusFails, registry
  <2>11. CASE UNCHANGED vars
    BY <2>11 DEF TypeOK, vars
  <2> QED
    BY <2>1, <2>2, <2>3, <2>4, <2>5, <2>6, <2>7, <2>8, <2>9, <2>10, <2>11 DEF Next
<1> QED
  BY <1>1, <1>2, PTL DEF Spec
-----------------------------------------------------------------------------
(* The registry *)

\* What RegistryConsistent says of pod p, with the registry of p as parameters.
Consistent(p, S, ct, tc, open) ==
    /\ DOMAIN ct = S
    /\ S = {c \in Conns : HomeOf[c] = p /\ c \in open}
    /\ \A c \in S : c \in ct[c]
    /\ \A c \in Conns, t \in Target :
         (c \in S /\ t \in ct[c]) <=> (t \in DOMAIN tc /\ c \in tc[t])
    /\ \A t \in DOMAIN tc : tc[t] # {}

\* The connections that are open, on any pod.
OpenConns == {c \in Conns : conn[c] = "open"}

\* RegistryConsistent is a fact about each pod's own registry.
LEMMA RegistryByPod ==
    RegistryConsistent <=>
        \A p \in Pods : Consistent(p, sinks[p], conn_targets[p], target_conns[p], OpenConns)
BY DEF RegistryConsistent, Consistent, OpenConns

\* attach of a connection that the registry does not know.
LEMMA ConsistentAttach ==
    ASSUME NEW p \in Pods, NEW S, NEW ct, NEW tc, NEW open,
           IsMapOfSets(ct, Conns, Target), IsMapOfSets(tc, Target, Conns),
           Consistent(p, S, ct, tc, open),
           NEW c \in Conns, c \notin open, HomeOf[c] = p
    PROVE  Consistent(p, S \cup {c}, InsertInto(ct, c, c), InsertInto(tc, c, c), open \cup {c})
BY DEF Consistent, InsertInto, IsMapOfSets, Target

\* associate of a connection that is attached.
LEMMA ConsistentAssociate ==
    ASSUME NEW p \in Pods, NEW S, NEW ct, NEW tc, NEW open,
           IsMapOfSets(ct, Conns, Target), IsMapOfSets(tc, Target, Conns),
           Consistent(p, S, ct, tc, open),
           NEW c \in S, NEW t \in Target
    PROVE  Consistent(p, S, InsertInto(ct, c, t), InsertInto(tc, t, c), open)
BY DEF Consistent, InsertInto, IsMapOfSets, Target

\* detach of a connection that is attached.
LEMMA ConsistentDetach ==
    ASSUME NEW p \in Pods, NEW S, NEW ct, NEW tc, NEW open,
           IsMapOfSets(ct, Conns, Target), IsMapOfSets(tc, Target, Conns),
           Consistent(p, S, ct, tc, open),
           NEW c \in S
    PROVE  Consistent(p, S \ {c}, [x \in DOMAIN ct \ {c} |-> ct[x]],
                      PruneConn(tc, ct[c], c), open \ {c})
BY DEF Consistent, PruneConn, IsMapOfSets, Target

\* A pod whose connections are not the ones that open or close is not touched.
LEMMA ConsistentElsewhere ==
    ASSUME NEW p \in Pods, NEW S, NEW ct, NEW tc, NEW open, NEW open2,
           Consistent(p, S, ct, tc, open),
           \A c \in Conns : HomeOf[c] = p => (c \in open <=> c \in open2)
    PROVE  Consistent(p, S, ct, tc, open2)
BY DEF Consistent

\* No sequence of attach, associate, detach, publish, deliveries and failures
\* leaves a registry with a dangling or a missing association.
THEOREM RegistryStaysConsistent == Spec => []RegistryConsistent
<1> USE BackplaneAssumption
<1>1. Init => RegistryConsistent
  BY DEF Init, RegistryConsistent, EmptyMap
<1>2. TypeOK /\ RegistryConsistent /\ [Next]_vars => RegistryConsistent'
  <2> SUFFICES ASSUME TypeOK, RegistryConsistent, [Next]_vars
               PROVE  RegistryConsistent'
    OBVIOUS
  <2>0. \A p \in Pods : Consistent(p, sinks[p], conn_targets[p], target_conns[p], OpenConns)
    BY RegistryByPod
  <2>a. SUFFICES ASSUME NEW p \in Pods
                 PROVE  Consistent(p, sinks'[p], conn_targets'[p], target_conns'[p], OpenConns')
    BY DEF RegistryConsistent, Consistent, OpenConns
  <2>t. /\ IsMapOfSets(conn_targets[p], Conns, Target)
        /\ IsMapOfSets(target_conns[p], Target, Conns)
        /\ OpenConns \subseteq Conns
    BY DEF TypeOK, OpenConns
  <2>1. CASE UNCHANGED <<conn, registry>>
    BY <2>0, <2>1 DEF registry, OpenConns
  <2>2. ASSUME NEW q \in Pods, Stop(q) PROVE Consistent(p, sinks'[p], conn_targets'[p], target_conns'[p], OpenConns')
    <3>1. CASE p = q
      BY <2>2, <3>1 DEF Stop, Consistent, EmptyMap, OpenConns, TypeOK
    <3>2. CASE p # q
      <4>1. /\ sinks'[p] = sinks[p] /\ conn_targets'[p] = conn_targets[p]
            /\ target_conns'[p] = target_conns[p]
        BY <2>2, <3>2 DEF Stop, TypeOK
      <4>2. \A c \in Conns : HomeOf[c] = p => (c \in OpenConns <=> c \in OpenConns')
        BY <2>2, <3>2 DEF Stop, TypeOK, OpenConns
      <4> QED
        BY <2>0, <4>1, <4>2, ConsistentElsewhere
    <3> QED BY <3>1, <3>2
  <2>3. ASSUME NEW c \in Conns, Attach(c) PROVE Consistent(p, sinks'[p], conn_targets'[p], target_conns'[p], OpenConns')
    <3>0. c \notin OpenConns /\ OpenConns' = OpenConns \cup {c} /\ HomeOf[c] \in Pods
      BY <2>3 DEF Attach, TypeOK, OpenConns
    <3>1. CASE p = HomeOf[c]
      <4>1. /\ sinks'[p] = sinks[p] \cup {c}
            /\ conn_targets'[p] = InsertInto(conn_targets[p], c, c)
            /\ target_conns'[p] = InsertInto(target_conns[p], c, c)
        BY <2>3, <3>1 DEF Attach, TypeOK
      <4> QED BY <2>0, <2>t, <3>0, <3>1, <4>1, ConsistentAttach
    <3>2. CASE p # HomeOf[c]
      <4>1. /\ sinks'[p] = sinks[p] /\ conn_targets'[p] = conn_targets[p]
            /\ target_conns'[p] = target_conns[p]
        BY <2>3, <3>2 DEF Attach, TypeOK
      <4> QED BY <2>0, <3>0, <3>2, <4>1, ConsistentElsewhere
    <3> QED BY <3>1, <3>2
  <2>4. ASSUME NEW c \in Conns, Detach(c) PROVE Consistent(p, sinks'[p], conn_targets'[p], target_conns'[p], OpenConns')
    <3>0. c \in OpenConns /\ OpenConns' = OpenConns \ {c} /\ HomeOf[c] \in Pods
      BY <2>4 DEF Detach, TypeOK, OpenConns
    <3>1. CASE p = HomeOf[c]
      <4>0. c \in sinks[p] /\ c \in DOMAIN conn_targets[p]
        BY <2>0, <3>0, <3>1 DEF Consistent
      <4>1. /\ sinks'[p] = sinks[p] \ {c}
            /\ conn_targets'[p] = [x \in DOMAIN conn_targets[p] \ {c} |-> conn_targets[p][x]]
            /\ target_conns'[p] = PruneConn(target_conns[p], conn_targets[p][c], c)
        BY <2>4, <3>1, <4>0 DEF Detach, TypeOK
      <4>2. Consistent(p, sinks[p] \ {c}, [x \in DOMAIN conn_targets[p] \ {c} |-> conn_targets[p][x]],
                       PruneConn(target_conns[p], conn_targets[p][c], c), OpenConns \ {c})
        BY <2>0, <2>t, <4>0, ConsistentDetach
      <4> QED BY <3>0, <4>1, <4>2
    <3>2. CASE p # HomeOf[c]
      <4>1. /\ sinks'[p] = sinks[p] /\ conn_targets'[p] = conn_targets[p]
            /\ target_conns'[p] = target_conns[p]
        BY <2>4, <3>2 DEF Detach, TypeOK
      <4> QED BY <2>0, <3>0, <3>2, <4>1, ConsistentElsewhere
    <3> QED BY <3>1, <3>2
  <2>5. ASSUME NEW c \in Conns, NEW t \in Groups, Associate(c, t) PROVE Consistent(p, sinks'[p], conn_targets'[p], target_conns'[p], OpenConns')
    <3>0. c \in OpenConns /\ OpenConns' = OpenConns /\ HomeOf[c] \in Pods /\ t \in Target
      BY <2>5 DEF Associate, TypeOK, OpenConns, Target
    <3>1. CASE p = HomeOf[c]
      <4>0. c \in sinks[p]
        BY <2>0, <3>0, <3>1 DEF Consistent
      <4>1. /\ sinks'[p] = sinks[p]
            /\ conn_targets'[p] = InsertInto(conn_targets[p], c, t)
            /\ target_conns'[p] = InsertInto(target_conns[p], t, c)
        BY <2>5, <3>1 DEF Associate, TypeOK
      <4> QED BY <2>0, <2>t, <3>0, <4>0, <4>1, ConsistentAssociate
    <3>2. CASE p # HomeOf[c]
      <4>1. /\ sinks'[p] = sinks[p] /\ conn_targets'[p] = conn_targets[p]
            /\ target_conns'[p] = target_conns[p]
        BY <2>5, <3>2 DEF Associate, TypeOK
      <4> QED BY <2>0, <3>0, <4>1
    <3> QED BY <3>1, <3>2
  <2>6. [Next]_vars => \/ UNCHANGED <<conn, registry>>
                       \/ \E q \in Pods : Stop(q)
                       \/ \E c \in Conns : Attach(c) \/ Detach(c)
                       \/ \E c \in Conns, t \in Groups : Associate(c, t)
    BY DEF Next, vars, registry, Connect, Receive, SubscriberEnds, PublishLocal, PublishBus, PublishBusFails
  <2> QED
    BY <2>1, <2>2, <2>3, <2>4, <2>5, <2>6
<1> QED
  BY <1>1, <1>2, TypeCorrect, PTL DEF Spec
-----------------------------------------------------------------------------
(* The order of deliveries *)

\* e comes before f in the order of their publisher's calls, if they have one
\* publisher.
Before(e, f) == e.pub = f.pub => e.seq < f.seq

\* The envelope of an event that its publisher has published, as it did.
Genuine(env) ==
    LET u == env.event.pub IN
    /\ env.origin = HomeOf[u]
    /\ env.event.seq <= Len(published[u])
    /\ env.target = published[u][env.event.seq]

\* A publisher that awaits the bus awaits it for its latest event.
SendingLatest ==
    \A u \in Publishers : \A env \in sending[u] :
        /\ env.event = [pub |-> u, seq |-> Len(published[u])]
        /\ Genuine(env)

\* The bus carries published events, to each pod in the order of publication,
\* and none of them is still to be broadcast.
InboxInOrder ==
    \A p \in Pods : \A i \in 1..Len(inbox[p]) :
        /\ Genuine(inbox[p][i])
        /\ \A j \in 1..Len(inbox[p]) : i < j => Before(inbox[p][i].event, inbox[p][j].event)
        /\ \A u \in Publishers : \A env \in sending[u] : Before(inbox[p][i].event, env.event)

\* Events that have been delivered are published ones.
DeliveredArePublished ==
    \A c \in Conns : \A i \in 1..Len(delivered[c]) :
        delivered[c][i].seq <= Len(published[delivered[c][i].pub])

\* What is on its way to a connection from another pod is later than what the
\* connection has been given.
AheadOfDelivered ==
    \A c \in Conns : \A i \in 1..Len(delivered[c]) :
        /\ \A j \in 1..Len(inbox[HomeOf[c]]) :
             inbox[HomeOf[c]][j].origin # HomeOf[c]
                => Before(delivered[c][i], inbox[HomeOf[c]][j].event)
        /\ \A u \in Publishers : \A env \in sending[u] :
             HomeOf[u] # HomeOf[c] => Before(delivered[c][i], env.event)

\* The invariant that makes the order of deliveries inductive.
DeliveryInv ==
    /\ SendingLatest
    /\ InboxInOrder
    /\ DeliveredArePublished
    /\ AheadOfDelivered
    /\ InOrderAtMostOnce

\* The elements of a sequence with one more at its end.
LEMMA AppendElements ==
    ASSUME NEW S, NEW s \in Seq(S), NEW x \in S
    PROVE  /\ Len(Append(s, x)) = Len(s) + 1
           /\ \A i \in 1..Len(s) : Append(s, x)[i] = s[i]
           /\ Append(s, x)[Len(s) + 1] = x
OBVIOUS

\* The elements of a sequence without its first.
LEMMA TailElements ==
    ASSUME NEW S, NEW s \in Seq(S), s # <<>>
    PROVE  /\ Len(s) \in Nat /\ Len(s) > 0
           /\ Head(s) = s[1]
           /\ Len(Tail(s)) = Len(s) - 1
           /\ \A i \in 1..Len(Tail(s)) : Tail(s)[i] = s[i + 1]
OBVIOUS

\* A publish reaches only connections of the pod it runs on, and only ones that
\* are associated with its target.
LEMMA ReachedAreLocal ==
    ASSUME TypeOK, RegistryConsistent, NEW p \in Pods, NEW t \in Target,
           NEW c \in Reached(p, t)
    PROVE  /\ c \in Conns /\ HomeOf[c] = p
           /\ c \in DOMAIN conn_targets[p] /\ t \in conn_targets[p][c]
BY DEF Reached, RegistryConsistent, TypeOK

\* An order that holds of a sink and of what may still reach it survives a
\* delivery that is later than everything in the sink.
LEMMA AppendInOrder ==
    ASSUME NEW s \in Seq(Event), NEW e \in Event, InPublishOrder(s),
           \A i \in 1..Len(s) : Before(s[i], e)
    PROVE  InPublishOrder(Append(s, e))
<1>1. /\ Len(Append(s, e)) = Len(s) + 1
      /\ \A i \in 1..Len(s) : Append(s, e)[i] = s[i]
      /\ Append(s, e)[Len(s) + 1] = e
  BY AppendElements
<1>2. SUFFICES ASSUME NEW i \in 1..Len(s) + 1, NEW j \in 1..Len(s) + 1, i < j,
                      Append(s, e)[i].pub = Append(s, e)[j].pub
               PROVE  Append(s, e)[i].seq < Append(s, e)[j].seq
  BY <1>1 DEF InPublishOrder
<1>3. i \in 1..Len(s) /\ Len(s) \in Nat
  BY <1>2
<1>4. CASE j \in 1..Len(s)
  BY <1>1, <1>2, <1>3, <1>4 DEF InPublishOrder
<1>5. CASE j = Len(s) + 1
  BY <1>1, <1>2, <1>3, <1>5 DEF Before
<1> QED BY <1>3, <1>4, <1>5

\* Losing envelopes disturbs nothing: a failed broadcast, a lost subscription
\* and a pod that stops only take envelopes away.
LEMMA LossKeepsDelivery ==
    ASSUME TypeOK, DeliveryInv, BackplaneAssumption,
           UNCHANGED <<published, delivered>>,
           \A p \in Pods : inbox'[p] = <<>> \/ inbox'[p] = inbox[p],
           \A u \in Publishers : sending'[u] \subseteq sending[u]
    PROVE  DeliveryInv'
<1> USE DEF DeliveryInv
<1>1. SendingLatest'
  BY DEF SendingLatest, Genuine
<1>2. InboxInOrder'
  <2> SUFFICES ASSUME NEW p \in Pods, NEW i \in 1..Len(inbox'[p])
               PROVE  /\ Genuine(inbox[p][i])'
                      /\ \A j \in 1..Len(inbox'[p]) : i < j => Before(inbox'[p][i].event, inbox'[p][j].event)
                      /\ \A u \in Publishers : \A env \in sending'[u] : Before(inbox'[p][i].event, env.event)
    BY DEF InboxInOrder, Before
  <2>1. inbox'[p] = inbox[p] /\ i \in 1..Len(inbox[p])
    OBVIOUS
  <2>2. Genuine(inbox[p][i])
    BY <2>1 DEF InboxInOrder
  <2>3. Genuine(inbox[p][i])'
    BY <2>1, <2>2 DEF Genuine
  <2> QED BY <2>1, <2>3 DEF InboxInOrder
<1>3. DeliveredArePublished' /\ InOrderAtMostOnce'
  BY DEF DeliveredArePublished, InOrderAtMostOnce, InPublishOrder
<1>4. AheadOfDelivered'
  <2> SUFFICES ASSUME NEW c \in Conns, NEW i \in 1..Len(delivered[c])
               PROVE  /\ \A j \in 1..Len(inbox'[HomeOf[c]]) :
                           inbox'[HomeOf[c]][j].origin # HomeOf[c]
                             => Before(delivered[c][i], inbox'[HomeOf[c]][j].event)
                      /\ \A u \in Publishers : \A env \in sending'[u] :
                           HomeOf[u] # HomeOf[c] => Before(delivered[c][i], env.event)
    BY DEF AheadOfDelivered, Before
  <2>1. HomeOf[c] \in Pods
    BY DEF BackplaneAssumption
  <2> QED BY <2>1 DEF AheadOfDelivered
<1> QED BY <1>1, <1>2, <1>3, <1>4

\* The first half of publish: the event is the latest of its publisher.
LEMMA PublishLocalKeepsDelivery ==
    ASSUME TypeOK, RegistryConsistent, DeliveryInv,
           NEW u \in Publishers, NEW t \in Target, PublishLocal(u, t)
    PROVE  DeliveryInv'
<1> USE BackplaneAssumption DEF DeliveryInv
<1> DEFINE n == Len(published[u]) + 1
           e == [pub |-> u, seq |-> n]
           home == HomeOf[u]
           env1 == [origin |-> home, target |-> t, event |-> e]
<1>t. /\ HomeOf \in [Conns \cup Publishers -> Pods]
      /\ inbox \in [Pods -> Seq(BackplaneEnvelope)]
      /\ published \in [Publishers -> Seq(Target)]
      /\ sending \in [Publishers -> SUBSET BackplaneEnvelope]
      /\ delivered \in [Conns -> Seq(Event)]
  BY DEF TypeOK
<1>0. n \in Nat /\ n > 0 /\ e \in Event /\ home \in Pods
  <2>1. Len(published[u]) \in Nat /\ Len(published[u]) < MaxPublish /\ MaxPublish \in Nat
    BY <1>t DEF PublishLocal
  <2>2. n \in 1..MaxPublish
    BY <2>1
  <2> QED BY <1>t, <2>2 DEF Event
<1>1. /\ n \in Nat /\ n > 0 /\ e \in Event /\ home \in Pods
      /\ published' = [published EXCEPT ![u] = Append(@, t)]
      /\ sending' = [sending EXCEPT ![u] = {env1}]
      /\ sending[u] = {}
      /\ inbox' = inbox
      /\ delivered' = [c \in Conns |-> IF c \in Reached(home, t) THEN Append(delivered[c], e)
                                                                ELSE delivered[c]]
  BY <1>0 DEF PublishLocal, DeliverLocal
<1>2. /\ published'[u] = Append(published[u], t)
      /\ Len(published'[u]) = n
      /\ published'[u][n] = t
      /\ \A i \in 1..Len(published[u]) : published'[u][i] = published[u][i]
      /\ \A v \in Publishers : v # u => published'[v] = published[v]
  <2>1. published'[u] = Append(published[u], t)
    BY <1>1 DEF TypeOK
  <2> QED BY <1>1, <2>1, AppendElements DEF TypeOK
<1>3. ASSUME NEW env \in BackplaneEnvelope, Genuine(env) PROVE Genuine(env)'
  <2> DEFINE v == env.event.pub
  <2>1. v \in Publishers /\ env.event.seq \in Nat /\ env.event.seq > 0
    BY DEF BackplaneEnvelope, Event
  <2>2. published[v] \in Seq(Target) /\ env.event.seq \in 1..Len(published[v])
    BY <1>3, <2>1 DEF Genuine, TypeOK
  <2>3. env.event.seq \in 1..Len(published'[v]) /\ published'[v][env.event.seq] = published[v][env.event.seq]
    BY <1>0, <1>2, <2>1, <2>2
  <2> QED BY <1>3, <2>1, <2>3 DEF Genuine
<1>4. ASSUME NEW f \in Event, f.seq <= Len(published[f.pub])
      PROVE  f.seq <= Len(published'[f.pub]) /\ Before(f, e)
  BY <1>1, <1>2, <1>4 DEF Event, Before, TypeOK
<1>5. \A v \in Publishers : /\ v # u => sending'[v] = sending[v]
                            /\ sending'[u] = {env1}
                            /\ sending'[v] \subseteq BackplaneEnvelope
  BY <1>1 DEF TypeOK, BackplaneEnvelope
<1>6. SendingLatest'
  <2> SUFFICES ASSUME NEW v \in Publishers, NEW env \in sending'[v]
               PROVE  /\ env.event = [pub |-> v, seq |-> Len(published'[v])]
                      /\ Genuine(env)'
    BY DEF SendingLatest
  <2>1. CASE v = u
    BY <1>1, <1>2, <1>5, <2>1 DEF Genuine
  <2>2. CASE v # u
    BY <1>2, <1>3, <1>5, <2>2 DEF SendingLatest
  <2> QED BY <2>1, <2>2
<1>7. InboxInOrder'
  <2> SUFFICES ASSUME NEW p \in Pods, NEW i \in 1..Len(inbox[p])
               PROVE  /\ Genuine(inbox[p][i])'
                      /\ \A j \in 1..Len(inbox[p]) : i < j => Before(inbox[p][i].event, inbox[p][j].event)
                      /\ \A v \in Publishers : \A env \in sending'[v] : Before(inbox[p][i].event, env.event)
    BY <1>1 DEF InboxInOrder, Before
  <2>1. inbox[p][i] \in BackplaneEnvelope /\ Genuine(inbox[p][i])
    BY DEF TypeOK, InboxInOrder
  <2>2. Genuine(inbox[p][i])'
    BY <1>1, <1>3, <2>1
  <2>3. Before(inbox[p][i].event, env1.event)
    BY <1>4, <2>1 DEF Genuine, BackplaneEnvelope
  <2> QED BY <1>5, <2>2, <2>3 DEF InboxInOrder
<1>8. \A c \in Reached(home, t) : HomeOf[c] = home
  BY <1>1, ReachedAreLocal
<1>9. ASSUME NEW c \in Conns
      PROVE  /\ \A i \in 1..Len(delivered[c]) : /\ delivered[c][i] \in Event
                                                /\ delivered[c][i].seq <= Len(published[delivered[c][i].pub])
                                                /\ Before(delivered[c][i], e)
             /\ \A i \in 1..Len(delivered'[c]) :
                  \/ i \in 1..Len(delivered[c]) /\ delivered'[c][i] = delivered[c][i]
                  \/ delivered'[c][i] = e /\ HomeOf[c] = home
  <2>1. \A i \in 1..Len(delivered[c]) : /\ delivered[c][i] \in Event
                                        /\ delivered[c][i].seq <= Len(published[delivered[c][i].pub])
    <3>1. DeliveredArePublished
      OBVIOUS
    <3>2. delivered[c] \in Seq(Event)
      BY <1>t
    <3>3. \A i \in 1..Len(delivered[c]) : delivered[c][i].seq <= Len(published[delivered[c][i].pub])
      BY <3>1 DEF DeliveredArePublished
    <3> QED BY <3>2, <3>3
  <2>2. CASE c \in Reached(home, t)
    <3>1. delivered'[c] = Append(delivered[c], e) /\ delivered[c] \in Seq(Event)
      BY <1>1, <2>2 DEF TypeOK
    <3> QED BY <1>1, <1>4, <1>8, <2>1, <2>2, <3>1, AppendElements
  <2>3. CASE c \notin Reached(home, t)
    BY <1>1, <1>4, <2>1, <2>3
  <2> QED BY <2>2, <2>3
<1>10. DeliveredArePublished'
  <2> SUFFICES ASSUME NEW c \in Conns, NEW i \in 1..Len(delivered'[c])
               PROVE  delivered'[c][i].seq <= Len(published'[delivered'[c][i].pub])
    BY DEF DeliveredArePublished
  <2>1. CASE i \in 1..Len(delivered[c]) /\ delivered'[c][i] = delivered[c][i]
    BY <1>4, <1>9, <2>1
  <2>2. CASE delivered'[c][i] = e
    BY <1>0, <1>2, <2>2
  <2> QED BY <1>9, <2>1, <2>2
<1>11. InOrderAtMostOnce'
  <2> SUFFICES ASSUME NEW c \in Conns PROVE InPublishOrder(delivered'[c])
    BY DEF InOrderAtMostOnce, InPublishOrder
  <2>1. delivered'[c] \in {delivered[c], Append(delivered[c], e)}
    BY <1>1
  <2>2. InPublishOrder(delivered[c]) /\ delivered[c] \in Seq(Event)
    BY DEF InOrderAtMostOnce, TypeOK
  <2> QED BY <1>1, <1>9, <2>1, <2>2, AppendInOrder
<1>12. AheadOfDelivered'
  <2> SUFFICES ASSUME NEW c \in Conns, NEW i \in 1..Len(delivered'[c])
               PROVE  /\ \A j \in 1..Len(inbox[HomeOf[c]]) :
                           inbox[HomeOf[c]][j].origin # HomeOf[c]
                             => Before(delivered'[c][i], inbox[HomeOf[c]][j].event)
                      /\ \A v \in Publishers : \A env \in sending'[v] :
                           HomeOf[v] # HomeOf[c] => Before(delivered'[c][i], env.event)
    <3>1. inbox' = inbox
      BY <1>1
    <3> QED BY <3>1 DEF AheadOfDelivered, Before
  <2>0. HomeOf[c] \in Pods
    BY <1>t
  <2>1. CASE i \in 1..Len(delivered[c]) /\ delivered'[c][i] = delivered[c][i]
    <3>1. Before(delivered[c][i], env1.event)
      BY <1>9, <2>1
    <3> QED BY <1>5, <2>1, <3>1 DEF AheadOfDelivered
  <2>2. CASE delivered'[c][i] = e /\ HomeOf[c] = home
    <3>1. ASSUME NEW j \in 1..Len(inbox[home]), inbox[home][j].origin # home
          PROVE  inbox[home][j].event.pub # u
      BY <1>1, <3>1 DEF InboxInOrder, Genuine
    <3>2. ASSUME NEW v \in Publishers, NEW env \in sending'[v], HomeOf[v] # home
          PROVE  env.event.pub # u
      <4>1. v # u /\ env \in sending[v]
        BY <1>5, <3>2
      <4>2. env.event = [pub |-> v, seq |-> Len(published[v])]
        BY <4>1 DEF SendingLatest
      <4> QED BY <4>1, <4>2
    <3> QED BY <2>2, <3>1, <3>2 DEF Before
  <2> QED BY <1>9, <2>1, <2>2
<1> QED BY <1>6, <1>7, <1>10, <1>11, <1>12

\* The second half of publish: the envelope moves from its publisher to the end
\* of the inbox of every subscribed pod.
LEMMA PublishBusKeepsDelivery ==
    ASSUME TypeOK, DeliveryInv, NEW u \in Publishers, PublishBus(u)
    PROVE  DeliveryInv'
<1> USE BackplaneAssumption
<1>t. /\ HomeOf \in [Conns \cup Publishers -> Pods]
      /\ inbox \in [Pods -> Seq(BackplaneEnvelope)]
      /\ sending \in [Publishers -> SUBSET BackplaneEnvelope]
  BY DEF TypeOK
<1>i. SendingLatest /\ InboxInOrder /\ DeliveredArePublished /\ AheadOfDelivered /\ InOrderAtMostOnce
  BY DEF DeliveryInv
<1> PICK env \in sending[u] :
      /\ sending' = [sending EXCEPT ![u] = {}]
      /\ inbox' = [p \in Pods |->
              IF subscribed[p] = "active" THEN Append(inbox[p], env) ELSE inbox[p]]
      /\ UNCHANGED <<published, delivered>>
  BY DEF PublishBus
<1>1. env \in BackplaneEnvelope /\ env.event.pub = u /\ env.origin = HomeOf[u] /\ Genuine(env)
  <2>1. env.event = [pub |-> u, seq |-> Len(published[u])] /\ Genuine(env)
    BY <1>i DEF SendingLatest
  <2> QED BY <1>t, <2>1 DEF Genuine
<1>2. \A v \in Publishers : sending'[v] \subseteq sending[v] /\ (v = u => sending'[v] = {})
  BY <1>t
<1>3. ASSUME NEW v \in Publishers, NEW other \in sending'[v]
      PROVE  other \in sending[v] /\ other.event.pub = v /\ v # u
  <2>1. other \in sending[v] /\ v # u
    BY <1>2, <1>3
  <2>2. other.event = [pub |-> v, seq |-> Len(published[v])]
    BY <1>i, <2>1 DEF SendingLatest
  <2> QED BY <2>1, <2>2
<1>4. ASSUME NEW p \in Pods, NEW i \in 1..Len(inbox'[p])
      PROVE  \/ i \in 1..Len(inbox[p]) /\ inbox'[p][i] = inbox[p][i]
             \/ i = Len(inbox[p]) + 1 /\ inbox'[p][i] = env
  <2>1. inbox[p] \in Seq(BackplaneEnvelope) /\ Len(inbox[p]) \in Nat
    BY <1>t
  <2>2. CASE inbox'[p] = Append(inbox[p], env)
    BY <1>1, <1>4, <2>1, <2>2, AppendElements
  <2>3. CASE inbox'[p] = inbox[p]
    BY <1>4, <2>3
  <2> QED BY <2>2, <2>3
<1>5. SendingLatest'
  BY <1>i, <1>2 DEF SendingLatest, Genuine
<1>6. InboxInOrder'
  <2> SUFFICES ASSUME NEW p \in Pods, NEW i \in 1..Len(inbox'[p])
               PROVE  /\ Genuine(inbox[p][i])'
                      /\ \A j \in 1..Len(inbox'[p]) : i < j => Before(inbox'[p][i].event, inbox'[p][j].event)
                      /\ \A v \in Publishers : \A other \in sending'[v] : Before(inbox'[p][i].event, other.event)
    BY DEF InboxInOrder, Before
  <2>0. Len(inbox[p]) \in Nat
    BY <1>t
  <2>1. Genuine(inbox'[p][i])
    BY <1>i, <1>1, <1>4 DEF InboxInOrder
  <2>2. Genuine(inbox[p][i])'
    BY <2>1 DEF Genuine
  <2>3. ASSUME NEW j \in 1..Len(inbox'[p]), i < j
        PROVE  Before(inbox'[p][i].event, inbox'[p][j].event)
    <3>1. i \in 1..Len(inbox[p]) /\ inbox'[p][i] = inbox[p][i]
      BY <1>4, <2>0, <2>3
    <3>2. CASE j \in 1..Len(inbox[p]) /\ inbox'[p][j] = inbox[p][j]
      BY <1>i, <2>3, <3>1, <3>2 DEF InboxInOrder
    <3>3. CASE inbox'[p][j] = env
      BY <1>i, <3>1, <3>3 DEF InboxInOrder
    <3> QED BY <1>4, <3>2, <3>3
  <2>4. ASSUME NEW v \in Publishers, NEW other \in sending'[v]
        PROVE  Before(inbox'[p][i].event, other.event)
    <3>1. CASE i \in 1..Len(inbox[p]) /\ inbox'[p][i] = inbox[p][i]
      BY <1>i, <1>3, <2>4, <3>1 DEF InboxInOrder
    <3>2. CASE inbox'[p][i] = env
      BY <1>1, <1>3, <2>4, <3>2 DEF Before
    <3> QED BY <1>4, <3>1, <3>2
  <2> QED BY <2>2, <2>3, <2>4
<1>7. DeliveredArePublished' /\ InOrderAtMostOnce'
  BY <1>i DEF DeliveredArePublished, InOrderAtMostOnce, InPublishOrder
<1>8. AheadOfDelivered'
  <2> SUFFICES ASSUME NEW c \in Conns, NEW i \in 1..Len(delivered[c])
               PROVE  /\ \A j \in 1..Len(inbox'[HomeOf[c]]) :
                           inbox'[HomeOf[c]][j].origin # HomeOf[c]
                             => Before(delivered[c][i], inbox'[HomeOf[c]][j].event)
                      /\ \A v \in Publishers : \A other \in sending'[v] :
                           HomeOf[v] # HomeOf[c] => Before(delivered[c][i], other.event)
    <3>1. delivered' = delivered
      OBVIOUS
    <3> QED BY <3>1 DEF AheadOfDelivered
  <2>1. ASSUME NEW j \in 1..Len(inbox'[HomeOf[c]]), inbox'[HomeOf[c]][j].origin # HomeOf[c]
        PROVE  Before(delivered[c][i], inbox'[HomeOf[c]][j].event)
    <3>0. HomeOf[c] \in Pods
      BY <1>t
    <3>1. CASE j \in 1..Len(inbox[HomeOf[c]]) /\ inbox'[HomeOf[c]][j] = inbox[HomeOf[c]][j]
      BY <1>i, <2>1, <3>1 DEF AheadOfDelivered
    <3>2. CASE inbox'[HomeOf[c]][j] = env
      BY <1>i, <1>1, <2>1, <3>2 DEF AheadOfDelivered
    <3> QED BY <1>4, <3>0, <3>1, <3>2
  <2>2. ASSUME NEW v \in Publishers, NEW other \in sending'[v], HomeOf[v] # HomeOf[c]
        PROVE  Before(delivered[c][i], other.event)
    BY <1>i, <1>3, <2>2 DEF AheadOfDelivered
  <2> QED BY <2>1, <2>2
<1> QED BY <1>5, <1>6, <1>7, <1>8 DEF DeliveryInv

\* The subscriber takes an envelope that is later than all its sinks hold.
LEMMA ReceiveKeepsDelivery ==
    ASSUME TypeOK, RegistryConsistent, DeliveryInv, NEW p \in Pods, Receive(p)
    PROVE  DeliveryInv'
<1> USE BackplaneAssumption
<1> DEFINE env == Head(inbox[p])
           S == Reached(p, env.target)
<1>t. /\ HomeOf \in [Conns \cup Publishers -> Pods]
      /\ inbox \in [Pods -> Seq(BackplaneEnvelope)]
      /\ published \in [Publishers -> Seq(Target)]
      /\ delivered \in [Conns -> Seq(Event)]
  BY DEF TypeOK
<1>i. SendingLatest /\ InboxInOrder /\ DeliveredArePublished /\ AheadOfDelivered /\ InOrderAtMostOnce
  BY DEF DeliveryInv
<1>1. /\ inbox[p] # <<>>
      /\ inbox' = [inbox EXCEPT ![p] = Tail(@)]
      /\ UNCHANGED <<published, sending>>
      /\ env.origin = p => delivered' = delivered
      /\ env.origin # p => delivered' = [c \in Conns |->
             IF c \in S THEN Append(delivered[c], env.event) ELSE delivered[c]]
  BY DEF Receive, DeliverLocal
<1>2. /\ Len(inbox[p]) \in Nat /\ Len(inbox[p]) > 0 /\ 1 \in 1..Len(inbox[p])
      /\ env = inbox[p][1] /\ env \in BackplaneEnvelope
      /\ inbox'[p] = Tail(inbox[p])
      /\ \A i \in 1..Len(inbox'[p]) : i + 1 \in 1..Len(inbox[p]) /\ inbox'[p][i] = inbox[p][i + 1]
  <2>1. inbox[p] \in Seq(BackplaneEnvelope) /\ inbox'[p] = Tail(inbox[p])
    BY <1>t, <1>1
  <2>2. /\ Len(inbox[p]) \in Nat /\ Len(inbox[p]) > 0
        /\ Head(inbox[p]) = inbox[p][1]
        /\ Len(Tail(inbox[p])) = Len(inbox[p]) - 1
        /\ \A i \in 1..Len(Tail(inbox[p])) : Tail(inbox[p])[i] = inbox[p][i + 1]
    BY <1>1, <2>1, TailElements
  <2> QED BY <2>1, <2>2
<1>3. \A q \in Pods : q # p => inbox'[q] = inbox[q]
  BY <1>t, <1>1
<1>4. Genuine(env)
  BY <1>i, <1>2 DEF InboxInOrder
<1>5. ASSUME NEW c \in Conns, NEW i \in 1..Len(delivered'[c])
      PROVE  \/ i \in 1..Len(delivered[c]) /\ delivered'[c][i] = delivered[c][i]
             \/ env.origin # p /\ c \in S /\ HomeOf[c] = p /\ delivered'[c][i] = env.event
  <2>1. delivered[c] \in Seq(Event) /\ Len(delivered[c]) \in Nat /\ env.event \in Event /\ env.target \in Target
    BY <1>t, <1>2 DEF BackplaneEnvelope
  <2>2. CASE env.origin # p /\ c \in S
    <3>1. delivered'[c] = Append(delivered[c], env.event)
      BY <1>1, <2>2
    <3>2. HomeOf[c] = p
      BY <2>1, <2>2, ReachedAreLocal
    <3> QED BY <1>5, <2>1, <2>2, <3>1, <3>2, AppendElements
  <2>3. CASE ~(env.origin # p /\ c \in S)
    BY <1>1, <1>5, <2>3
  <2> QED BY <2>2, <2>3
<1>6. SendingLatest'
  BY <1>i, <1>1 DEF SendingLatest, Genuine
<1>7. InboxInOrder'
  <2> SUFFICES ASSUME NEW q \in Pods, NEW i \in 1..Len(inbox'[q])
               PROVE  /\ Genuine(inbox[q][i])'
                      /\ \A j \in 1..Len(inbox'[q]) : i < j => Before(inbox'[q][i].event, inbox'[q][j].event)
                      /\ \A v \in Publishers : \A other \in sending[v] : Before(inbox'[q][i].event, other.event)
    BY <1>1 DEF InboxInOrder, Before
  <2>1. PICK k \in {0, 1} : \A j \in 1..Len(inbox'[q]) :
                               j + k \in 1..Len(inbox[q]) /\ inbox'[q][j] = inbox[q][j + k]
    <3>1. CASE q = p
      BY <1>2, <3>1
    <3>2. CASE q # p
      BY <1>t, <1>3, <3>2
    <3> QED BY <3>1, <3>2
  <2>2. Genuine(inbox'[q][i])
    BY <1>i, <2>1 DEF InboxInOrder
  <2>3. Genuine(inbox[q][i])'
    BY <1>1, <2>2 DEF Genuine
  <2>4. ASSUME NEW j \in 1..Len(inbox'[q]), i < j
        PROVE  Before(inbox'[q][i].event, inbox'[q][j].event)
    <3>1. /\ i + k \in 1..Len(inbox[q]) /\ j + k \in 1..Len(inbox[q]) /\ i + k < j + k
      BY <2>1, <2>4
    <3>2. Before(inbox[q][i + k].event, inbox[q][j + k].event)
      BY <1>i, <3>1 DEF InboxInOrder
    <3> QED BY <2>1, <3>2
  <2>5. ASSUME NEW v \in Publishers, NEW other \in sending[v]
        PROVE  Before(inbox'[q][i].event, other.event)
    BY <1>i, <2>1, <2>5 DEF InboxInOrder
  <2> QED BY <2>3, <2>4, <2>5
<1>8. DeliveredArePublished'
  <2> SUFFICES ASSUME NEW c \in Conns, NEW i \in 1..Len(delivered'[c])
               PROVE  delivered'[c][i].seq <= Len(published[delivered'[c][i].pub])
    BY <1>1 DEF DeliveredArePublished
  <2>1. CASE i \in 1..Len(delivered[c]) /\ delivered'[c][i] = delivered[c][i]
    BY <1>i, <2>1 DEF DeliveredArePublished
  <2>2. CASE delivered'[c][i] = env.event
    BY <1>4, <2>2 DEF Genuine
  <2> QED BY <1>5, <2>1, <2>2
<1>9. InOrderAtMostOnce'
  <2> SUFFICES ASSUME NEW c \in Conns PROVE InPublishOrder(delivered'[c])
    BY DEF InOrderAtMostOnce, InPublishOrder
  <2>1. InPublishOrder(delivered[c]) /\ delivered[c] \in Seq(Event)
    BY <1>i, <1>t DEF InOrderAtMostOnce
  <2>2. CASE delivered'[c] = delivered[c]
    BY <2>1, <2>2
  <2>3. CASE env.origin # p /\ c \in S
    <3>1. delivered'[c] = Append(delivered[c], env.event) /\ env.event \in Event /\ env.target \in Target
      BY <1>1, <1>2, <2>3 DEF BackplaneEnvelope
    <3>2. HomeOf[c] = p
      BY <2>3, <3>1, ReachedAreLocal
    <3>3. \A i \in 1..Len(delivered[c]) : Before(delivered[c][i], env.event)
      BY <1>i, <1>2, <2>3, <3>2 DEF AheadOfDelivered
    <3> QED BY <2>1, <3>1, <3>3, AppendInOrder
  <2> QED BY <1>1, <2>2, <2>3
<1>10. AheadOfDelivered'
  <2> SUFFICES ASSUME NEW c \in Conns, NEW i \in 1..Len(delivered'[c])
               PROVE  /\ \A j \in 1..Len(inbox'[HomeOf[c]]) :
                           inbox'[HomeOf[c]][j].origin # HomeOf[c]
                             => Before(delivered'[c][i], inbox'[HomeOf[c]][j].event)
                      /\ \A v \in Publishers : \A other \in sending[v] :
                           HomeOf[v] # HomeOf[c] => Before(delivered'[c][i], other.event)
    BY <1>1 DEF AheadOfDelivered, Before
  <2>0. HomeOf[c] \in Pods
    BY <1>t
  <2>1. CASE i \in 1..Len(delivered[c]) /\ delivered'[c][i] = delivered[c][i]
    <3>1. ASSUME NEW j \in 1..Len(inbox'[HomeOf[c]]), inbox'[HomeOf[c]][j].origin # HomeOf[c]
          PROVE  Before(delivered[c][i], inbox'[HomeOf[c]][j].event)
      <4>1. CASE HomeOf[c] = p
        <5>1. j + 1 \in 1..Len(inbox[p]) /\ inbox'[p][j] = inbox[p][j + 1]
          BY <1>2, <3>1, <4>1
        <5> QED BY <1>i, <2>1, <3>1, <4>1, <5>1 DEF AheadOfDelivered
      <4>2. CASE HomeOf[c] # p
        <5>1. inbox'[HomeOf[c]] = inbox[HomeOf[c]]
          BY <1>3, <2>0, <4>2
        <5> QED BY <1>i, <2>1, <3>1, <5>1 DEF AheadOfDelivered
      <4> QED BY <4>1, <4>2
    <3> QED BY <1>i, <2>1, <3>1 DEF AheadOfDelivered
  <2>2. CASE env.origin # p /\ HomeOf[c] = p /\ delivered'[c][i] = env.event
    <3>1. ASSUME NEW j \in 1..Len(inbox'[p])
          PROVE  Before(env.event, inbox'[p][j].event)
      <4>1. j + 1 \in 1..Len(inbox[p]) /\ 1 < j + 1 /\ inbox'[p][j] = inbox[p][j + 1]
        BY <1>2
      <4>2. Before(inbox[p][1].event, inbox[p][j + 1].event)
        BY <1>i, <1>2, <4>1 DEF InboxInOrder
      <4> QED BY <1>2, <4>1, <4>2
    <3>2. ASSUME NEW v \in Publishers, NEW other \in sending[v]
          PROVE  Before(env.event, other.event)
      BY <1>i, <1>2 DEF InboxInOrder
    <3> QED BY <2>2, <3>1, <3>2
  <2> QED BY <1>5, <2>1, <2>2
<1> QED BY <1>6, <1>7, <1>8, <1>9, <1>10 DEF DeliveryInv

\* Every step keeps the delivery invariant.
LEMMA StepKeepsDelivery ==
    TypeOK /\ RegistryConsistent /\ DeliveryInv /\ [Next]_vars => DeliveryInv'
<1> SUFFICES ASSUME TypeOK, RegistryConsistent, DeliveryInv, [Next]_vars PROVE DeliveryInv'
  OBVIOUS
<1>1. ASSUME UNCHANGED <<inbox, published, sending, delivered>> PROVE DeliveryInv'
  BY <1>1, LossKeepsDelivery, BackplaneAssumption
<1>2. ASSUME NEW p \in Pods, Receive(p) PROVE DeliveryInv'
  BY <1>2, ReceiveKeepsDelivery
<1>3. ASSUME NEW p \in Pods, SubscriberEnds(p) \/ Stop(p) PROVE DeliveryInv'
  <2>1. /\ UNCHANGED <<published, delivered>>
        /\ \A q \in Pods : inbox'[q] = <<>> \/ inbox'[q] = inbox[q]
    BY <1>3 DEF SubscriberEnds, Stop, TypeOK
  <2>2. \A u \in Publishers : sending'[u] \subseteq sending[u]
    BY <1>3 DEF SubscriberEnds, Stop
  <2> QED BY <2>1, <2>2, LossKeepsDelivery, BackplaneAssumption
<1>4. ASSUME NEW u \in Publishers, NEW t \in Target, PublishLocal(u, t) PROVE DeliveryInv'
  BY <1>4, PublishLocalKeepsDelivery
<1>5. ASSUME NEW u \in Publishers, PublishBus(u) PROVE DeliveryInv'
  BY <1>5, PublishBusKeepsDelivery
<1>6. ASSUME NEW u \in Publishers, PublishBusFails(u) PROVE DeliveryInv'
  <2>1. UNCHANGED <<published, delivered, inbox>> /\ \A v \in Publishers : sending'[v] \subseteq sending[v]
    BY <1>6 DEF PublishBusFails, TypeOK
  <2> QED BY <2>1, LossKeepsDelivery, BackplaneAssumption
<1>7. [Next]_vars => \/ UNCHANGED <<inbox, published, sending, delivered>>
                     \/ \E p \in Pods : Receive(p) \/ SubscriberEnds(p) \/ Stop(p)
                     \/ \E u \in Publishers, t \in Target : PublishLocal(u, t)
                     \/ \E u \in Publishers : PublishBus(u) \/ PublishBusFails(u)
  BY DEF Next, vars, Connect, Attach, Detach, Associate
<1> QED BY <1>1, <1>2, <1>3, <1>4, <1>5, <1>6, <1>7

\* The delivery invariant holds throughout: nothing on the bus, and nothing a
\* publisher still awaits, is older than what its receivers have.
THEOREM DeliveryIsOrdered == Spec => []DeliveryInv
<1>1. Init => DeliveryInv
  BY DEF Init, DeliveryInv, SendingLatest, InboxInOrder, DeliveredArePublished, AheadOfDelivered,
         InOrderAtMostOnce, InPublishOrder, BackplaneAssumption
<1> QED
  BY <1>1, StepKeepsDelivery, TypeCorrect, RegistryStaysConsistent, PTL DEF Spec

\* No connection sees an event of a publisher twice, or after a later one.
THEOREM InOrderAtMostOnceHolds == Spec => []InOrderAtMostOnce
<1>1. DeliveryInv => InOrderAtMostOnce
  BY DEF DeliveryInv
<1> QED BY <1>1, DeliveryIsOrdered, PTL
-----------------------------------------------------------------------------
(* The fan-out that the trait promises *)

\* The value of Fanout's variable member.
Members == [c \in Conns |-> MemberOf(c)]

\* A connection that is not open belongs to nothing.
LEMMA OnlyOpenConnsBelong ==
    ASSUME TypeOK, RegistryConsistent, NEW c \in Conns
    PROVE  /\ conn[c] = "open" => c \in DOMAIN conn_targets[HomeOf[c]] /\ MemberOf(c) = conn_targets[HomeOf[c]][c]
           /\ conn[c] # "open" => c \notin DOMAIN conn_targets[HomeOf[c]] /\ MemberOf(c) = {}
<1>1. HomeOf[c] \in Pods
  BY BackplaneAssumption
<1>2. c \in DOMAIN conn_targets[HomeOf[c]] <=> conn[c] = "open"
  BY <1>1 DEF RegistryConsistent
<1> QED BY <1>2 DEF MemberOf

\* A step that leaves the registries alone leaves the memberships alone.
LEMMA SameRegistrySameMembers ==
    ASSUME UNCHANGED registry
    PROVE  Members' = Members
BY DEF Members, MemberOf, registry

\* An insertion under one key leaves the others alone.
LEMMA InsertElsewhere ==
    ASSUME NEW map, NEW k, NEW v, NEW x, x # k
    PROVE  /\ x \in DOMAIN InsertInto(map, k, v) <=> x \in DOMAIN map
           /\ x \in DOMAIN map => InsertInto(map, k, v)[x] = map[x]
BY DEF InsertInto

\* attach is Join.
LEMMA AttachIsJoin ==
    ASSUME TypeOK, RegistryConsistent, NEW c \in Conns, Attach(c)
    PROVE  Abstract!Join(c)
<1> USE BackplaneAssumption
<1> DEFINE h == HomeOf[c]
<1>1. c \notin DOMAIN conn_targets[h] /\ h \in Pods
  BY OnlyOpenConnsBelong DEF Attach
<1>2. conn_targets' = [conn_targets EXCEPT ![h] = InsertInto(@, c, c)]
  BY DEF Attach
<1>3. conn_targets'[h] = InsertInto(conn_targets[h], c, c)
      /\ \A q \in Pods : q # h => conn_targets'[q] = conn_targets[q]
  BY <1>1, <1>2 DEF TypeOK
<1>4. MemberOf(c)' = {c}
  BY <1>1, <1>3 DEF MemberOf, InsertInto
<1>5. ASSUME NEW d \in Conns, d # c PROVE MemberOf(d)' = MemberOf(d)
  <2>1. CASE HomeOf[d] = h
    BY <1>3, <1>5, <2>1, InsertElsewhere DEF MemberOf
  <2>2. CASE HomeOf[d] # h
    BY <1>3, <2>2 DEF MemberOf
  <2> QED BY <2>1, <2>2
<1>6. Members' = [Members EXCEPT ![c] = {c}]
  BY <1>4, <1>5 DEF Members
<1> QED BY <1>6 DEF Attach, Abstract!Join, Members

\* associate is Enter.
LEMMA AssociateIsEnter ==
    ASSUME TypeOK, RegistryConsistent, NEW c \in Conns, NEW t \in Groups, Associate(c, t)
    PROVE  Abstract!Enter(c, t)
<1> USE BackplaneAssumption
<1> DEFINE h == HomeOf[c]
<1>1. c \in DOMAIN conn_targets[h] /\ h \in Pods
  BY OnlyOpenConnsBelong DEF Associate
<1>2. conn_targets' = [conn_targets EXCEPT ![h] = InsertInto(@, c, t)]
  BY DEF Associate
<1>3. conn_targets'[h] = InsertInto(conn_targets[h], c, t)
      /\ \A q \in Pods : q # h => conn_targets'[q] = conn_targets[q]
  BY <1>1, <1>2 DEF TypeOK
<1>4. MemberOf(c)' = MemberOf(c) \cup {t}
  BY <1>1, <1>3 DEF MemberOf, InsertInto
<1>5. ASSUME NEW d \in Conns, d # c PROVE MemberOf(d)' = MemberOf(d)
  <2>1. CASE HomeOf[d] = h
    BY <1>3, <1>5, <2>1, InsertElsewhere DEF MemberOf
  <2>2. CASE HomeOf[d] # h
    BY <1>3, <2>2 DEF MemberOf
  <2> QED BY <2>1, <2>2
<1>6. Members' = [Members EXCEPT ![c] = @ \cup {t}]
  BY <1>4, <1>5 DEF Members
<1> QED BY <1>6 DEF Associate, Abstract!Enter, Members

\* A step that closes the connections of S and touches the memberships of no
\* other connection is Leave(S): a closed connection belongs to nothing.
LEMMA ClosingIsLeave ==
    ASSUME TypeOK, RegistryConsistent, TypeOK', RegistryConsistent',
           NEW S \in SUBSET Conns, \A c \in S : conn[c] = "open",
           conn' = [c \in Conns |-> IF c \in S THEN "closed" ELSE conn[c]],
           UNCHANGED <<published, delivered>>,
           \A c \in Conns \ S : MemberOf(c)' = MemberOf(c)
    PROVE  Abstract!Leave(S)
<1>1. \A c \in S : MemberOf(c)' = {}
  <2> SUFFICES ASSUME NEW c \in S PROVE MemberOf(c)' = {}
    OBVIOUS
  <2>1. conn'[c] # "open" /\ HomeOf[c] \in Pods
    BY BackplaneAssumption
  <2>2. c \notin DOMAIN conn_targets'[HomeOf[c]]
    BY <2>1 DEF RegistryConsistent
  <2> QED BY <2>2 DEF MemberOf
<1>2. Members' = [c \in Conns |-> IF c \in S THEN {} ELSE Members[c]]
  BY <1>1 DEF Members
<1> QED BY <1>2 DEF Abstract!Leave, Members

\* detach is the Leave of one connection.
LEMMA DetachIsLeave ==
    ASSUME TypeOK, RegistryConsistent, TypeOK', RegistryConsistent',
           NEW c \in Conns, Detach(c)
    PROVE  Abstract!Leave({c})
<1> USE BackplaneAssumption
<1> DEFINE h == HomeOf[c]
<1>1. conn' = [d \in Conns |-> IF d \in {c} THEN "closed" ELSE conn[d]]
  BY DEF Detach, TypeOK
<1>2. h \in Pods /\ conn_targets'[h] = [x \in DOMAIN conn_targets[h] \ {c} |-> conn_targets[h][x]]
      /\ \A q \in Pods : q # h => conn_targets'[q] = conn_targets[q]
  BY DEF Detach, TypeOK
<1>3. ASSUME NEW d \in Conns \ {c} PROVE MemberOf(d)' = MemberOf(d)
  <2>1. CASE HomeOf[d] = h
    BY <1>2, <2>1 DEF MemberOf
  <2>2. CASE HomeOf[d] # h
    BY <1>2, <2>2 DEF MemberOf
  <2> QED BY <2>1, <2>2
<1>4. conn[c] = "open" /\ UNCHANGED <<published, delivered>>
  BY DEF Detach
<1> QED BY <1>1, <1>3, <1>4, ClosingIsLeave

\* The end of a pod is the Leave of all its open connections.
LEMMA StopIsLeave ==
    ASSUME TypeOK, RegistryConsistent, TypeOK', RegistryConsistent',
           NEW p \in Pods, Stop(p)
    PROVE  Abstract!Leave({c \in Conns : HomeOf[c] = p /\ conn[c] = "open"})
<1> USE BackplaneAssumption
<1> DEFINE S == {c \in Conns : HomeOf[c] = p /\ conn[c] = "open"}
<1>1. conn' = [c \in Conns |-> IF c \in S THEN "closed" ELSE conn[c]] /\ UNCHANGED <<published, delivered>>
  BY DEF Stop
<1>2. \A q \in Pods : q # p => conn_targets'[q] = conn_targets[q]
  BY DEF Stop, TypeOK
<1>3. ASSUME NEW c \in Conns \ S PROVE MemberOf(c)' = MemberOf(c)
  <2>1. CASE HomeOf[c] = p
    <3>1. conn[c] # "open" /\ conn_targets'[p] = EmptyMap
      BY <2>1 DEF Stop, TypeOK
    <3>2. MemberOf(c) = {}
      BY <3>1, OnlyOpenConnsBelong
    <3> QED BY <2>1, <3>1, <3>2 DEF MemberOf, EmptyMap
  <2>2. CASE HomeOf[c] # p
    BY <1>2, <2>2 DEF MemberOf
  <2> QED BY <2>1, <2>2
<1>4. S \in SUBSET Conns /\ \A c \in S : conn[c] = "open"
  OBVIOUS
<1> QED BY <1>1, <1>3, <1>4, ClosingIsLeave

\* Local deliveries of publish are a Publish to the connections it reaches.
LEMMA PublishLocalIsPublish ==
    ASSUME TypeOK, RegistryConsistent, DeliveryInv,
           NEW u \in Publishers, NEW t \in Target, PublishLocal(u, t)
    PROVE  Abstract!Publish(u, t, Reached(HomeOf[u], t))
<1> USE BackplaneAssumption
<1> DEFINE e == [pub |-> u, seq |-> Len(published[u]) + 1]
           S == Reached(HomeOf[u], t)
<1>1. ASSUME NEW c \in S PROVE Abstract!MayReceive(c, e, t)
  <2>1. c \in Conns /\ HomeOf[u] \in Pods /\ HomeOf[c] = HomeOf[u] /\ t \in MemberOf(c)
    BY ReachedAreLocal DEF MemberOf
  <2>2. ASSUME NEW i \in 1..Len(delivered[c]), delivered[c][i].pub = e.pub PROVE delivered[c][i].seq < e.seq
    <3>1. delivered[c][i].seq <= Len(published[delivered[c][i].pub])
      BY <2>1 DEF DeliveryInv, DeliveredArePublished
    <3>2. delivered[c][i].seq \in Nat /\ Len(published[u]) \in Nat
      <4>1. delivered[c] \in Seq(Event) /\ published[u] \in Seq(Target)
        BY <2>1 DEF TypeOK
      <4>2. delivered[c][i] \in Event
        BY <4>1
      <4> QED BY <4>1, <4>2 DEF Event
    <3> QED BY <2>2, <3>1, <3>2
  <2> QED BY <2>1, <2>2 DEF Abstract!MayReceive
<1>2. Members' = Members
  BY SameRegistrySameMembers DEF PublishLocal, registry
<1>3. /\ Len(published[u]) < MaxPublish
      /\ published' = [published EXCEPT ![u] = Append(@, t)]
      /\ delivered' = [c \in Conns |-> IF c \in S THEN Append(delivered[c], e) ELSE delivered[c]]
      /\ conn' = conn
  BY DEF PublishLocal, DeliverLocal
<1> QED BY <1>1, <1>2, <1>3 DEF Abstract!Publish, Abstract!GiveTo, Members

\* The subscriber's delivery is a Deliver to the connections it reaches.
LEMMA ReceiveIsDeliver ==
    ASSUME TypeOK, RegistryConsistent, DeliveryInv, NEW p \in Pods, Receive(p),
           Head(inbox[p]).origin # p
    PROVE  \E u \in Publishers, S \in SUBSET Conns :
             \E n \in 1..Len(published[u]) : Abstract!Deliver(u, n, S)
<1> USE BackplaneAssumption
<1> DEFINE env == Head(inbox[p])
           e == env.event
           S == Reached(p, env.target)
<1>1. inbox[p] \in Seq(BackplaneEnvelope) /\ inbox[p] # <<>>
  BY DEF TypeOK, Receive
<1>2. env = inbox[p][1] /\ 1 \in 1..Len(inbox[p]) /\ env \in BackplaneEnvelope
  BY <1>1, TailElements
<1>3. Genuine(env)
  BY <1>2 DEF DeliveryInv, InboxInOrder
<1>4. /\ e.pub \in Publishers /\ e.seq \in 1..Len(published[e.pub])
      /\ e = [pub |-> e.pub, seq |-> e.seq]
      /\ env.target = published[e.pub][e.seq] /\ env.target \in Target
  BY <1>2, <1>3 DEF Genuine, BackplaneEnvelope, Event, TypeOK
<1>5. ASSUME NEW c \in S PROVE Abstract!MayReceive(c, e, env.target)
  <2>1. c \in Conns /\ HomeOf[c] = p /\ env.target \in MemberOf(c)
    BY <1>4, ReachedAreLocal DEF MemberOf
  <2>2. \A i \in 1..Len(delivered[c]) : Before(delivered[c][i], e)
    BY <1>2, <2>1 DEF DeliveryInv, AheadOfDelivered
  <2> QED BY <2>1, <2>2 DEF Abstract!MayReceive, Before
<1>6. Members' = Members
  BY SameRegistrySameMembers DEF Receive, registry
<1>7. /\ delivered' = [c \in Conns |-> IF c \in S THEN Append(delivered[c], e) ELSE delivered[c]]
      /\ conn' = conn /\ published' = published
  BY DEF Receive, DeliverLocal
<1>8. Abstract!Deliver(e.pub, e.seq, S)
  BY <1>4, <1>5, <1>6, <1>7 DEF Abstract!Deliver, Abstract!GiveTo, Members
<1>9. S \in SUBSET Conns
  BY DEF Reached
<1> QED BY <1>4, <1>8, <1>9

\* The pods, their registries and the bus implement the fan-out: the mapping
\* takes each connection's associations for its memberships, attach, associate,
\* detach and the two deliveries to steps of Fanout, and every other step to
\* none.
THEOREM BackplaneImplementsFanout == Spec => ImplementsFanout
<1> USE BackplaneAssumption
<1>1. Init => Abstract!FInit
  BY DEF Init, Abstract!FInit, MemberOf, EmptyMap
<1>2. /\ TypeOK /\ RegistryConsistent /\ DeliveryInv
      /\ TypeOK' /\ RegistryConsistent' /\ [Next]_vars
      => [Abstract!FNext]_(Abstract!fvars)
  <2> SUFFICES ASSUME TypeOK, RegistryConsistent, DeliveryInv, TypeOK', RegistryConsistent', [Next]_vars
               PROVE  Abstract!FNext \/ UNCHANGED Abstract!fvars
    OBVIOUS
  <2>1. ASSUME UNCHANGED <<conn, registry, published, delivered>> PROVE UNCHANGED Abstract!fvars
    <3>1. Members' = Members
      BY <2>1, SameRegistrySameMembers
    <3> QED BY <2>1, <3>1 DEF Abstract!fvars, Members
  <2>2. ASSUME NEW c \in Conns, Attach(c) PROVE Abstract!FNext
    BY <2>2, AttachIsJoin DEF Abstract!FNext
  <2>3. ASSUME NEW c \in Conns, Detach(c) PROVE Abstract!FNext
    BY <2>3, DetachIsLeave DEF Abstract!FNext
  <2>4. ASSUME NEW c \in Conns, NEW t \in Groups, Associate(c, t) PROVE Abstract!FNext
    BY <2>4, AssociateIsEnter DEF Abstract!FNext
  <2>5. ASSUME NEW p \in Pods, Stop(p) PROVE Abstract!FNext
    BY <2>5, StopIsLeave DEF Abstract!FNext
  <2>6. ASSUME NEW u \in Publishers, NEW t \in Target, PublishLocal(u, t) PROVE Abstract!FNext
    <3>1. Reached(HomeOf[u], t) \in SUBSET Conns /\ t \in Abstract!Targets
      BY DEF Reached, Target, Abstract!Targets
    <3> QED BY <2>6, <3>1, PublishLocalIsPublish DEF Abstract!FNext
  <2>7. ASSUME NEW p \in Pods, Receive(p) PROVE Abstract!FNext \/ UNCHANGED Abstract!fvars
    <3>1. CASE Head(inbox[p]).origin = p
      <4>1. UNCHANGED <<conn, registry, published, delivered>>
        BY <2>7, <3>1 DEF Receive
      <4> QED BY <2>1, <4>1
    <3>2. CASE Head(inbox[p]).origin # p
      BY <2>7, <3>2, ReceiveIsDeliver DEF Abstract!FNext
    <3> QED BY <3>1, <3>2
  <2>8. [Next]_vars => \/ UNCHANGED <<conn, registry, published, delivered>>
                       \/ \E p \in Pods : Receive(p) \/ Stop(p)
                       \/ \E c \in Conns : Attach(c) \/ Detach(c)
                       \/ \E c \in Conns, t \in Groups : Associate(c, t)
                       \/ \E u \in Publishers, t \in Target : PublishLocal(u, t)
    BY DEF Next, vars, registry, Connect, SubscriberEnds, PublishBus, PublishBusFails
  <2> QED BY <2>1, <2>2, <2>3, <2>4, <2>5, <2>6, <2>7, <2>8
<1> QED
  BY <1>1, <1>2, TypeCorrect, RegistryStaysConsistent, DeliveryIsOrdered, PTL
     DEF Spec, ImplementsFanout, Abstract!Spec
=============================================================================
