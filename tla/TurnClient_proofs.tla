-------------------------- MODULE TurnClient_proofs --------------------------
(* What holds of the client for any number of dials, turns and requests.   *)
EXTENDS TurnClient, SequenceTheorems, TLAPS

\* A call of close() leaves a state of a socket, and no live one.
LEMMA ClosedIsState ==
    ASSUME NEW x \in {"none", "connecting", "open", "aborting", "closing", "closed"}
    PROVE  /\ Closed(x) \in {"none", "connecting", "open", "aborting", "closing", "closed"}
           /\ Closed(x) \notin {"connecting", "open"}
  BY DEF Closed

\* Ending a set of turns keeps the types of the turns' state.
LEMMA FinishTypes ==
    ASSUME TypeOK, NEW T \in SUBSET Turns, Finish(T, "error")
    PROVE  /\ turns' \subseteq Turns
           /\ queue' \in [Turns -> Seq(Event)]
           /\ waiter' \in [Turns -> BOOLEAN]
           /\ timeoutTimer' \in [Turns -> BOOLEAN]
           /\ outcome' \in [Turns -> {"none", "open", "final", "error"}]
           /\ got' \in [Turns -> Seq(Event)]
           /\ ended' \in [Turns -> {"no", "done", "thrown"}]
  BY DEF TypeOK, Finish, Settle

\* So does failAll, for the requests too.
LEMMA FailAllTypes ==
    ASSUME TypeOK, FailAll
    PROVE  /\ turns' \subseteq Turns
           /\ queue' \in [Turns -> Seq(Event)]
           /\ waiter' \in [Turns -> BOOLEAN]
           /\ timeoutTimer' \in [Turns -> BOOLEAN]
           /\ outcome' \in [Turns -> {"none", "open", "final", "error"}]
           /\ got' \in [Turns -> Seq(Event)]
           /\ ended' \in [Turns -> {"no", "done", "thrown"}]
           /\ pending' \subseteq Requests
           /\ answer' \in [Requests -> {"none", "waiting", "ok", "error"}]
<1>1. {t \in turns : ~Done(t)} \in SUBSET Turns
  BY DEF TypeOK
<1>2. Finish({t \in turns : ~Done(t)}, "error")
  BY DEF FailAll
<1>3. pending' \subseteq Requests /\ answer' \in [Requests -> {"none", "waiting", "ok", "error"}]
  BY DEF FailAll, TypeOK
<1> QED
  BY <1>1, <1>2, <1>3, FinishTypes

\* An event pushed into a turn keeps the types of its state.
LEMMA PushTypes ==
    ASSUME TypeOK, NEW t \in Turns, NEW e \in Event, Push(t, e)
    PROVE  /\ turns' \subseteq Turns
           /\ queue' \in [Turns -> Seq(Event)]
           /\ waiter' \in [Turns -> BOOLEAN]
           /\ timeoutTimer' \in [Turns -> BOOLEAN]
           /\ outcome' \in [Turns -> {"none", "open", "final", "error"}]
           /\ got' \in [Turns -> Seq(Event)]
           /\ ended' \in [Turns -> {"no", "done", "thrown"}]
<1>1. CASE Done(t)
  BY <1>1 DEF Push, turnState, TypeOK
<1>2. CASE ~Done(t)
  <2>1. Deliver(t, e) /\ Settle(IF e.type \in Terminal THEN {t} ELSE {}, e.type) /\ ended' = ended
    BY <1>2 DEF Push
  <2>2. /\ queue' \in [Turns -> Seq(Event)]
        /\ got' \in [Turns -> Seq(Event)]
        /\ waiter' \in [Turns -> BOOLEAN]
    <3>1. CASE waiter[t] /\ waiter' = [waiter EXCEPT ![t] = FALSE]
               /\ got' = [got EXCEPT ![t] = Append(@, e)] /\ queue' = queue
      BY <3>1 DEF TypeOK
    <3>2. CASE queue' = [queue EXCEPT ![t] = Append(@, e)]
               /\ got' = got /\ waiter' = waiter
      BY <3>2 DEF TypeOK
    <3> QED
      BY <2>1, <3>1, <3>2 DEF Deliver
  <2>3. /\ turns' \subseteq Turns
        /\ timeoutTimer' \in [Turns -> BOOLEAN]
        /\ outcome' \in [Turns -> {"none", "open", "final", "error"}]
    <3>1. CASE e.type \in Terminal
      BY <2>1, <3>1 DEF Settle, TypeOK, Terminal
    <3>2. CASE e.type \notin Terminal
      BY <2>1, <3>2 DEF Settle, TypeOK
    <3> QED
      BY <3>1, <3>2
  <2> QED
    BY <2>1, <2>2, <2>3 DEF TypeOK
<1> QED
  BY <1>1, <1>2

\* Every step keeps the types.
LEMMA TypeStep ==
    ASSUME TypeOK, [Next]_vars
    PROVE  TypeOK'
<1> USE TurnClientAssumption DEF Calls
<1>1. ASSUME NEW t \in Turns, SendMessage(t)
      PROVE  TypeOK'
  <2>1. CASE CanSend
    <3>1. /\ outcome' = [outcome EXCEPT ![t] = "open"]
          /\ timeoutTimer' = [timeoutTimer EXCEPT ![t] = TRUE]
          /\ turns' = turns \cup {t}
          /\ heard' = [heard EXCEPT ![t] = socket]
      BY <1>1, <2>1 DEF SendMessage
    <3> QED
      BY <1>1, <3>1 DEF SendMessage, TypeOK, transport, requests
  <2>2. CASE ~CanSend
    <3>1. /\ outcome' = [outcome EXCEPT ![t] = "error"]
          /\ UNCHANGED <<timeoutTimer, turns, heard>>
      BY <1>1, <2>2 DEF SendMessage
    <3> QED
      BY <1>1, <3>1 DEF SendMessage, TypeOK, transport, requests
  <2> QED
    BY <2>1, <2>2
<1>2. ASSUME NEW t \in Turns, NextCall(t)
      PROVE  TypeOK'
  <2>1. /\ queue' \in [Turns -> Seq(Event)]
        /\ got' \in [Turns -> Seq(Event)]
        /\ waiter' \in [Turns -> BOOLEAN]
        /\ ended' \in [Turns -> {"no", "done", "thrown"}]
    <3>1. CASE /\ queue[t] # <<>>
               /\ got' = [got EXCEPT ![t] = Append(@, Head(queue[t]))]
               /\ queue' = [queue EXCEPT ![t] = Tail(@)]
               /\ UNCHANGED <<waiter, ended>>
      <4>1. Head(queue[t]) \in Event /\ Tail(queue[t]) \in Seq(Event)
        BY <3>1 DEF TypeOK
      <4> QED
        BY <3>1, <4>1 DEF TypeOK
    <3>2. CASE /\ ended' = [ended EXCEPT
                    ![t] = IF outcome[t] = "error" THEN "thrown" ELSE "done"]
               /\ UNCHANGED <<queue, got, waiter>>
      BY <3>2 DEF TypeOK
    <3>3. CASE /\ waiter' = [waiter EXCEPT ![t] = TRUE]
               /\ UNCHANGED <<queue, got, ended>>
      BY <3>3 DEF TypeOK
    <3> QED
      BY <1>2, <3>1, <3>2, <3>3 DEF NextCall
  <2> QED
    BY <1>2, <2>1 DEF NextCall, TypeOK, transport, requests, server
<1>3. ASSUME NEW t \in Turns, TurnTimeout(t)
      PROVE  TypeOK'
  <2>1. {t} \ {u \in Turns : Done(u)} \in SUBSET Turns
    OBVIOUS
  <2> QED
    BY <1>3, <2>1, FinishTypes DEF TurnTimeout, TypeOK, transport, requests, server
<1>4. ASSUME NEW q \in Requests, Request(q)
      PROVE  TypeOK'
  <2>1. CASE CanSend
    <3>1. /\ answer' = [answer EXCEPT ![q] = "waiting"]
          /\ pending' = pending \cup {q}
          /\ heard' = [heard EXCEPT ![q] = socket]
      BY <1>4, <2>1 DEF Request
    <3> QED
      BY <1>4, <3>1 DEF Request, TypeOK, transport, turnState
  <2>2. CASE ~CanSend
    <3>1. /\ answer' = [answer EXCEPT ![q] = "error"]
          /\ UNCHANGED <<pending, heard>>
      BY <1>4, <2>2 DEF Request
    <3> QED
      BY <1>4, <3>1 DEF Request, TypeOK, transport, turnState
  <2> QED
    BY <2>1, <2>2
<1>5. ASSUME NEW q \in Requests, RequestTimeout(q)
      PROVE  TypeOK'
  BY <1>5 DEF RequestTimeout, TypeOK, transport, turnState, server
<1>6. ASSUME NEW s \in Sockets, Connect(s)
      PROVE  TypeOK'
  <2>1. readyState' \in [Sockets ->
            {"none", "connecting", "open", "aborting", "closing", "closed"}]
    BY <1>6, ClosedIsState DEF Connect, TypeOK
  <2> QED
    BY <1>6, <2>1 DEF Connect, TypeOK, requests, turnState, server
<1>7. ASSUME NEW s \in Sockets, ConnectTimeout(s)
      PROVE  TypeOK'
  <2>1. readyState' \in [Sockets ->
            {"none", "connecting", "open", "aborting", "closing", "closed"}]
    <3>1. \/ readyState' = [readyState EXCEPT ![s] = Closed(readyState[s])]
          \/ readyState' = readyState
      BY <1>7 DEF ConnectTimeout
    <3>2. Closed(readyState[s]) \in
            {"none", "connecting", "open", "aborting", "closing", "closed"}
      BY ClosedIsState DEF TypeOK
    <3> QED
      BY <3>1, <3>2 DEF TypeOK
  <2>2. /\ dial' \in [Sockets -> {"none", "pending", "resolved", "rejected"}]
        /\ socket' \in Sockets \cup {NoSocket}
    <3>1. CASE dial[s] = "pending"
      BY <1>7, <3>1 DEF ConnectTimeout, TypeOK
    <3>2. CASE dial[s] # "pending"
      BY <1>7, <3>2 DEF ConnectTimeout, TypeOK
    <3> QED
      BY <3>1, <3>2
  <2>3. /\ dialTimer' = [dialTimer EXCEPT ![s] = FALSE]
        /\ UNCHANGED <<wire, subscribed, requests, turnState, server>>
    BY <1>7 DEF ConnectTimeout
  <2> QED
    BY <2>1, <2>2, <2>3 DEF TypeOK, requests, turnState, server
<1>8. ASSUME NEW s \in Sockets, SocketOpens(s)
      PROVE  TypeOK'
  BY <1>8 DEF SocketOpens, TypeOK, requests, turnState, server
<1>9. ASSUME NEW s \in Sockets, SocketErrors(s)
      PROVE  TypeOK'
  BY <1>9 DEF SocketErrors, TypeOK, requests, turnState, server
<1>10. ASSUME NEW s \in Sockets, SocketCloses(s)
       PROVE  TypeOK'
  <2>1. /\ readyState' = [readyState EXCEPT ![s] = "closed"]
        /\ wire' = [wire EXCEPT ![s] = <<>>]
        /\ UNCHANGED <<socket, dial, subscribed, server>>
        /\ dialTimer' \in [Sockets -> BOOLEAN]
    <3>1. dialTimer' = [dialTimer EXCEPT ![s] = FALSE] \/ dialTimer' = dialTimer
      BY <1>10 DEF SocketCloses
    <3> QED
      BY <1>10, <3>1 DEF SocketCloses, TypeOK
  <2>2. FailAll \/ UNCHANGED <<requests, turnState>>
    BY <1>10 DEF SocketCloses
  <2>3. CASE FailAll
    BY <2>1, <2>3, FailAllTypes DEF TypeOK, server
  <2>4. CASE UNCHANGED <<requests, turnState>>
    BY <2>1, <2>4 DEF TypeOK, requests, turnState, server
  <2> QED
    BY <2>2, <2>3, <2>4
<1>11. ASSUME NEW s \in Sockets, SocketMessage(s)
       PROVE  TypeOK'
  <2> DEFINE f == Head(wire[s])
  <2>1. f \in Frame /\ wire' \in [Sockets -> Seq(Frame)]
    BY <1>11 DEF SocketMessage, TypeOK
  <2>2. f.id \in Calls /\ f.event \in Event
    BY <2>1 DEF Frame
  <2>3. CASE socket = s /\ subscribed /\ f.id \in turns
    <3>1. Push(f.id, f.event) /\ UNCHANGED requests
      BY <1>11, <2>3 DEF SocketMessage, HandleFrame, TypeOK
    <3>2. f.id \in Turns
      BY <2>3 DEF TypeOK
    <3> HIDE DEF f
    <3> QED
      BY <1>11, <2>1, <2>2, <3>1, <3>2, PushTypes
      DEF SocketMessage, TypeOK, transport, requests, server
  <2>4. CASE socket = s /\ subscribed /\ f.id \notin turns /\ f.id \in pending
    <3>1. /\ UNCHANGED turnState
          /\ pending' = pending \ {f.id}
          /\ answer' = [answer EXCEPT
                ![f.id] = IF f.event.type = "error" THEN "error" ELSE "ok"]
      BY <1>11, <2>4 DEF SocketMessage, HandleFrame
    <3> HIDE DEF f
    <3> QED
      BY <1>11, <2>1, <3>1 DEF SocketMessage, TypeOK, transport, turnState, server
  <2>5. CASE ~(socket = s /\ subscribed) \/ f.id \notin turns \cup pending
    <3>1. UNCHANGED <<requests, turnState>>
      BY <1>11, <2>5 DEF SocketMessage, HandleFrame
    <3> HIDE DEF f
    <3> QED
      BY <1>11, <2>1, <3>1 DEF SocketMessage, TypeOK, transport, requests, turnState, server
  <2> QED
    BY <2>3, <2>4, <2>5
<1>12. CASE Disconnect
  <2>1. readyState' \in [Sockets ->
            {"none", "connecting", "open", "aborting", "closing", "closed"}]
    BY <1>12, ClosedIsState DEF Disconnect, TypeOK
  <2> QED
    BY <1>12, <2>1, FailAllTypes DEF Disconnect, TypeOK, server
<1>13. ASSUME NEW r \in Calls, NEW type \in EventTypes, ServerEmits(r, type)
       PROVE  TypeOK'
  <2> DEFINE e == [type |-> type, seq |-> Len(emitted[r]) + 1]
  <2>1. Len(emitted[r]) \in Nat
    BY DEF TypeOK
  <2>2. e \in Event
    BY <2>1 DEF Event
  <2>3. [id |-> r, event |-> e] \in Frame
    BY <2>2 DEF Frame
  <2>4. emitted' = [emitted EXCEPT ![r] = Append(@, e)]
    BY <1>13 DEF ServerEmits
  <2>5. wire' = [wire EXCEPT ![heard[r]] = Append(@, [id |-> r, event |-> e])]
    BY <1>13 DEF ServerEmits
  <2>6. heard[r] \in Sockets
    BY <1>13 DEF ServerEmits, TypeOK
  <2> HIDE DEF e
  <2>7. emitted' \in [Calls -> Seq(Event)]
    BY <2>2, <2>4 DEF TypeOK
  <2>8. wire' \in [Sockets -> Seq(Frame)]
    BY <2>3, <2>5, <2>6 DEF TypeOK
  <2> QED
    BY <1>13, <2>7, <2>8 DEF ServerEmits, TypeOK, transport, requests, turnState
<1>14. CASE UNCHANGED vars
  BY <1>14 DEF vars, TypeOK, transport, requests, turnState, server
<1> QED
  BY <1>1, <1>2, <1>3, <1>4, <1>5, <1>6, <1>7, <1>8, <1>9, <1>10, <1>11,
     <1>12, <1>13, <1>14 DEF Next

\* The client starts in a well-typed state.
LEMMA TypeInit == Init => TypeOK
  BY DEF Init, TypeOK

\* Type correctness of WebSocketTransport, SmoothAgentClient and MessageTurn.
THEOREM TypeCorrect == Spec => []TypeOK
  BY TypeInit, TypeStep, PTL DEF Spec

-----------------------------------------------------------------------------
(* No wake-up is lost *)

\* Ending turns that are in the map, by whatever path, loses no wake-up.
LEMMA FinishWakes ==
    ASSUME TypeOK, NoLostWakeup, NEW T \in SUBSET Turns, Finish(T, "error"),
           pending' = {q \in Requests : answer'[q] = "waiting"}
    PROVE  NoLostWakeup'
<1>1. ASSUME NEW t \in Turns, t \in T
      PROVE  /\ waiter'[t] = FALSE /\ outcome'[t] = "error"
             /\ timeoutTimer'[t] = FALSE /\ t \notin turns'
  BY <1>1 DEF Finish, Settle
<1>2. ASSUME NEW t \in Turns, t \notin T
      PROVE  /\ waiter'[t] = waiter[t] /\ outcome'[t] = outcome[t]
             /\ timeoutTimer'[t] = timeoutTimer[t] /\ (t \in turns' <=> t \in turns)
             /\ ended'[t] = ended[t] /\ queue'[t] = queue[t]
  BY <1>2 DEF Finish, Settle, TypeOK
<1>3. ASSUME NEW t \in Turns
      PROVE  /\ waiter'[t] => queue'[t] = <<>> /\ outcome'[t] = "open" /\ ended'[t] = "no"
             /\ outcome'[t] = "open" <=> t \in turns'
             /\ outcome'[t] = "open" <=> timeoutTimer'[t]
  BY <1>1, <1>2 DEF NoLostWakeup
<1> QED
  BY <1>3 DEF NoLostWakeup

\* failAll finds every call that waits, because each of them is in a map.
LEMMA FailAllWakes ==
    ASSUME TypeOK, NoLostWakeup, FailAll
    PROVE  NoLostWakeup'
<1>1. {t \in turns : ~Done(t)} \in SUBSET Turns
  BY DEF TypeOK
<1>2. Finish({t \in turns : ~Done(t)}, "error")
  BY DEF FailAll
<1>3. pending' = {q \in Requests : answer'[q] = "waiting"}
  BY DEF FailAll, TypeOK, NoLostWakeup
<1> QED
  BY <1>1, <1>2, <1>3, FinishWakes

\* A pushed event goes to the parked next() or finds none.
LEMMA PushWakes ==
    ASSUME TypeOK, NoLostWakeup, NEW t \in turns, NEW e, Push(t, e), UNCHANGED requests
    PROVE  NoLostWakeup'
<1>1. t \in Turns /\ outcome[t] = "open" /\ ~Done(t)
  BY DEF TypeOK, NoLostWakeup, Done, Terminal
<1>2. /\ Deliver(t, e)
      /\ Settle(IF e.type \in Terminal THEN {t} ELSE {}, e.type)
      /\ ended' = ended
  BY <1>1 DEF Push
<1>3. waiter'[t] = FALSE
  BY <1>1, <1>2 DEF Deliver, TypeOK
<1>4. ASSUME NEW u \in Turns, u # t
      PROVE  /\ waiter'[u] = waiter[u] /\ queue'[u] = queue[u]
             /\ outcome'[u] = outcome[u] /\ timeoutTimer'[u] = timeoutTimer[u]
             /\ (u \in turns' <=> u \in turns) /\ ended'[u] = ended[u]
  <2>1. waiter'[u] = waiter[u] /\ queue'[u] = queue[u]
    BY <1>1, <1>2, <1>4 DEF Deliver, TypeOK
  <2>2. /\ outcome'[u] = outcome[u] /\ timeoutTimer'[u] = timeoutTimer[u]
        /\ (u \in turns' <=> u \in turns)
    BY <1>1, <1>2, <1>4 DEF Settle, TypeOK
  <2> QED
    BY <1>2, <2>1, <2>2
<1>5. CASE e.type \in Terminal
  <2>1. /\ outcome'[t] # "open" /\ timeoutTimer'[t] = FALSE /\ t \notin turns'
    BY <1>1, <1>2, <1>5 DEF Settle, Terminal
  <2> QED
    BY <1>1, <1>3, <1>4, <2>1 DEF NoLostWakeup, requests
<1>6. CASE e.type \notin Terminal
  <2>1. /\ outcome'[t] = "open" /\ timeoutTimer'[t] = timeoutTimer[t] /\ t \in turns'
    BY <1>1, <1>2, <1>6 DEF Settle, TypeOK
  <2> QED
    BY <1>1, <1>3, <1>4, <2>1 DEF NoLostWakeup, requests
<1> QED
  BY <1>5, <1>6

\* Every step keeps NoLostWakeup.
LEMMA WakeupStep ==
    ASSUME TypeOK, NoLostWakeup, [Next]_vars
    PROVE  NoLostWakeup'
<1>0. ASSUME UNCHANGED <<requests, turnState>>
      PROVE  NoLostWakeup'
  BY <1>0 DEF NoLostWakeup, requests, turnState
<1>1. ASSUME NEW t \in Turns, SendMessage(t)
      PROVE  NoLostWakeup'
  <2>1. CASE CanSend
    <3>1. /\ outcome[t] = "none"
          /\ outcome' = [outcome EXCEPT ![t] = "open"]
          /\ timeoutTimer' = [timeoutTimer EXCEPT ![t] = TRUE]
          /\ turns' = turns \cup {t}
          /\ UNCHANGED <<requests, queue, waiter, ended>>
      BY <1>1, <2>1 DEF SendMessage
    <3>2. waiter[t] = FALSE
      BY <3>1 DEF NoLostWakeup, TypeOK
    <3> QED
      BY <3>1, <3>2 DEF NoLostWakeup, TypeOK, requests
  <2>2. CASE ~CanSend
    <3>1. /\ outcome[t] = "none"
          /\ outcome' = [outcome EXCEPT ![t] = "error"]
          /\ UNCHANGED <<requests, queue, waiter, ended, timeoutTimer, turns>>
      BY <1>1, <2>2 DEF SendMessage
    <3> QED
      BY <3>1 DEF NoLostWakeup, TypeOK, requests
  <2> QED
    BY <2>1, <2>2
<1>2. ASSUME NEW t \in Turns, NextCall(t)
      PROVE  NoLostWakeup'
  <2>1. /\ ~waiter[t] /\ ended[t] = "no" /\ outcome[t] # "none"
        /\ UNCHANGED <<requests, turns, timeoutTimer, outcome>>
    BY <1>2 DEF NextCall
  <2>2. CASE waiter' = [waiter EXCEPT ![t] = TRUE] /\ queue[t] = <<>>
             /\ ~Done(t) /\ UNCHANGED <<queue, ended>>
    <3>1. outcome[t] = "open"
      BY <2>1, <2>2 DEF Done, Terminal, TypeOK
    <3> QED
      BY <2>1, <2>2, <3>1 DEF NoLostWakeup, TypeOK, requests
  <2>3. CASE waiter' = waiter /\ UNCHANGED ended /\ queue' = [queue EXCEPT ![t] = Tail(@)]
    BY <2>1, <2>3 DEF NoLostWakeup, TypeOK, requests
  <2>4. CASE waiter' = waiter /\ UNCHANGED queue
             /\ ended' = [ended EXCEPT ![t] = IF outcome[t] = "error" THEN "thrown" ELSE "done"]
    BY <2>1, <2>4 DEF NoLostWakeup, TypeOK, requests
  <2> QED
    BY <1>2, <2>2, <2>3, <2>4 DEF NextCall
<1>3. ASSUME NEW t \in Turns, TurnTimeout(t)
      PROVE  NoLostWakeup'
  <2>1. {t} \ {u \in Turns : Done(u)} \in SUBSET Turns
    OBVIOUS
  <2>2. pending' = {q \in Requests : answer'[q] = "waiting"}
    BY <1>3 DEF TurnTimeout, NoLostWakeup, requests
  <2>3. Finish({t} \ {u \in Turns : Done(u)}, "error")
    BY <1>3 DEF TurnTimeout
  <2> QED
    BY <2>1, <2>2, <2>3, FinishWakes
<1>4. ASSUME NEW q \in Requests, Request(q)
      PROVE  NoLostWakeup'
  BY <1>4 DEF Request, NoLostWakeup, TypeOK, turnState
<1>5. ASSUME NEW q \in Requests, RequestTimeout(q)
      PROVE  NoLostWakeup'
  BY <1>5 DEF RequestTimeout, NoLostWakeup, TypeOK, turnState
<1>6. ASSUME NEW s \in Sockets,
             Connect(s) \/ ConnectTimeout(s) \/ SocketOpens(s) \/ SocketErrors(s)
      PROVE  NoLostWakeup'
  <2>1. UNCHANGED <<requests, turnState>>
    BY <1>6 DEF Connect, ConnectTimeout, SocketOpens, SocketErrors
  <2> QED
    BY <2>1, <1>0
<1>7. ASSUME NEW s \in Sockets, SocketCloses(s)
      PROVE  NoLostWakeup'
  <2>1. FailAll \/ UNCHANGED <<requests, turnState>>
    BY <1>7 DEF SocketCloses
  <2> QED
    BY <2>1, <1>0, FailAllWakes
<1>8. ASSUME NEW s \in Sockets, SocketMessage(s)
      PROVE  NoLostWakeup'
  <2> DEFINE f == Head(wire[s])
  <2>1. \/ HandleFrame(f)
        \/ UNCHANGED <<requests, turnState>>
    BY <1>8 DEF SocketMessage
  <2> HIDE DEF f
  <2>2. CASE f.id \in turns /\ Push(f.id, f.event) /\ UNCHANGED requests
    BY <2>2, PushWakes
  <2>3. CASE /\ f.id \in pending
             /\ pending' = pending \ {f.id}
             /\ answer' = [answer EXCEPT
                    ![f.id] = IF f.event.type = "error" THEN "error" ELSE "ok"]
             /\ UNCHANGED turnState
    BY <2>3 DEF NoLostWakeup, TypeOK, turnState
  <2> QED
    BY <1>0, <2>1, <2>2, <2>3 DEF HandleFrame
<1>9. CASE Disconnect
  BY <1>9, FailAllWakes DEF Disconnect
<1>10. ASSUME NEW r \in Calls, NEW type \in EventTypes, ServerEmits(r, type)
       PROVE  NoLostWakeup'
  BY <1>10, <1>0 DEF ServerEmits
<1>11. CASE UNCHANGED vars
  BY <1>11, <1>0 DEF vars
<1> QED
  BY <1>1, <1>2, <1>3, <1>4, <1>5, <1>6, <1>7, <1>8, <1>9, <1>10, <1>11 DEF Next

\* A parked next() and a waiting request are always where the next event, the
\* next failure and their timer find them, for any number of calls in flight.
THEOREM NoWakeupIsLost == Spec => []NoLostWakeup
<1>1. Init => NoLostWakeup
  BY DEF Init, NoLostWakeup
<1> QED
  BY <1>1, TypeCorrect, WakeupStep, PTL DEF Spec

-----------------------------------------------------------------------------
(* No socket is left behind *)

\* Every step keeps NoOrphanSocket.
LEMMA OrphanStep ==
    ASSUME TypeOK, NoOrphanSocket, [Next]_vars
    PROVE  NoOrphanSocket'
<1> DEFINE live == {"connecting", "open"}
<1>0. ASSUME socket' = socket,
             \A x \in Sockets : readyState'[x] \in live => readyState[x] \in live
      PROVE  NoOrphanSocket'
  BY <1>0 DEF NoOrphanSocket
<1>1. ASSUME NEW x \in Sockets
      PROVE  Closed(readyState[x]) \notin live
  BY ClosedIsState DEF TypeOK
<1>2. ASSUME NEW s \in Sockets, Connect(s)
      PROVE  NoOrphanSocket'
  BY <1>1, <1>2 DEF Connect, NoOrphanSocket
<1>3. ASSUME NEW s \in Sockets, ConnectTimeout(s)
      PROVE  NoOrphanSocket'
  <2>1. CASE dial[s] = "pending"
    <3>1. /\ readyState' = [readyState EXCEPT ![s] = Closed(readyState[s])]
          /\ socket' = IF socket = s THEN NoSocket ELSE socket
      BY <1>3, <2>1 DEF ConnectTimeout
    <3> QED
      BY <1>1, <3>1 DEF NoOrphanSocket, TypeOK
  <2>2. CASE dial[s] # "pending"
    BY <1>0, <1>3, <2>2 DEF ConnectTimeout
  <2> QED
    BY <2>1, <2>2
<1>4. ASSUME NEW s \in Sockets, SocketOpens(s)
      PROVE  NoOrphanSocket'
  BY <1>4, <1>0 DEF SocketOpens, TypeOK
<1>5. ASSUME NEW s \in Sockets, SocketErrors(s)
      PROVE  NoOrphanSocket'
  <2>1. readyState' = [readyState EXCEPT ![s] = "closing"]
    BY <1>5 DEF SocketErrors
  <2>2. socket' = socket \/ socket = s
    BY <1>5 DEF SocketErrors
  <2> QED
    BY <2>1, <2>2 DEF NoOrphanSocket, TypeOK
<1>6. ASSUME NEW s \in Sockets, SocketCloses(s)
      PROVE  NoOrphanSocket'
  BY <1>6, <1>0 DEF SocketCloses, TypeOK
<1>7. CASE Disconnect
  BY <1>7, <1>0, <1>1 DEF Disconnect
<1>8. CASE \/ \E t \in Turns : SendMessage(t) \/ NextCall(t) \/ TurnTimeout(t)
           \/ \E q \in Requests : Request(q) \/ RequestTimeout(q)
           \/ \E s \in Sockets : SocketMessage(s)
           \/ \E r \in Calls, type \in EventTypes : ServerEmits(r, type)
           \/ UNCHANGED vars
  <2>1. UNCHANGED <<socket, readyState>>
    BY <1>8 DEF SendMessage, NextCall, TurnTimeout, Request, RequestTimeout,
                SocketMessage, ServerEmits, vars, transport
  <2> QED
    BY <2>1, <1>0
<1> QED
  BY <1>2, <1>3, <1>4, <1>5, <1>6, <1>7, <1>8 DEF Next

\* However often the application connects, times out, fails or disconnects, at
\* most the socket that the transport holds is dialling or open.
THEOREM NoSocketIsOrphaned == Spec => []NoOrphanSocket
<1>1. Init => NoOrphanSocket
  BY DEF Init, NoOrphanSocket
<1> QED
  BY <1>1, TypeCorrect, OrphanStep, PTL DEF Spec

-----------------------------------------------------------------------------
(* The order of events                                                     *)

\* What the iteration has yielded or holds ready.
Seen(t) == got[t] \o queue[t]

\* A frame for t is handed to it: the transport still has the socket on which
\* the message went out, and the client still listens.
Listening(t) == t \in turns /\ subscribed /\ heard[t] = socket

\* A request goes out once, on a socket that was dialled, and the server
\* answers it there and not before.
Routed ==
    /\ \A r \in Calls :
        /\ heard[r] # NoSocket => readyState[heard[r]] # "none"
        /\ heard[r] = NoSocket => emitted[r] = <<>>
    /\ \A s \in Sockets : \A i \in 1..Len(wire[s]) : heard[wire[s][i].id] = s
    /\ \A t \in Turns :
        /\ outcome[t] = "none" => heard[t] = NoSocket
        /\ t \in turns => heard[t] # NoSocket
    /\ \A q \in Requests : answer[q] = "none" => heard[q] = NoSocket

\* The frames of t among w are the events of em after the n-th, all of them
\* and in order.
InStep(t, w, n, em) ==
    /\ \A i \in 1..Len(w) : w[i].id = t =>
        /\ w[i].event.seq \in (n + 1)..Len(em)
        /\ w[i].event = em[w[i].event.seq]
    /\ \A i, j \in 1..Len(w) :
        i < j /\ w[i].id = t /\ w[j].id = t => w[i].event.seq < w[j].event.seq
    /\ \A k \in (n + 1)..Len(em) : \E i \in 1..Len(w) : w[i].id = t /\ w[i].event.seq = k

\* What a turn has not seen yet is on the wire, while it listens.
InSync ==
    \A t \in Turns :
        Listening(t) => InStep(t, wire[heard[t]], Len(Seen(t)), emitted[t])

\* s is the beginning of em.
Begins(s, em) == Len(s) <= Len(em) /\ \A i \in 1..Len(s) : s[i] = em[i]

\* Nothing of a turn follows eventual_response.
FinalIsLast(em) == \A i \in 1..Len(em) : em[i].type = "final" => i = Len(em)

EndsFinal(em) == em # <<>> /\ em[Len(em)].type = "final"

\* What one turn has seen, and how it ended.
TurnOrder(t) ==
    /\ Begins(Seen(t), emitted[t])
    /\ FinalIsLast(emitted[t])
    /\ outcome[t] = "final" => Len(Seen(t)) = Len(emitted[t]) /\ EndsFinal(emitted[t])
    /\ ended[t] = "done" => outcome[t] = "final" /\ queue[t] = <<>>
    /\ ended[t] = "thrown" => outcome[t] = "error" /\ queue[t] = <<>>

EventInv == Routed /\ InSync /\ \A t \in Turns : TurnOrder(t)

\* A frame of another request does not count.
LEMMA InStepPastOther ==
    ASSUME NEW t, NEW w \in Seq(Frame), NEW n \in Nat, NEW em \in Seq(Event),
           w # <<>>, Head(w).id # t, InStep(t, w, n, em)
    PROVE  InStep(t, Tail(w), n, em)
<1>1. /\ Len(w) \in Nat /\ Len(w) > 0 /\ Len(Tail(w)) = Len(w) - 1 /\ Head(w) = w[1]
      /\ Len(em) \in Nat
      /\ \A i \in 1..Len(Tail(w)) : Tail(w)[i] = w[i + 1] /\ i + 1 \in 1..Len(w)
  OBVIOUS
<1>2. \A k \in (n + 1)..Len(em) : \E i \in 1..Len(Tail(w)) :
        Tail(w)[i].id = t /\ Tail(w)[i].event.seq = k
  <2> SUFFICES ASSUME NEW k \in (n + 1)..Len(em)
               PROVE  \E i \in 1..Len(Tail(w)) : Tail(w)[i].id = t /\ Tail(w)[i].event.seq = k
    OBVIOUS
  <2>1. PICK i \in 1..Len(w) : w[i].id = t /\ w[i].event.seq = k
    BY DEF InStep
  <2>2. i # 1
    BY <1>1, <2>1
  <2>3. i - 1 \in 1..Len(Tail(w)) /\ Tail(w)[i - 1] = w[i]
    BY <1>1, <2>2
  <2> QED
    BY <2>1, <2>3
<1> DEFINE v == Tail(w)
<1>3. /\ \A i \in 1..Len(v) : v[i] = w[i + 1] /\ i + 1 \in 1..Len(w)
      /\ Len(v) \in Nat
  BY <1>1
<1> HIDE DEF v
<1>4. \A i \in 1..Len(v) : v[i].id = t =>
        /\ v[i].event.seq \in (n + 1)..Len(em)
        /\ v[i].event = em[v[i].event.seq]
  <2>1. \A i \in 1..Len(w) : w[i].id = t =>
          w[i].event.seq \in (n + 1)..Len(em) /\ w[i].event = em[w[i].event.seq]
    BY DEF InStep
  <2> QED
    BY <1>3, <2>1
<1>5. \A i, j \in 1..Len(v) :
        i < j /\ v[i].id = t /\ v[j].id = t => v[i].event.seq < v[j].event.seq
  <2> SUFFICES ASSUME NEW i \in 1..Len(v), NEW j \in 1..Len(v),
                      i < j, v[i].id = t, v[j].id = t
               PROVE  w[i + 1].event.seq < w[j + 1].event.seq
    BY <1>3
  <2>1. i + 1 \in 1..Len(w) /\ j + 1 \in 1..Len(w)
    BY <1>3
  <2>2. w[i + 1].id = t /\ w[j + 1].id = t
    BY <1>3
  <2>3. i + 1 < j + 1
    BY <1>3
  <2> QED
    BY <2>1, <2>2, <2>3 DEF InStep
<1> QED
  BY <1>2, <1>4, <1>5 DEF InStep, v

\* The first of w is the event of em after the n-th, and the rest is in step
\* with what follows.
Advances(t, w, n, em) ==
    /\ n + 1 \in 1..Len(em)
    /\ Head(w).event = em[n + 1]
    /\ InStep(t, Tail(w), n + 1, em)

\* The first frame of t among w is the next event of em.
LEMMA InStepAtHead ==
    ASSUME NEW t, NEW w \in Seq(Frame), NEW n \in Nat, NEW em \in Seq(Event),
           w # <<>>, Head(w).id = t, InStep(t, w, n, em)
    PROVE  Advances(t, w, n, em)
<1>1. /\ Len(w) \in Nat /\ Len(w) > 0 /\ Len(Tail(w)) = Len(w) - 1 /\ Head(w) = w[1]
      /\ Len(em) \in Nat
      /\ \A i \in 1..Len(Tail(w)) : Tail(w)[i] = w[i + 1] /\ i + 1 \in 1..Len(w)
  OBVIOUS
<1> DEFINE m == w[1].event.seq
<1>2. m \in (n + 1)..Len(em) /\ w[1].event = em[m]
  BY <1>1 DEF InStep
<1>3. n + 1 \in (n + 1)..Len(em) /\ m \in Nat
  BY <1>1, <1>2
<1>4. PICK i \in 1..Len(w) : w[i].id = t /\ w[i].event.seq = n + 1
  BY <1>3 DEF InStep
<1>5. m = n + 1
  <2>1. CASE i = 1
    BY <1>4, <2>1
  <2>2. CASE i # 1
    <3>1. 1 \in 1..Len(w) /\ 1 < i /\ w[1].id = t
      BY <1>1, <2>2
    <3>2. m < n + 1
      BY <1>4, <3>1 DEF InStep
    <3> QED
      BY <1>2, <1>3, <3>2
  <2> QED
    BY <2>1, <2>2
<1> DEFINE v == Tail(w)
<1>6. /\ \A j \in 1..Len(v) : v[j] = w[j + 1] /\ j + 1 \in 1..Len(w)
      /\ Len(v) \in Nat
  BY <1>1
<1>6a. \A j \in 1..Len(w) : j # 1 => j - 1 \in 1..Len(v) /\ v[j - 1] = w[j]
  BY <1>1
<1> HIDE DEF v
<1>7. \A j \in 1..Len(v) : v[j].id = t =>
        /\ v[j].event.seq \in (n + 2)..Len(em)
        /\ v[j].event = em[v[j].event.seq]
  <2> SUFFICES ASSUME NEW j \in 1..Len(v), v[j].id = t
               PROVE  /\ v[j].event.seq \in (n + 2)..Len(em)
                      /\ v[j].event = em[v[j].event.seq]
    OBVIOUS
  <2>1. /\ w[j + 1].event.seq \in (n + 1)..Len(em)
        /\ w[j + 1].event = em[w[j + 1].event.seq]
    BY <1>6 DEF InStep
  <2>2. m < w[j + 1].event.seq
    <3>1. 1 \in 1..Len(w) /\ j + 1 \in 1..Len(w) /\ 1 < j + 1 /\ w[1].id = t /\ w[j + 1].id = t
      BY <1>1, <1>6
    <3> QED
      BY <3>1 DEF InStep
  <2> QED
    BY <1>1, <1>5, <1>6, <2>1, <2>2
<1>8. \A l, j \in 1..Len(v) :
        l < j /\ v[l].id = t /\ v[j].id = t => v[l].event.seq < v[j].event.seq
  <2> SUFFICES ASSUME NEW l \in 1..Len(v), NEW j \in 1..Len(v),
                      l < j, v[l].id = t, v[j].id = t
               PROVE  w[l + 1].event.seq < w[j + 1].event.seq
    BY <1>6
  <2>1. l + 1 \in 1..Len(w) /\ j + 1 \in 1..Len(w)
    BY <1>6
  <2>2. w[l + 1].id = t /\ w[j + 1].id = t
    BY <1>6
  <2>3. l + 1 < j + 1
    BY <1>6
  <2> QED
    BY <2>1, <2>2, <2>3 DEF InStep
<1>9. \A k \in (n + 2)..Len(em) : \E j \in 1..Len(v) : v[j].id = t /\ v[j].event.seq = k
  <2> SUFFICES ASSUME NEW k \in (n + 2)..Len(em)
               PROVE  \E j \in 1..Len(v) : v[j].id = t /\ v[j].event.seq = k
    OBVIOUS
  <2>1. k \in (n + 1)..Len(em) /\ k # n + 1
    BY <1>1
  <2>2. PICK j \in 1..Len(w) : w[j].id = t /\ w[j].event.seq = k
    BY <2>1 DEF InStep
  <2>3. j # 1
    BY <1>5, <2>1, <2>2
  <2> QED
    BY <1>6a, <2>2, <2>3
<1>10. n + 1 + 1 = n + 2
  OBVIOUS
<1>11. InStep(t, v, n + 1, em)
  BY <1>7, <1>8, <1>9, <1>10 DEF InStep
<1>12. n + 1 \in 1..Len(em) /\ Head(w).event = em[n + 1]
  BY <1>1, <1>2, <1>3, <1>5
<1> QED
  BY <1>11, <1>12 DEF v, Advances

\* So does one that is appended.
LEMMA InStepBeforeOther ==
    ASSUME NEW t, NEW w \in Seq(Frame), NEW n \in Nat, NEW em \in Seq(Event),
           NEW f \in Frame, f.id # t, InStep(t, w, n, em)
    PROVE  InStep(t, Append(w, f), n, em)
<1> DEFINE v == Append(w, f)
<1>1. /\ Len(w) \in Nat /\ Len(v) = Len(w) + 1 /\ v[Len(w) + 1] = f /\ Len(em) \in Nat
      /\ \A i \in 1..Len(w) : v[i] = w[i] /\ i \in 1..Len(v)
      /\ \A i \in 1..Len(v) : i = Len(w) + 1 \/ i \in 1..Len(w)
  OBVIOUS
<1> HIDE DEF v
<1>2. \A i \in 1..Len(v) : v[i].id = t => i \in 1..Len(w) /\ v[i] = w[i]
  BY <1>1
<1> QED
  BY <1>1, <1>2 DEF InStep, v

\* The server's next event for t goes on the wire.
LEMMA InStepEmits ==
    ASSUME NEW t, NEW w \in Seq(Frame), NEW n \in Nat, NEW em \in Seq(Event),
           NEW e \in Event, e.seq = Len(em) + 1, n <= Len(em), InStep(t, w, n, em),
           [id |-> t, event |-> e] \in Frame
    PROVE  InStep(t, Append(w, [id |-> t, event |-> e]), n, Append(em, e))
<1> DEFINE f == [id |-> t, event |-> e]
           v == Append(w, f)
           en == Append(em, e)
<1>1. f \in Frame /\ f.id = t /\ f.event = e
  OBVIOUS
<1> HIDE DEF f
<1>2. /\ Len(w) \in Nat /\ Len(v) = Len(w) + 1 /\ v[Len(w) + 1] = f
      /\ \A i \in 1..Len(w) : v[i] = w[i] /\ i \in 1..Len(v)
      /\ \A i \in 1..Len(v) : i = Len(w) + 1 \/ i \in 1..Len(w)
  BY <1>1
<1>3. /\ Len(em) \in Nat /\ Len(en) = Len(em) + 1 /\ en[Len(em) + 1] = e
      /\ \A k \in 1..Len(em) : en[k] = em[k]
  OBVIOUS
<1> HIDE DEF v, en
<1>4. \A i \in 1..Len(v) : v[i].id = t =>
        /\ v[i].event.seq \in (n + 1)..Len(en)
        /\ v[i].event = en[v[i].event.seq]
  <2> SUFFICES ASSUME NEW i \in 1..Len(v), v[i].id = t
               PROVE  /\ v[i].event.seq \in (n + 1)..Len(en)
                      /\ v[i].event = en[v[i].event.seq]
    OBVIOUS
  <2>1. CASE i = Len(w) + 1
    BY <1>1, <1>2, <1>3, <2>1
  <2>2. CASE i \in 1..Len(w)
    <3>1. w[i].event.seq \in (n + 1)..Len(em) /\ w[i].event = em[w[i].event.seq] /\ v[i] = w[i]
      BY <1>2, <2>2 DEF InStep
    <3>2. w[i].event.seq \in 1..Len(em)
      BY <1>3, <3>1
    <3> QED
      BY <1>3, <3>1, <3>2
  <2> QED
    BY <1>2, <2>1, <2>2
<1>5. \A i, j \in 1..Len(v) :
        i < j /\ v[i].id = t /\ v[j].id = t => v[i].event.seq < v[j].event.seq
  <2> SUFFICES ASSUME NEW i \in 1..Len(v), NEW j \in 1..Len(v),
                      i < j, v[i].id = t, v[j].id = t
               PROVE  v[i].event.seq < v[j].event.seq
    OBVIOUS
  <2>1. i \in 1..Len(w) /\ v[i] = w[i]
    BY <1>2
  <2>2. w[i].event.seq \in (n + 1)..Len(em)
    BY <2>1 DEF InStep
  <2>3. CASE j = Len(w) + 1
    BY <1>1, <1>2, <1>3, <2>1, <2>2, <2>3
  <2>4. CASE j \in 1..Len(w)
    BY <1>2, <2>1, <2>4 DEF InStep
  <2> QED
    BY <1>2, <2>3, <2>4
<1>6. \A k \in (n + 1)..Len(en) : \E i \in 1..Len(v) : v[i].id = t /\ v[i].event.seq = k
  <2> SUFFICES ASSUME NEW k \in (n + 1)..Len(en)
               PROVE  \E i \in 1..Len(v) : v[i].id = t /\ v[i].event.seq = k
    OBVIOUS
  <2>1. CASE k = Len(em) + 1
    <3>1. Len(w) + 1 \in 1..Len(v) /\ v[Len(w) + 1].id = t /\ v[Len(w) + 1].event.seq = k
      BY <1>1, <1>2, <2>1
    <3> QED
      BY <3>1
  <2>2. CASE k \in (n + 1)..Len(em)
    <3>1. PICK i \in 1..Len(w) : w[i].id = t /\ w[i].event.seq = k
      BY <2>2 DEF InStep
    <3> QED
      BY <1>2, <3>1
  <2> QED
    BY <1>3, <2>1, <2>2
<1> QED
  BY <1>4, <1>5, <1>6 DEF InStep, v, en, f

\* A turn without frames and events is in step.
LEMMA InStepAtStart ==
    ASSUME NEW t, NEW w \in Seq(Frame), \A i \in 1..Len(w) : w[i].id # t
    PROVE  InStep(t, w, 0, <<>>)
  BY DEF InStep
\* A sequence of events taken apart and put together again.
LEMMA SeenParts ==
    ASSUME NEW g \in Seq(Event), NEW q \in Seq(Event)
    PROVE  /\ g \o q \in Seq(Event)
           /\ \A e \in Event : g \o Append(q, e) = Append(g \o q, e)
           /\ q # <<>> => Append(g, Head(q)) \o Tail(q) = g \o q
           /\ g \o <<>> = g
<1>1. g \o q \in Seq(Event) /\ g \o <<>> = g
  BY ConcatProperties, ConcatEmptySeq
<1>2. ASSUME NEW e \in Event
      PROVE  g \o Append(q, e) = Append(g \o q, e)
  <2>1. <<e>> \in Seq(Event)
    OBVIOUS
  <2>2. Append(q, e) = q \o <<e>> /\ Append(g \o q, e) = (g \o q) \o <<e>>
    BY <1>1, AppendIsConcat
  <2> QED
    BY <2>1, <2>2, ConcatAssociative
<1>3. ASSUME q # <<>>
      PROVE  Append(g, Head(q)) \o Tail(q) = g \o q
  <2> DEFINE h == <<Head(q)>>
  <2>1. Head(q) \in Event /\ Tail(q) \in Seq(Event)
    BY <1>3
  <2>2. h \in Seq(Event)
    BY <2>1
  <2>3. Append(g, Head(q)) = g \o h
    BY <2>1, AppendIsConcat
  <2>4. q = h \o Tail(q)
    <3>1. h \o Tail(q) \in Seq(Event) /\ Len(h \o Tail(q)) = 1 + Len(Tail(q))
      BY <2>1, <2>2, ConcatProperties
    <3>2. Len(q) = 1 + Len(Tail(q))
      BY <1>3
    <3>3. \A i \in 1..Len(q) : (h \o Tail(q))[i] = q[i]
      <4> SUFFICES ASSUME NEW i \in 1..Len(q)
                   PROVE  (h \o Tail(q))[i] = q[i]
        OBVIOUS
      <4>1. Len(h) = 1 /\ h[1] = Head(q)
        OBVIOUS
      <4>2. Len(Tail(q)) \in Nat /\ i \in 1..Len(h) + Len(Tail(q))
        BY <2>1, <3>2, <4>1
      <4>3. (h \o Tail(q))[i] = IF i <= Len(h) THEN h[i] ELSE Tail(q)[i - Len(h)]
        BY <2>1, <2>2, <4>2, ConcatProperties
      <4>4. CASE i = 1
        BY <4>1, <4>3, <4>4
      <4>5. CASE i # 1
        <5>1. i - 1 \in 1..Len(Tail(q))
          BY <3>2, <4>2, <4>5
        <5>2. Tail(q)[i - 1] = q[i]
          BY <1>3, <5>1
        <5>3. ~(i <= Len(h))
          BY <4>1, <4>2, <4>5
        <5> QED
          BY <4>1, <4>3, <5>2, <5>3
      <4> QED
        BY <4>4, <4>5
    <3> HIDE DEF h
    <3> QED
      BY <3>1, <3>2, <3>3, SeqEqual
  <2> HIDE DEF h
  <2>5. (g \o h) \o Tail(q) = g \o (h \o Tail(q))
    BY <2>1, <2>2, ConcatAssociative
  <2> QED
    BY <2>3, <2>4, <2>5
<1> QED
  BY <1>1, <1>2, <1>3

\* What a turn has seen is a sequence of events.
LEMMA SeenTyped ==
    ASSUME TypeOK, NEW t \in Turns
    PROVE  Seen(t) \in Seq(Event) /\ Len(Seen(t)) \in Nat
<1>1. got[t] \in Seq(Event) /\ queue[t] \in Seq(Event)
  BY DEF TypeOK
<1>2. Seen(t) \in Seq(Event)
  BY <1>1, ConcatProperties DEF Seen
<1> QED
  BY <1>2, LenProperties

\* push hands the turn one event more, whether a next() waits for it or not.
LEMMA PushSeen ==
    ASSUME TypeOK, NoLostWakeup, NEW t \in turns, NEW e \in Event, Push(t, e)
    PROVE  /\ got' \in [Turns -> Seq(Event)] /\ queue' \in [Turns -> Seq(Event)]
           /\ Seen(t)' = Append(Seen(t), e) /\ Seen(t) \in Seq(Event)
           /\ outcome[t] = "open" /\ ended[t] \in {"no", "done", "thrown"}
           /\ outcome'[t] = (IF e.type \in Terminal THEN e.type ELSE "open")
           /\ ended' = ended /\ turns' \subseteq turns
           /\ \A u \in Turns \ {t} : /\ got'[u] = got[u] /\ queue'[u] = queue[u]
                                     /\ outcome'[u] = outcome[u]
<1>1. t \in Turns /\ outcome[t] = "open" /\ ~Done(t)
  BY DEF TypeOK, NoLostWakeup, Done, Terminal
<1>2. Deliver(t, e) /\ Settle(IF e.type \in Terminal THEN {t} ELSE {}, e.type) /\ ended' = ended
  BY <1>1 DEF Push
<1>3. /\ outcome'[t] = (IF e.type \in Terminal THEN e.type ELSE "open")
      /\ turns' \subseteq turns
      /\ \A u \in Turns \ {t} : outcome'[u] = outcome[u]
  <2>1. CASE e.type \in Terminal
    BY <1>1, <1>2, <2>1 DEF Settle
  <2>2. CASE e.type \notin Terminal
    BY <1>1, <1>2, <2>2 DEF Settle
  <2> QED
    BY <2>1, <2>2
<1>4. got[t] \in Seq(Event) /\ queue[t] \in Seq(Event) /\ ended[t] \in {"no", "done", "thrown"}
  BY <1>1 DEF TypeOK
<1>5. CASE waiter[t] /\ got' = [got EXCEPT ![t] = Append(@, e)] /\ queue' = queue
  <2>1. queue[t] = <<>> /\ got'[t] = Append(got[t], e)
    BY <1>1, <1>5 DEF NoLostWakeup, TypeOK
  <2>2. Seen(t) = got[t] /\ Seen(t)' = Append(got[t], e) /\ Seen(t) \in Seq(Event)
    <3>1. queue'[t] = <<>> /\ Append(got[t], e) \in Seq(Event)
      BY <1>4, <1>5, <2>1
    <3> QED
      BY <1>4, <2>1, <3>1, ConcatEmptySeq DEF Seen
  <2>3. got' \in [Turns -> Seq(Event)] /\ queue' \in [Turns -> Seq(Event)]
    BY <1>5 DEF TypeOK
  <2> QED
    BY <1>1, <1>2, <1>3, <1>4, <1>5, <2>2, <2>3 DEF TypeOK
<1>6. CASE queue' = [queue EXCEPT ![t] = Append(@, e)] /\ got' = got
  <2>1. queue'[t] = Append(queue[t], e)
    BY <1>1, <1>6 DEF TypeOK
  <2>2. Seen(t)' = Append(Seen(t), e) /\ Seen(t) \in Seq(Event)
    <3>1. got[t] \o Append(queue[t], e) = Append(got[t] \o queue[t], e)
          /\ got[t] \o queue[t] \in Seq(Event)
      BY <1>4, SeenParts
    <3> QED
      BY <1>6, <2>1, <3>1 DEF Seen
  <2>3. got' \in [Turns -> Seq(Event)] /\ queue' \in [Turns -> Seq(Event)]
    BY <1>6 DEF TypeOK
  <2> QED
    BY <1>1, <1>2, <1>3, <1>4, <1>6, <2>2, <2>3 DEF TypeOK
<1> QED
  BY <1>2, <1>5, <1>6 DEF Deliver

\* next() takes from what was seen to what is yielded.
LEMMA NextCallSeen ==
    ASSUME TypeOK, NEW t \in Turns, NextCall(t), NEW u \in Turns
    PROVE  Seen(u)' = Seen(u)
<1>1. CASE u # t
  <2>1. got'[u] = got[u] /\ queue'[u] = queue[u]
    BY <1>1 DEF NextCall, TypeOK
  <2> QED
    BY <2>1 DEF Seen
<1>2. CASE u = t /\ UNCHANGED <<got, queue>>
  BY <1>2 DEF Seen
<1>3. CASE /\ u = t /\ queue[t] # <<>>
           /\ got' = [got EXCEPT ![t] = Append(@, Head(queue[t]))]
           /\ queue' = [queue EXCEPT ![t] = Tail(@)]
  <2>1. got'[t] = Append(got[t], Head(queue[t])) /\ queue'[t] = Tail(queue[t])
    BY <1>3 DEF TypeOK
  <2>2. got[t] \in Seq(Event) /\ queue[t] \in Seq(Event)
    BY DEF TypeOK
  <2> QED
    <3>1. Append(got[t], Head(queue[t])) \o Tail(queue[t]) = got[t] \o queue[t]
      BY <1>3, <2>2, SeenParts
    <3> QED
      BY <1>3, <2>1, <3>1 DEF Seen
<1> QED
  BY <1>1, <1>2, <1>3 DEF NextCall

\* What the end of turns by a timer, a close or a disconnect leaves alone.
LEMMA FinishSeen ==
    ASSUME TypeOK, NoLostWakeup, NEW T \in SUBSET Turns, Finish(T, "error"),
           \A t \in T : ~Done(t)
    PROVE  /\ got' = got /\ queue' = queue /\ turns' \subseteq turns
           /\ \A t \in Turns :
                \/ (outcome'[t] = outcome[t] /\ ended'[t] = ended[t])
                \/ /\ outcome[t] \notin Terminal /\ outcome'[t] = "error"
                   /\ ended'[t] = ended[t] \/ (ended'[t] = "thrown" /\ queue[t] = <<>>)
<1>1. got' = got /\ queue' = queue /\ turns' \subseteq turns
  BY DEF Finish, Settle
<1>2. ASSUME NEW t \in Turns, t \in T
      PROVE  /\ outcome[t] \notin Terminal /\ outcome'[t] = "error"
             /\ ended'[t] = ended[t] \/ (ended'[t] = "thrown" /\ queue[t] = <<>>)
  <2>1. outcome[t] \notin Terminal
    BY <1>2 DEF Done
  <2>2. outcome'[t] = "error"
    BY <1>2 DEF Finish, Settle
  <2>3. CASE waiter[t]
    BY <1>2, <2>1, <2>2, <2>3 DEF Finish, NoLostWakeup
  <2>4. CASE ~waiter[t]
    <3>1. ended'[t] = ended[t]
      BY <1>2, <2>4 DEF Finish
    <3> QED
      BY <2>1, <2>2, <3>1
  <2> QED
    BY <2>3, <2>4
<1>3. ASSUME NEW t \in Turns, t \notin T
      PROVE  outcome'[t] = outcome[t] /\ ended'[t] = ended[t]
  BY <1>3 DEF Finish, Settle
<1> QED
  BY <1>1, <1>2, <1>3

\* How failAll and a disconnect leave the maps.
LEMMA FailAllSeen ==
    ASSUME TypeOK, NoLostWakeup, FailAll
    PROVE  /\ got' = got /\ queue' = queue /\ turns' = {}
           /\ \A q \in Requests : answer'[q] = "none" => answer[q] = "none"
           /\ \A t \in Turns :
                \/ (outcome'[t] = outcome[t] /\ ended'[t] = ended[t])
                \/ /\ outcome[t] \notin Terminal /\ outcome'[t] = "error"
                   /\ ended'[t] = ended[t] \/ (ended'[t] = "thrown" /\ queue[t] = <<>>)
<1> DEFINE T == {t \in turns : ~Done(t)}
<1>1. T \in SUBSET Turns /\ Finish(T, "error") /\ \A t \in T : ~Done(t)
  BY DEF TypeOK, FailAll
<1>2. turns' = {}
  BY <1>1 DEF Finish, Settle, NoLostWakeup, Done, Terminal, TypeOK
<1>3. \A q \in Requests : answer'[q] = "none" => answer[q] = "none"
  BY DEF FailAll
<1> HIDE DEF T
<1> QED
  BY <1>1, <1>2, <1>3, FinishSeen

-----------------------------------------------------------------------------

\* What no step but a send has to keep for requests to stay routed.
LEMMA RoutedKept ==
    ASSUME TypeOK, Routed, heard' = heard,
           \A s \in Sockets : readyState[s] # "none" => readyState'[s] # "none",
           \A r \in Calls : heard[r] = NoSocket => emitted'[r] = emitted[r],
           \A s \in Sockets : \A i \in 1..Len(wire'[s]) : heard[wire'[s][i].id] = s,
           \A t \in Turns : outcome'[t] = "none" => outcome[t] = "none",
           turns' \subseteq turns,
           \A q \in Requests : answer'[q] = "none" => answer[q] = "none"
    PROVE  Routed'
<1>1. \A r \in Calls : heard[r] # NoSocket => heard[r] \in Sockets
  BY DEF TypeOK
<1> QED
  BY <1>1 DEF Routed

\* Frames stay on the socket of their request, when a wire is shortened too.
LEMMA WireKept ==
    ASSUME TypeOK, Routed, NEW s \in Sockets, wire[s] # <<>>,
           wire' = [wire EXCEPT ![s] = Tail(@)]
    PROVE  \A x \in Sockets : \A i \in 1..Len(wire'[x]) : heard[wire'[x][i].id] = x
<1>1. \A x \in Sockets : wire[x] \in Seq(Frame)
  BY DEF TypeOK
<1>2. \A i \in 1..Len(Tail(wire[s])) :
        Tail(wire[s])[i] = wire[s][i + 1] /\ i + 1 \in 1..Len(wire[s])
  BY <1>1
<1>3. wire'[s] = Tail(wire[s]) /\ \A x \in Sockets \ {s} : wire'[x] = wire[x]
  BY DEF TypeOK
<1> QED
  BY <1>2, <1>3 DEF Routed
\* What no step but a send has to keep for turns to stay in step: the frames
\* of the socket, what the turn has seen and what the server has sent.
LEMMA SyncKept ==
    ASSUME TypeOK, Routed, InSync, NEW t \in Turns,
           Listening(t)' => Listening(t) /\ wire'[heard[t]] = wire[heard[t]],
           heard' = heard, Seen(t)' = Seen(t), emitted'[t] = emitted[t]
    PROVE  Listening(t)' => InStep(t, wire'[heard'[t]], Len(Seen(t)'), emitted'[t])
  BY DEF InSync

\* What every step but a push, a next() and one of the server has to keep for a
\* turn to stay in order.
LEMMA OrderKept ==
    ASSUME NEW t \in Turns, TurnOrder(t), Seen(t)' = Seen(t), queue'[t] = queue[t],
           emitted'[t] = emitted[t],
           \/ (outcome'[t] = outcome[t] /\ ended'[t] = ended[t])
           \/ /\ outcome[t] \notin Terminal /\ outcome'[t] = "error"
              /\ ended'[t] = ended[t] \/ (ended'[t] = "thrown" /\ queue[t] = <<>>)
    PROVE  TurnOrder(t)'
  BY DEF TurnOrder, Terminal

\* The frame that a turn gets is the event that follows what it has seen.
LEMMA PushOrder ==
    ASSUME TypeOK, NoLostWakeup, NEW t \in turns, NEW e \in Event, Push(t, e),
           TurnOrder(t), emitted' = emitted,
           Len(Seen(t)) + 1 \in 1..Len(emitted[t]), e = emitted[t][Len(Seen(t)) + 1]
    PROVE  TurnOrder(t)'
<1> DEFINE em == emitted[t]
           sn == Seen(t)
<1>1. /\ Seen(t)' = Append(sn, e) /\ sn \in Seq(Event)
      /\ outcome[t] = "open" /\ ended' = ended
      /\ outcome'[t] = (IF e.type \in Terminal THEN e.type ELSE "open")
  BY PushSeen
<1>2. em \in Seq(Event) /\ t \in Turns
  BY DEF TypeOK, Calls
<1>3. /\ Begins(sn, em) /\ FinalIsLast(em) /\ ended[t] \notin {"done", "thrown"}
  BY <1>1 DEF TurnOrder
<1>4. Len(sn) + 1 \in 1..Len(em) /\ e = em[Len(sn) + 1]
  OBVIOUS
<1> HIDE DEF em, sn
<1>5. /\ Len(sn) \in Nat /\ Len(em) \in Nat /\ Len(Append(sn, e)) = Len(sn) + 1
      /\ Append(sn, e)[Len(sn) + 1] = e
      /\ \A i \in 1..Len(sn) : Append(sn, e)[i] = sn[i]
  BY <1>1, <1>2
<1>6. Begins(Append(sn, e), em)
  <2>1. \A i \in 1..(Len(sn) + 1) : (i = Len(sn) + 1) \/ i \in 1..Len(sn)
    BY <1>5
  <2> QED
    BY <1>3, <1>4, <1>5, <2>1 DEF Begins
<1>7. e.type = "final" => Len(sn) + 1 = Len(em) /\ EndsFinal(em)
  <2> SUFFICES ASSUME e.type = "final" PROVE Len(sn) + 1 = Len(em) /\ EndsFinal(em)
    OBVIOUS
  <2>1. Len(sn) + 1 = Len(em)
    BY <1>3, <1>4 DEF FinalIsLast
  <2>2. em # <<>>
    BY <1>4, <1>5
  <2> QED
    BY <1>4, <2>1, <2>2 DEF EndsFinal
<1>8. outcome'[t] = "final" => e.type = "final"
  BY <1>1 DEF Terminal
<1> QED
  BY <1>1, <1>3, <1>5, <1>6, <1>7, <1>8 DEF TurnOrder, em, sn

\* The server's next event leaves what came before it as it was.
LEMMA EmitOrder ==
    ASSUME TypeOK, NEW t \in Turns, TurnOrder(t), NEW type \in EventTypes,
           MayEmit(t, type), Seen(t)' = Seen(t), Seen(t) \in Seq(Event),
           UNCHANGED <<queue, outcome, ended>>,
           emitted'[t] = Append(emitted[t], [type |-> type, seq |-> Len(emitted[t]) + 1])
    PROVE  TurnOrder(t)'
<1> DEFINE em == emitted[t]
           e == [type |-> type, seq |-> Len(em) + 1]
<1>1. em \in Seq(Event)
  BY DEF TypeOK, Calls
<1>2. \A i \in 1..Len(em) : em[i].type # "final"
  <2>1. \/ type = "stream" /\ ~HasSent(t, {"final"})
        \/ type \in Terminal /\ ~HasSent(t, Terminal)
    BY TurnClientAssumption DEF MayEmit
  <2> QED
    BY <2>1 DEF HasSent, Terminal
<1>3. /\ Len(em) \in Nat /\ Len(Append(em, e)) = Len(em) + 1
      /\ \A i \in 1..Len(em) : Append(em, e)[i] = em[i]
  BY <1>1
<1>4. outcome[t] # "final"
  <2>1. EndsFinal(em) => Len(em) \in 1..Len(em)
    BY <1>1, <1>3 DEF EndsFinal
  <2> QED
    BY <1>2, <2>1 DEF TurnOrder, EndsFinal
<1> HIDE DEF e
<1>5. Begins(Seen(t), em) /\ Len(Seen(t)) \in Nat
  BY DEF TurnOrder
<1>6. emitted'[t] = Append(em, e)
  BY DEF e
<1> HIDE DEF em
<1>7. FinalIsLast(Append(em, e))
  <2>1. \A i \in 1..Len(Append(em, e)) : i = Len(Append(em, e)) \/ i \in 1..Len(em)
    BY <1>3
  <2> QED
    BY <1>2, <1>3, <2>1 DEF FinalIsLast
<1>8. Begins(Seen(t), Append(em, e))
  BY <1>3, <1>5 DEF Begins
<1> QED
  BY <1>4, <1>6, <1>7, <1>8 DEF TurnOrder
\* Steps that neither send nor hand on a frame: requests stay routed and turns
\* in step, when wires are only emptied and sockets only abandoned.
LEMMA QuietKept ==
    ASSUME TypeOK, EventInv, UNCHANGED <<heard, emitted>>,
           \A t \in Turns : Seen(t)' = Seen(t),
           \A t \in Turns : outcome'[t] = "none" => outcome[t] = "none",
           turns' \subseteq turns,
           \A q \in Requests : answer'[q] = "none" => answer[q] = "none",
           \A s \in Sockets : readyState[s] # "none" => readyState'[s] # "none",
           \A s \in Sockets : wire'[s] = wire[s] \/ wire'[s] = <<>>,
           \A t \in turns : heard[t] = socket' /\ subscribed' =>
                heard[t] = socket /\ subscribed /\ (t \in turns' => wire'[socket] = wire[socket])
    PROVE  Routed' /\ InSync'
<1>1. Routed'
  <2>1. \A s \in Sockets : \A i \in 1..Len(wire'[s]) : heard[wire'[s][i].id] = s
    <3>1. Len(<<>>) = 0
      OBVIOUS
    <3> QED
      BY <3>1 DEF EventInv, Routed
  <2>2. \A r \in Calls : heard[r] = NoSocket => emitted'[r] = emitted[r]
    OBVIOUS
  <2> QED
    BY <2>1, <2>2, RoutedKept DEF EventInv
<1>2. ASSUME NEW t \in Turns
      PROVE  Listening(t)' => Listening(t) /\ wire'[heard[t]] = wire[heard[t]]
  BY DEF Listening
<1>3. ASSUME NEW t \in Turns
      PROVE  Listening(t)' => InStep(t, wire'[heard'[t]], Len(Seen(t)'), emitted'[t])
  BY <1>2, SyncKept DEF EventInv
<1> QED
  BY <1>1, <1>3 DEF InSync

\* The timers, closes and disconnects among them keep the order of events.
LEMMA SilentKept ==
    ASSUME TypeOK, EventInv, UNCHANGED <<heard, emitted, got, queue>>,
           \A t \in Turns :
                \/ (outcome'[t] = outcome[t] /\ ended'[t] = ended[t])
                \/ /\ outcome[t] \notin Terminal /\ outcome'[t] = "error"
                   /\ ended'[t] = ended[t] \/ (ended'[t] = "thrown" /\ queue[t] = <<>>),
           turns' \subseteq turns,
           \A q \in Requests : answer'[q] = "none" => answer[q] = "none",
           \A s \in Sockets : readyState[s] # "none" => readyState'[s] # "none",
           \A s \in Sockets : wire'[s] = wire[s] \/ wire'[s] = <<>>,
           \A t \in turns : heard[t] = socket' /\ subscribed' =>
                heard[t] = socket /\ subscribed /\ (t \in turns' => wire'[socket] = wire[socket])
    PROVE  EventInv'
<1>1. \A t \in Turns : Seen(t)' = Seen(t)
  BY DEF Seen
<1>2. \A t \in Turns : outcome'[t] = "none" => outcome[t] = "none"
  OBVIOUS
<1>3. Routed' /\ InSync'
  BY <1>1, <1>2, QuietKept
<1>4. ASSUME NEW t \in Turns
      PROVE  TurnOrder(t)'
  BY <1>1, OrderKept DEF EventInv
<1> QED
  BY <1>3, <1>4 DEF EventInv

\* close() does not make a socket a new one.
LEMMA ClosedIsDialled ==
    ASSUME NEW x, x # "none"
    PROVE  Closed(x) # "none"
  BY DEF Closed

\* sendMessage, on a turn of which nothing is on any wire.
LEMMA SendOrder ==
    ASSUME TypeOK, NoLostWakeup, EventInv, NEW t \in Turns, SendMessage(t)
    PROVE  EventInv'
<1>1. /\ outcome[t] = "none" /\ heard[t] = NoSocket /\ emitted[t] = <<>>
      /\ UNCHANGED <<socket, readyState, wire, subscribed, answer, queue, got, ended, emitted>>
      /\ t \in Calls /\ t \notin turns
  BY DEF SendMessage, EventInv, Routed, NoLostWakeup, transport, requests, Calls
<1>2. \A u \in Turns : Seen(u)' = Seen(u)
  BY <1>1 DEF Seen
<1>3. CASE ~CanSend
  <2>1. outcome' = [outcome EXCEPT ![t] = "error"] /\ UNCHANGED <<turns, heard>>
    BY <1>3 DEF SendMessage
  <2>2. \A u \in Turns :
            \/ (outcome'[u] = outcome[u] /\ ended'[u] = ended[u])
            \/ /\ outcome[u] \notin Terminal /\ outcome'[u] = "error"
               /\ ended'[u] = ended[u] \/ (ended'[u] = "thrown" /\ queue[u] = <<>>)
    BY <1>1, <2>1 DEF TypeOK, Terminal
  <2> QED
    BY <1>1, <2>1, <2>2, SilentKept
<1>4. CASE CanSend
  <2>1. /\ outcome' = [outcome EXCEPT ![t] = "open"]
        /\ turns' = turns \cup {t}
        /\ heard' = [heard EXCEPT ![t] = socket]
        /\ socket \in Sockets /\ readyState[socket] = "open"
    BY <1>4 DEF SendMessage, CanSend, TypeOK
  <2>2. /\ heard'[t] = socket /\ \A r \in Calls \ {t} : heard'[r] = heard[r]
        /\ outcome'[t] = "open" /\ \A u \in Turns \ {t} : outcome'[u] = outcome[u]
    BY <1>1, <2>1 DEF TypeOK
  <2>3. \A s \in Sockets : wire[s] \in Seq(Frame) /\ s # NoSocket
    BY TurnClientAssumption DEF TypeOK
  <2>4. \A s \in Sockets : \A i \in 1..Len(wire[s]) :
            wire[s][i].id \in Calls \ {t} /\ heard[wire[s][i].id] = s
    <3> SUFFICES ASSUME NEW s \in Sockets, NEW i \in 1..Len(wire[s])
                 PROVE  wire[s][i].id \in Calls \ {t} /\ heard[wire[s][i].id] = s
      OBVIOUS
    <3>1. wire[s][i] \in Frame
      BY <2>3
    <3> QED
      BY <1>1, <2>3, <3>1 DEF Frame, EventInv, Routed
  <2>5. Routed'
    <3>1. \A r \in Calls : /\ heard'[r] # NoSocket => readyState[heard'[r]] # "none"
                           /\ heard'[r] = NoSocket => emitted[r] = <<>>
      BY <2>1, <2>2, <2>3 DEF EventInv, Routed
    <3>2. \A s \in Sockets : \A i \in 1..Len(wire[s]) : heard'[wire[s][i].id] = s
      BY <2>2, <2>4
    <3>3. \A u \in Turns : /\ outcome'[u] = "none" => heard'[u] = NoSocket
                           /\ u \in turns' => heard'[u] # NoSocket
      BY <2>1, <2>2, <2>3 DEF EventInv, Routed, Calls
    <3>4. \A q \in Requests : answer[q] = "none" => heard'[q] = NoSocket
      BY <2>2, TurnClientAssumption DEF EventInv, Routed, Calls
    <3> QED
      BY <1>1, <3>1, <3>2, <3>3, <3>4 DEF Routed
  <2>6. Begins(Seen(t), <<>>) /\ Len(Seen(t)) = 0
    <3>1. Begins(Seen(t), emitted[t])
      BY DEF EventInv, TurnOrder
    <3> QED
      BY <1>1, <3>1, SeenTyped DEF Begins
  <2>7. InSync'
    <3> SUFFICES ASSUME NEW u \in Turns, Listening(u)'
                 PROVE  InStep(u, wire'[heard'[u]], Len(Seen(u)'), emitted'[u])
      BY DEF InSync
    <3>1. CASE u = t
      <4>1. InStep(t, wire[socket], 0, <<>>)
        BY <2>1, <2>3, <2>4, InStepAtStart
      <4> QED
        BY <1>1, <1>2, <2>2, <2>6, <3>1, <4>1
    <3>2. CASE u # t
      <4>1. Listening(u) /\ heard'[u] = heard[u]
        BY <1>1, <2>1, <2>2, <3>2 DEF Listening, Calls
      <4> QED
        BY <1>1, <1>2, <4>1 DEF EventInv, InSync
    <3> QED
      BY <3>1, <3>2
  <2>8. ASSUME NEW u \in Turns
        PROVE  TurnOrder(u)'
    <3>1. TurnOrder(u)
      BY DEF EventInv
    <3>2. CASE u = t
      BY <1>1, <1>2, <2>2, <3>1, <3>2 DEF TurnOrder
    <3>3. CASE u # t
      BY <1>1, <1>2, <2>2, <3>1, <3>3 DEF TurnOrder
    <3> QED
      BY <3>2, <3>3
  <2> QED
    BY <2>5, <2>7, <2>8 DEF EventInv
<1> QED
  BY <1>3, <1>4

\* request, on a request of which nothing is on any wire either.
LEMMA RequestOrder ==
    ASSUME TypeOK, EventInv, NEW q \in Requests, Request(q)
    PROVE  EventInv'
<1>1. /\ heard[q] = NoSocket
      /\ UNCHANGED <<socket, readyState, wire, subscribed, turns, outcome, queue, got, ended, emitted>>
      /\ q \in Calls /\ q \notin Turns
  BY TurnClientAssumption DEF Request, EventInv, Routed, transport, turnState, Calls
<1>2. CASE ~CanSend
  <2>1. answer' = [answer EXCEPT ![q] = "error"] /\ UNCHANGED heard
    BY <1>2 DEF Request
  <2>2. \A x \in Requests : answer'[x] = "none" => answer[x] = "none"
    BY <2>1 DEF TypeOK
  <2> QED
    BY <1>1, <2>1, <2>2, SilentKept
<1>3. CASE CanSend
  <2>1. /\ answer' = [answer EXCEPT ![q] = "waiting"]
        /\ heard' = [heard EXCEPT ![q] = socket]
        /\ socket \in Sockets /\ readyState[socket] = "open"
    BY <1>3 DEF Request, CanSend, TypeOK
  <2>2. /\ heard'[q] = socket /\ \A r \in Calls \ {q} : heard'[r] = heard[r]
        /\ answer'[q] = "waiting" /\ \A x \in Requests \ {q} : answer'[x] = answer[x]
    BY <1>1, <2>1 DEF TypeOK
  <2>3. \A s \in Sockets : wire[s] \in Seq(Frame) /\ s # NoSocket
    BY TurnClientAssumption DEF TypeOK
  <2>4. \A s \in Sockets : \A i \in 1..Len(wire[s]) : heard'[wire[s][i].id] = s
    <3> SUFFICES ASSUME NEW s \in Sockets, NEW i \in 1..Len(wire[s])
                 PROVE  heard'[wire[s][i].id] = s
      OBVIOUS
    <3>1. wire[s][i] \in Frame
      BY <2>3
    <3> QED
      BY <1>1, <2>2, <2>3, <3>1 DEF Frame, EventInv, Routed
  <2>5. \A u \in Turns : heard'[u] = heard[u]
    BY <1>1, <2>2 DEF Calls
  <2>6. Routed'
    <3>1. \A r \in Calls : /\ heard'[r] # NoSocket => readyState[heard'[r]] # "none"
                           /\ heard'[r] = NoSocket => emitted[r] = <<>>
      BY <2>1, <2>2, <2>3 DEF EventInv, Routed
    <3>2. \A x \in Requests : answer'[x] = "none" => heard'[x] = NoSocket
      BY <2>2 DEF EventInv, Routed, Calls
    <3> QED
      BY <1>1, <2>4, <2>5, <3>1, <3>2 DEF EventInv, Routed
  <2>7. \A u \in Turns : Seen(u)' = Seen(u)
    BY <1>1 DEF Seen
  <2>8. InSync'
    <3> SUFFICES ASSUME NEW u \in Turns, Listening(u)'
                 PROVE  InStep(u, wire'[heard'[u]], Len(Seen(u)'), emitted'[u])
      BY DEF InSync
    <3>1. Listening(u)
      BY <1>1, <2>5 DEF Listening
    <3> QED
      BY <1>1, <2>5, <2>7, <3>1 DEF EventInv, InSync
  <2>9. ASSUME NEW u \in Turns
        PROVE  TurnOrder(u)'
    BY <1>1, <2>7, OrderKept DEF EventInv
  <2> QED
    BY <2>6, <2>8, <2>9 DEF EventInv
<1> QED
  BY <1>2, <1>3
\* next() takes from the queue, ends the iteration, or is parked.
LEMMA NextCallOrder ==
    ASSUME TypeOK, NoLostWakeup, EventInv, NEW t \in Turns, NextCall(t)
    PROVE  EventInv'
<1>1. /\ ~waiter[t] /\ ended[t] = "no"
      /\ UNCHANGED <<socket, readyState, wire, subscribed, answer, turns, outcome, heard, emitted>>
  BY DEF NextCall, transport, requests, server
<1>2. \A u \in Turns : Seen(u)' = Seen(u)
  BY NextCallSeen
<1>3. Routed' /\ InSync'
  BY <1>1, <1>2, QuietKept
<1>4. ASSUME NEW u \in Turns, ended'[u] = ended[u], ended[u] = "no" \/ queue'[u] = queue[u]
      PROVE  TurnOrder(u)'
  BY <1>1, <1>2, <1>4 DEF EventInv, TurnOrder
<1>5. CASE ended' = ended
  <2>1. \A u \in Turns : u = t \/ queue'[u] = queue[u]
    BY DEF NextCall, TypeOK
  <2> QED
    BY <1>1, <1>3, <1>4, <1>5, <2>1 DEF EventInv
<1>6. CASE /\ queue[t] = <<>> /\ Done(t) /\ queue' = queue
           /\ ended' = [ended EXCEPT ![t] = IF outcome[t] = "error" THEN "thrown" ELSE "done"]
  <2>1. ended'[t] = (IF outcome[t] = "error" THEN "thrown" ELSE "done")
        /\ \A u \in Turns \ {t} : ended'[u] = ended[u]
    BY <1>6 DEF TypeOK
  <2>2. outcome[t] \in {"final", "error"}
    BY <1>6 DEF Done, Terminal
  <2>3. TurnOrder(t)'
    BY <1>1, <1>2, <1>6, <2>1, <2>2 DEF EventInv, TurnOrder
  <2> QED
    BY <1>3, <1>4, <1>6, <2>1, <2>3 DEF EventInv
<1> QED
  BY <1>5, <1>6 DEF NextCall

\* Whatever ends turns without an event: the timer of a turn, the end of the
\* current socket, and disconnect.
LEMMA EndOrder ==
    ASSUME TypeOK, NoLostWakeup, EventInv,
           \/ \E t \in Turns : TurnTimeout(t)
           \/ \E s \in Sockets : SocketCloses(s)
           \/ Disconnect
    PROVE  EventInv'
<1>1. ASSUME NEW t \in Turns, TurnTimeout(t)
      PROVE  EventInv'
  <2> DEFINE T == {t} \ {u \in Turns : Done(u)}
  <2>1. T \in SUBSET Turns /\ \A u \in T : ~Done(u)
    OBVIOUS
  <2>2. Finish(T, "error") /\ UNCHANGED <<transport, wire, subscribed, requests, server>>
    BY <1>1 DEF TurnTimeout
  <2> HIDE DEF T
  <2>3. UNCHANGED <<socket, readyState, wire, subscribed, answer, heard, emitted>>
    BY <2>2 DEF transport, requests, server
  <2>4. /\ got' = got /\ queue' = queue /\ turns' \subseteq turns
        /\ \A u \in Turns :
                \/ (outcome'[u] = outcome[u] /\ ended'[u] = ended[u])
                \/ /\ outcome[u] \notin Terminal /\ outcome'[u] = "error"
                   /\ ended'[u] = ended[u] \/ (ended'[u] = "thrown" /\ queue[u] = <<>>)
    BY <2>1, <2>2, FinishSeen
  <2> QED
    BY <2>3, <2>4, SilentKept
<1>2. ASSUME FailAll, UNCHANGED <<heard, emitted>>, socket' = socket, subscribed' => subscribed,
             \A x \in Sockets : readyState[x] # "none" => readyState'[x] # "none",
             \A x \in Sockets : wire'[x] = wire[x] \/ wire'[x] = <<>>
      PROVE  EventInv'
  <2>1. /\ got' = got /\ queue' = queue /\ turns' = {}
        /\ \A q \in Requests : answer'[q] = "none" => answer[q] = "none"
        /\ \A u \in Turns :
                \/ (outcome'[u] = outcome[u] /\ ended'[u] = ended[u])
                \/ /\ outcome[u] \notin Terminal /\ outcome'[u] = "error"
                   /\ ended'[u] = ended[u] \/ (ended'[u] = "thrown" /\ queue[u] = <<>>)
    BY <1>2, FailAllSeen
  <2>2. \A u \in turns : u \notin turns'
    BY <2>1
  <2> QED
    BY <1>2, <2>1, <2>2, SilentKept
<1>3. ASSUME NEW s \in Sockets, SocketCloses(s)
      PROVE  EventInv'
  <2>1. /\ readyState' = [readyState EXCEPT ![s] = "closed"]
        /\ wire' = [wire EXCEPT ![s] = <<>>]
        /\ UNCHANGED <<socket, subscribed, heard, emitted>>
    BY <1>3 DEF SocketCloses, server
  <2>2. \A x \in Sockets : readyState[x] # "none" => readyState'[x] # "none"
    BY <2>1 DEF TypeOK
  <2>3. \A x \in Sockets : wire'[x] = wire[x] \/ wire'[x] = <<>>
    BY <2>1 DEF TypeOK
  <2>4. CASE FailAll
    BY <1>2, <2>1, <2>2, <2>3, <2>4
  <2>5. CASE (socket # s \/ ~subscribed) /\ UNCHANGED <<requests, turnState>>
    <3>1. UNCHANGED <<answer, turns, queue, got, outcome, ended>>
      BY <2>5 DEF requests, turnState
    <3>2. \A u \in turns : heard[u] = socket /\ subscribed => wire'[socket] = wire[socket]
      <4>1. \A u \in turns : heard[u] \in Sockets
        BY DEF EventInv, Routed, TypeOK, Calls
      <4> QED
        BY <2>1, <2>5, <4>1 DEF TypeOK
    <3> QED
      BY <2>1, <2>2, <2>3, <3>1, <3>2, SilentKept
  <2> QED
    BY <1>3, <2>4, <2>5 DEF SocketCloses
<1>4. CASE Disconnect
  <2>1. /\ FailAll /\ subscribed' = FALSE /\ UNCHANGED <<socket, wire, heard, emitted>>
        /\ readyState' = [x \in Sockets |->
                IF x = socket THEN Closed(readyState[x]) ELSE readyState[x]]
    BY <1>4 DEF Disconnect, server
  <2>2. \A x \in Sockets : readyState[x] # "none" => readyState'[x] # "none"
    BY <2>1, ClosedIsDialled
  <2> QED
    BY <1>2, <2>1, <2>2
<1> QED
  BY <1>1, <1>3, <1>4

\* The steps of the transport that neither end turns nor hand on frames; a new
\* dial takes the socket away from every turn under way.
LEMMA TransportOrder ==
    ASSUME TypeOK, NoLostWakeup, EventInv, NEW s \in Sockets,
           Connect(s) \/ ConnectTimeout(s) \/ SocketOpens(s) \/ SocketErrors(s)
    PROVE  EventInv'
<1>1. UNCHANGED <<wire, subscribed, answer, turns, queue, got, outcome, ended, heard, emitted>>
  BY DEF Connect, ConnectTimeout, SocketOpens, SocketErrors, requests, turnState, server
<1>2. \A u \in turns : heard[u] # NoSocket /\ readyState[heard[u]] # "none"
  BY DEF EventInv, Routed, TypeOK, Calls
<1>3. \A u \in turns : heard[u] = socket' => heard[u] = socket
  <2>1. CASE Connect(s)
    BY <1>2, <2>1 DEF Connect
  <2>2. CASE ~Connect(s)
    <3>1. socket' \in {socket, NoSocket}
      BY <2>2 DEF ConnectTimeout, SocketOpens, SocketErrors
    <3> QED
      BY <1>2, <3>1
  <2> QED
    BY <2>1, <2>2
<1>4. \A x \in Sockets : readyState[x] # "none" => readyState'[x] # "none"
  <2>1. CASE Connect(s)
    BY <2>1, ClosedIsDialled DEF Connect
  <2>2. CASE ConnectTimeout(s)
    BY <2>2, ClosedIsDialled DEF ConnectTimeout, TypeOK
  <2>3. CASE SocketOpens(s) \/ SocketErrors(s)
    BY <2>3 DEF SocketOpens, SocketErrors, TypeOK
  <2> QED
    BY <2>1, <2>2, <2>3
<1> QED
  BY <1>1, <1>3, <1>4, SilentKept

\* The message event: the next event for its turn, an answer, or a frame that
\* nobody waits for.
LEMMA MessageOrder ==
    ASSUME TypeOK, NoLostWakeup, EventInv, NEW s \in Sockets, SocketMessage(s)
    PROVE  EventInv'
<1> DEFINE f == Head(wire[s])
<1>1. /\ wire[s] # <<>> /\ wire' = [wire EXCEPT ![s] = Tail(@)]
      /\ UNCHANGED <<socket, readyState, subscribed, heard, emitted>>
  BY DEF SocketMessage, transport, server
<1>2. /\ wire[s] \in Seq(Frame) /\ wire'[s] = Tail(wire[s])
      /\ \A x \in Sockets \ {s} : wire'[x] = wire[x]
  BY <1>1 DEF TypeOK
<1>3. f \in Frame /\ f = wire[s][1] /\ 1 \in 1..Len(wire[s])
  BY <1>1, <1>2
<1>4. f.id \in Calls /\ f.event \in Event /\ heard[f.id] = s
  BY <1>3 DEF Frame, EventInv, Routed
<1>5. \A x \in Sockets : \A i \in 1..Len(wire'[x]) : heard[wire'[x][i].id] = x
  BY <1>1, WireKept DEF EventInv
<1> HIDE DEF f
<1>6. \A u \in turns : u \in Turns /\ heard[u] \in Sockets /\ emitted[u] \in Seq(Event)
                       /\ Len(Seen(u)) \in Nat
  <2> SUFFICES ASSUME NEW u \in turns
               PROVE  u \in Turns /\ heard[u] \in Sockets /\ emitted[u] \in Seq(Event)
                      /\ Len(Seen(u)) \in Nat
    OBVIOUS
  <2>1. u \in Turns /\ heard[u] \in Sockets /\ emitted[u] \in Seq(Event)
    BY DEF EventInv, Routed, TypeOK, Calls
  <2> QED
    BY <2>1, SeenTyped
\* A turn that is not the frame's is where it was on the wire.
<1>7. ASSUME NEW u \in Turns, u # f.id \/ ~Listening(u), Listening(u)',
             turns' \subseteq turns, Seen(u)' = Seen(u)
      PROVE  InStep(u, wire'[heard'[u]], Len(Seen(u)'), emitted'[u])
  <2>1. Listening(u) /\ u \in turns /\ u # f.id
    BY <1>1, <1>7 DEF Listening
  <2>2. InStep(u, wire[heard[u]], Len(Seen(u)), emitted[u])
    BY <2>1 DEF EventInv, InSync
  <2>3. CASE heard[u] = s
    <3>1. InStep(u, Tail(wire[s]), Len(Seen(u)), emitted[u])
      BY <1>1, <1>2, <1>6, <2>1, <2>2, <2>3, InStepPastOther DEF f
    <3> QED
      BY <1>1, <1>2, <1>7, <2>3, <3>1
  <2>4. CASE heard[u] # s
    BY <1>1, <1>2, <1>6, <1>7, <2>1, <2>2, <2>4
  <2> QED
    BY <2>3, <2>4
<1>8. ASSUME NEW t \in turns, NEW e \in Event, f.id = t, f.event = e,
             socket = s, subscribed, Push(t, e), UNCHANGED requests
      PROVE  EventInv'
  <2> DEFINE n == Len(Seen(t))
  <2>1. t \in Turns /\ Push(t, e) /\ Listening(t)
    BY <1>4, <1>6, <1>8 DEF Listening
  <2>2. /\ Seen(t)' = Append(Seen(t), e) /\ Seen(t) \in Seq(Event)
        /\ outcome[t] = "open"
        /\ outcome'[t] = (IF e.type \in Terminal THEN e.type ELSE "open")
        /\ ended' = ended /\ turns' \subseteq turns
        /\ \A u \in Turns \ {t} : /\ got'[u] = got[u] /\ queue'[u] = queue[u]
                                  /\ outcome'[u] = outcome[u]
    BY <2>1, PushSeen
  <2>3. InStep(t, wire[s], n, emitted[t])
    BY <1>4, <1>8, <2>1 DEF EventInv, InSync
  <2>4. n \in Nat /\ emitted[t] \in Seq(Event)
    BY <1>6, <2>1
  <2>5. /\ n + 1 \in 1..Len(emitted[t])
        /\ e = emitted[t][n + 1]
        /\ InStep(t, Tail(wire[s]), n + 1, emitted[t])
    <3>1. wire[s] \in Seq(Frame) /\ wire[s] # <<>>
      BY <1>1, <1>2
    <3>2. Head(wire[s]).id = t /\ Head(wire[s]).event = e
      BY <1>8 DEF f
    <3> HIDE DEF n
    <3>3. Advances(t, wire[s], n, emitted[t])
      BY <2>3, <2>4, <3>1, <3>2, InStepAtHead
    <3> QED
      BY <3>2, <3>3 DEF Advances
  <2>6. \A u \in Turns \ {t} : Seen(u)' = Seen(u)
    BY <2>2 DEF Seen
  <2>7. TurnOrder(t)'
    BY <1>1, <2>1, <2>5, PushOrder DEF EventInv
  <2>8. \A u \in Turns \ {t} : TurnOrder(u)'
    BY <1>1, <2>2, <2>6, OrderKept DEF EventInv
  <2>9. Routed'
    <3>1. \A u \in Turns : outcome'[u] = "none" => outcome[u] = "none"
      BY <2>2 DEF Terminal
    <3>2. answer' = answer
      BY <1>8 DEF requests
    <3> QED
      BY <1>1, <1>5, <2>2, <3>1, <3>2, RoutedKept DEF EventInv
  <2>10. InSync'
    <3> SUFFICES ASSUME NEW u \in Turns, Listening(u)'
                 PROVE  InStep(u, wire'[heard'[u]], Len(Seen(u)'), emitted'[u])
      BY DEF InSync
    <3>1. CASE u = t
      <4>1. Len(Seen(t)') = n + 1 /\ heard'[t] = s
        BY <1>1, <1>4, <1>8, <2>2, <2>4
      <4> QED
        BY <1>1, <1>2, <2>5, <3>1, <4>1
    <3>2. CASE u # t
      BY <1>7, <1>8, <2>2, <2>6, <3>2
    <3> QED
      BY <3>1, <3>2
  <2> QED
    BY <2>7, <2>8, <2>9, <2>10 DEF EventInv
<1>9. CASE /\ UNCHANGED turnState
           /\ f.id \notin turns \/ ~(socket = s /\ subscribed)
           /\ \A q \in Requests : answer'[q] = "none" => answer[q] = "none"
  <2>1. UNCHANGED <<turns, queue, got, outcome, ended>>
    BY <1>9 DEF turnState
  <2>2. \A u \in Turns : Seen(u)' = Seen(u)
    BY <2>1 DEF Seen
  <2>3. Routed'
    BY <1>1, <1>5, <1>9, <2>1, RoutedKept DEF EventInv
  <2>4. InSync'
    <3> SUFFICES ASSUME NEW u \in Turns, Listening(u)'
                 PROVE  InStep(u, wire'[heard'[u]], Len(Seen(u)'), emitted'[u])
      BY DEF InSync
    <3>1. u # f.id \/ ~Listening(u)
      BY <1>4, <1>9 DEF Listening
    <3> QED
      BY <1>7, <2>1, <2>2, <3>1
  <2>5. \A u \in Turns : TurnOrder(u)'
    BY <1>1, <2>1, <2>2, OrderKept DEF EventInv
  <2> QED
    BY <2>3, <2>4, <2>5 DEF EventInv
<1>10. CASE socket = s /\ subscribed
  <2>1. HandleFrame(f)
    BY <1>10 DEF SocketMessage, f
  <2>2. CASE /\ f.id \in pending
             /\ answer' = [answer EXCEPT
                    ![f.id] = IF f.event.type = "error" THEN "error" ELSE "ok"]
             /\ UNCHANGED turnState
    <3>1. f.id \notin turns
      BY <2>2, TurnClientAssumption DEF TypeOK
    <3>2. \A q \in Requests : answer'[q] = "none" => answer[q] = "none"
      BY <2>2 DEF TypeOK
    <3> QED
      BY <1>9, <2>2, <3>1, <3>2
  <2>3. CASE f.id \notin turns /\ UNCHANGED <<requests, turnState>>
    <3>1. UNCHANGED turnState /\ answer' = answer
      BY <2>3 DEF requests
    <3> QED
      BY <1>9, <2>3, <3>1
  <2>4. CASE f.id \in turns /\ Push(f.id, f.event) /\ UNCHANGED requests
    BY <1>4, <1>8, <1>10, <2>4
  <2> QED
    BY <2>1, <2>2, <2>3, <2>4 DEF HandleFrame
<1>11. CASE ~(socket = s /\ subscribed)
  <2>1. UNCHANGED turnState /\ answer' = answer
    BY <1>11 DEF SocketMessage, requests
  <2> QED
    BY <1>9, <1>11, <2>1
<1> QED
  BY <1>10, <1>11

\* The server sends: the event goes to the end of both.
LEMMA ServerOrder ==
    ASSUME TypeOK, NoLostWakeup, EventInv, NEW r \in Calls, NEW type \in EventTypes,
           ServerEmits(r, type)
    PROVE  EventInv'
<1> DEFINE e == [type |-> type, seq |-> Len(emitted[r]) + 1]
           h == heard[r]
           f == [id |-> r, event |-> e]
<1>1. /\ heard[r] # NoSocket /\ MayEmit(r, type)
      /\ emitted' = [emitted EXCEPT ![r] = Append(@, e)]
      /\ wire' = [wire EXCEPT ![h] = Append(@, f)]
      /\ UNCHANGED <<socket, readyState, subscribed, answer, turns, queue, got, outcome, ended, heard>>
  BY DEF ServerEmits, transport, requests, turnState
<1>2. /\ h \in Sockets /\ wire[h] \in Seq(Frame) /\ emitted[r] \in Seq(Event)
      /\ Len(emitted[r]) \in Nat
  BY <1>1 DEF TypeOK
<1>3. e \in Event /\ e.seq = Len(emitted[r]) + 1
  BY <1>2 DEF Event
<1>4. f \in Frame /\ f.id = r
  BY <1>3 DEF Frame
<1>5. /\ emitted'[r] = Append(emitted[r], e)
      /\ \A x \in Calls \ {r} : emitted'[x] = emitted[x]
      /\ wire'[h] = Append(wire[h], f)
      /\ \A x \in Sockets \ {h} : wire'[x] = wire[x]
  BY <1>1, <1>2 DEF TypeOK
<1>6. \A u \in Turns : Seen(u)' = Seen(u) /\ Seen(u) \in Seq(Event) /\ Len(Seen(u)) \in Nat
  <2> SUFFICES ASSUME NEW u \in Turns
               PROVE  Seen(u)' = Seen(u) /\ Seen(u) \in Seq(Event) /\ Len(Seen(u)) \in Nat
    OBVIOUS
  <2>1. Seen(u)' = Seen(u)
    BY <1>1 DEF Seen
  <2> QED
    BY <2>1, SeenTyped
<1>7. Routed'
  <2>1. \A x \in Sockets : \A i \in 1..Len(wire'[x]) : heard[wire'[x][i].id] = x
    <3>1. \A i \in 1..Len(Append(wire[h], f)) : heard[Append(wire[h], f)[i].id] = h
      <4> SUFFICES ASSUME NEW i \in 1..Len(Append(wire[h], f))
                   PROVE  heard[Append(wire[h], f)[i].id] = h
        OBVIOUS
      <4> HIDE DEF f
      <4>1. \/ i \in 1..Len(wire[h]) /\ Append(wire[h], f)[i] = wire[h][i]
            \/ Append(wire[h], f)[i] = f
        BY <1>2, <1>4
      <4>2. \A j \in 1..Len(wire[h]) : heard[wire[h][j].id] = h
        BY <1>2 DEF EventInv, Routed
      <4>3. heard[f.id] = h
        BY <1>4
      <4> QED
        BY <4>1, <4>2, <4>3
    <3>2. \A x \in Sockets \ {h} : \A i \in 1..Len(wire[x]) : heard[wire[x][i].id] = x
      BY DEF EventInv, Routed
    <3>3. \A x \in Sockets \ {h} : \A i \in 1..Len(wire'[x]) : heard[wire'[x][i].id] = x
      BY <1>5, <3>2
    <3>4. \A i \in 1..Len(wire'[h]) : heard[wire'[h][i].id] = h
      BY <1>5, <3>1
    <3> HIDE DEF h, f
    <3> QED
      BY <3>3, <3>4
  <2>2. \A x \in Calls : heard[x] = NoSocket => emitted'[x] = emitted[x]
    BY <1>1, <1>5
  <2> HIDE DEF e, f, h
  <2> QED
    BY <1>1, <2>1, <2>2, RoutedKept DEF EventInv
<1>8. InSync'
  <2> SUFFICES ASSUME NEW u \in Turns, Listening(u)'
               PROVE  InStep(u, wire'[heard'[u]], Len(Seen(u)'), emitted'[u])
    BY DEF InSync
  <2>1. Listening(u) /\ InStep(u, wire[heard[u]], Len(Seen(u)), emitted[u])
    BY <1>1 DEF Listening, EventInv, InSync
  <2>2. u \in Calls /\ emitted[u] \in Seq(Event) /\ heard[u] \in Sockets
    BY <2>1 DEF Calls, TypeOK, Listening, EventInv, Routed
  <2>3. CASE u = r
    <3>1. Len(Seen(u)) <= Len(emitted[u])
      BY DEF EventInv, TurnOrder, Begins
    <3>2. InStep(u, Append(wire[h], f), Len(Seen(u)), Append(emitted[u], e))
      <4>1. InStep(r, wire[h], Len(Seen(r)), emitted[r]) /\ Len(Seen(r)) \in Nat
            /\ Len(Seen(r)) <= Len(emitted[r])
        BY <1>6, <2>1, <2>3, <3>1
      <4> HIDE DEF e, h
      <4> QED
        BY <1>2, <1>3, <1>4, <2>3, <4>1, InStepEmits
    <3> QED
      BY <1>1, <1>5, <1>6, <2>3, <3>2
  <2>4. CASE u # r
    <3>1. emitted'[u] = emitted[u]
      BY <1>5, <2>2, <2>4
    <3>2. CASE heard[u] = h
      <4>1. InStep(u, Append(wire[h], f), Len(Seen(u)), emitted[u])
        <5> HIDE DEF f, h
        <5> QED
          BY <1>2, <1>4, <1>6, <2>1, <2>2, <2>4, <3>2, InStepBeforeOther
      <4> QED
        BY <1>1, <1>5, <1>6, <3>1, <3>2, <4>1
    <3>3. CASE heard[u] # h
      BY <1>1, <1>5, <1>6, <2>1, <2>2, <3>1, <3>3
    <3> QED
      BY <3>2, <3>3
  <2> QED
    BY <2>3, <2>4
<1>9. ASSUME NEW u \in Turns
      PROVE  TurnOrder(u)'
  <2>1. TurnOrder(u)
    BY DEF EventInv
  <2>2. CASE u = r
    BY <1>1, <1>5, <1>6, <2>1, <2>2, EmitOrder
  <2>3. CASE u # r
    <3>1. emitted'[u] = emitted[u]
      BY <1>5, <2>3 DEF Calls
    <3> QED
      BY <1>1, <1>6, <2>1, <3>1, OrderKept
  <2> QED
    BY <2>2, <2>3
<1> QED
  BY <1>7, <1>8, <1>9 DEF EventInv

\* Every step keeps the order of events.
LEMMA EventStep ==
    ASSUME TypeOK, NoLostWakeup, EventInv, [Next]_vars
    PROVE  EventInv'
<1>1. ASSUME NEW q \in Requests, RequestTimeout(q)
      PROVE  EventInv'
  <2>1. /\ answer' = [answer EXCEPT ![q] = "error"]
        /\ UNCHANGED <<socket, readyState, wire, subscribed, turns, queue, got, outcome, ended,
                       heard, emitted>>
    BY <1>1 DEF RequestTimeout, transport, turnState, server
  <2>2. \A x \in Requests : answer'[x] = "none" => answer[x] = "none"
    BY <2>1 DEF TypeOK
  <2> QED
    BY <2>1, <2>2, SilentKept
<1>2. CASE UNCHANGED vars
  <2>1. UNCHANGED <<socket, readyState, wire, subscribed, answer, turns, queue, got, outcome,
                    ended, heard, emitted>>
    BY <1>2 DEF vars, transport, requests, turnState, server
  <2> QED
    BY <2>1, SilentKept
<1>3. CASE \E t \in Turns : SendMessage(t) \/ NextCall(t) \/ TurnTimeout(t)
  BY <1>3, SendOrder, NextCallOrder, EndOrder
<1>4. CASE \E q \in Requests : Request(q) \/ RequestTimeout(q)
  BY <1>1, <1>4, RequestOrder
<1>5. CASE \E s \in Sockets : \/ Connect(s) \/ ConnectTimeout(s) \/ SocketOpens(s)
                              \/ SocketErrors(s) \/ SocketCloses(s) \/ SocketMessage(s)
  BY <1>5, TransportOrder, EndOrder, MessageOrder
<1>6. CASE Disconnect
  BY <1>6, EndOrder
<1>7. CASE \E r \in Calls, type \in EventTypes : ServerEmits(r, type)
  BY <1>7, ServerOrder
<1> QED
  BY <1>2, <1>3, <1>4, <1>5, <1>6, <1>7 DEF Next

\* In every run of the client, whatever sockets are dialled, lost and replaced
\* and whoever ends a turn, the iteration of a turn yields the server's events
\* in order and without a gap, all of them when it ends in eventual_response,
\* and throws on an error.
THEOREM EventsStayInOrder == Spec => []EventsInOrder
<1>1. Init => EventInv
  <2> SUFFICES ASSUME Init PROVE EventInv
    OBVIOUS
  <2>1. \A t \in Turns : Seen(t) = <<>>
    <3>1. <<>> \o <<>> = <<>>
      BY ConcatEmptySeq
    <3> QED
      BY <3>1 DEF Init, Seen
  <2>2. Routed
    <3>1. \A x \in Sockets : \A i \in 1..Len(wire[x]) : heard[wire[x][i].id] = x
      <4>1. \A x \in Sockets : wire[x] = <<>>
        BY DEF Init
      <4>2. 1..Len(<<>>) = {}
        OBVIOUS
      <4> QED
        BY <4>1, <4>2
    <3>2. \A r \in Calls : heard[r] = NoSocket /\ emitted[r] = <<>>
      BY DEF Init
    <3>3. turns = {} /\ \A t \in Turns : t \in Calls
      BY DEF Init, Calls
    <3>4. \A q \in Requests : q \in Calls
      BY DEF Calls
    <3> QED
      BY <3>1, <3>2, <3>3, <3>4 DEF Routed
  <2>3. InSync
    BY DEF Init, InSync, Listening
  <2>4. \A t \in Turns : TurnOrder(t)
    BY <2>1 DEF Init, TurnOrder, Begins, FinalIsLast, Calls
  <2> QED
    BY <2>2, <2>3, <2>4 DEF EventInv
<1>2. TypeOK /\ EventInv => EventsInOrder
  <2> SUFFICES ASSUME TypeOK, EventInv, NEW t \in Turns
               PROVE  /\ Len(Seen(t)) <= Len(emitted[t])
                      /\ Seen(t) = SubSeq(emitted[t], 1, Len(Seen(t)))
                      /\ outcome[t] = "final" => Seen(t) = emitted[t]
                      /\ ended[t] = "done" => outcome[t] = "final" /\ got[t] = emitted[t]
                      /\ ended[t] = "thrown" => outcome[t] = "error" /\ queue[t] = <<>>
    BY DEF EventsInOrder, Seen
  <2> DEFINE em == emitted[t]
             sn == Seen(t)
             sub == SubSeq(em, 1, Len(sn))
  <2>1. em \in Seq(Event) /\ got[t] \in Seq(Event) /\ queue[t] \in Seq(Event)
    BY DEF TypeOK, Calls
  <2>2. sn \in Seq(Event) /\ Len(sn) \in Nat /\ Len(em) \in Nat
    BY <2>1, SeenTyped, LenProperties
  <2>3. TurnOrder(t) /\ Begins(sn, em)
    BY DEF EventInv, TurnOrder
  <2> HIDE DEF em, sn
  <2>4. sub \in Seq(Event) /\ Len(sub) = Len(sn) /\ \A i \in 1..Len(sn) : sub[i] = em[i]
    <3>1. \A i \in 1..Len(sn) : em[i] \in Event
      BY <2>1, <2>2, <2>3 DEF Begins, em
    <3> QED
      BY <2>2, <3>1, SubSeqProperties
  <2>5. sn = sub
    <3> HIDE DEF sub
    <3> QED
      BY <2>2, <2>3, <2>4, SeqEqual DEF Begins
  <2>6. Len(sn) = Len(em) => sn = em
    BY <2>1, <2>2, <2>3, SeqEqual DEF Begins, em
  <2>7. queue[t] = <<>> => sn = got[t]
    BY <2>1, ConcatEmptySeq DEF sn, Seen
  <2> QED
    BY <2>3, <2>5, <2>6, <2>7 DEF TurnOrder, Begins, em, sn
<1> QED
  BY <1>1, <1>2, EventStep, TypeCorrect, NoWakeupIsLost, PTL DEF Spec
=============================================================================
