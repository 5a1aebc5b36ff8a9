----------------------------- MODULE TurnClient -----------------------------
(* The TypeScript client: WebSocketTransport with its dials, the maps of a *)
(* SmoothAgentClient, and MessageTurn, which is awaited and iterated.      *)
(* JavaScript runs one callback at a time, so every call of the            *)
(* application, event of a socket and timer is one action. Timeouts have   *)
(* their defaults, which are positive.                                     *)
EXTENDS Naturals, Sequences

CONSTANTS
    Sockets,        \* one for each dial; a socket is never used again
    NoSocket,       \* this.socket = null
    Turns,          \* calls of sendMessage
    Requests,       \* calls of request (create, get, ping)
    MaxEvents       \* bound: events the server sends for a turn

ASSUME TurnClientAssumption ==
    /\ NoSocket \notin Sockets
    /\ Turns \cap Requests = {}
    /\ MaxEvents \in Nat

VARIABLES
    socket,         \* WebSocketTransport.socket
    readyState,     \* of each socket; "aborting" is CLOSING before it was open
    dial,           \* the promise of connect: "none", "pending", "resolved", "rejected"
    dialTimer,      \* is the connect timer armed
    wire,           \* frames on their way to the client
    subscribed,     \* are handleFrame and failAll registered
    pending,        \* SmoothAgentClient.pending
    answer,         \* the promise of request: "none", "waiting", "ok", "error"
    turns,          \* SmoothAgentClient.turns
    queue,          \* MessageTurn.queue
    waiter,         \* is a next() parked in MessageTurn.waiter
    timeoutTimer,   \* is MessageTurn.timeoutTimer armed
    outcome,        \* the promise of a turn: "none", "open", "final", "error"
    got,            \* what the iteration has yielded
    ended,          \* how the iteration ended: "no", "done", "thrown"
    heard,          \* the socket on which the server got a request
    emitted         \* what the server has sent for a request

transport == <<socket, readyState, dial, dialTimer>>
requests == <<pending, answer>>
turnState == <<turns, queue, waiter, timeoutTimer, outcome, got, ended>>
server == <<heard, emitted>>
vars == <<transport, wire, subscribed, requests, turnState, server>>

-----------------------------------------------------------------------------
(* Data *)

Calls == Turns \cup Requests

\* The types of events that matter to the client.
EventTypes == {"stream", "final", "response", "error"}

\* TURN_TERMINAL.
Terminal == {"final", "error"}

\* The n-th event of a request.
Event == [type : EventTypes, seq : Nat]

Frame == [id : Calls, event : Event]

\* The state of a socket after its close() was called.
Closed(state) ==
    CASE state = "connecting" -> "aborting"
      [] state = "open" -> "closing"
      [] OTHER -> state

\* Transport.send does not throw.
CanSend == socket # NoSocket /\ readyState[socket] = "open"

Done(t) == outcome[t] \in Terminal

Init ==
    /\ socket = NoSocket
    /\ readyState = [s \in Sockets |-> "none"]
    /\ dial = [s \in Sockets |-> "none"]
    /\ dialTimer = [s \in Sockets |-> FALSE]
    /\ wire = [s \in Sockets |-> <<>>]
    /\ subscribed = TRUE
    /\ pending = {}
    /\ answer = [q \in Requests |-> "none"]
    /\ turns = {}
    /\ queue = [t \in Turns |-> <<>>]
    /\ waiter = [t \in Turns |-> FALSE]
    /\ timeoutTimer = [t \in Turns |-> FALSE]
    /\ outcome = [t \in Turns |-> "none"]
    /\ got = [t \in Turns |-> <<>>]
    /\ ended = [t \in Turns |-> "no"]
    /\ heard = [r \in Calls |-> NoSocket]
    /\ emitted = [r \in Calls |-> <<>>]

-----------------------------------------------------------------------------
(* MessageTurn *)

\* done, the promise of the turn, its timer and its entry in the client's map
\* (onClose), for the turns of T.
Settle(T, how) ==
    /\ outcome' = [t \in Turns |-> IF t \in T THEN how ELSE outcome[t]]
    /\ timeoutTimer' = [t \in Turns |-> t \notin T /\ timeoutTimer[t]]
    /\ turns' = turns \ T

\* finish of turns that are not done: a parked next() is released, on error by
\* a rejection.
Finish(T, how) ==
    /\ Settle(T, how)
    /\ waiter' = [t \in Turns |-> t \notin T /\ waiter[t]]
    /\ ended' = [t \in Turns |->
            IF t \in T /\ waiter[t]
            THEN IF how = "error" THEN "thrown" ELSE "done"
            ELSE ended[t]]
    /\ UNCHANGED <<queue, got>>

\* Mutant: the event is queued although a next() waits for it.
DeliverToQueue(t, e) ==
    /\ queue' = [queue EXCEPT ![t] = Append(@, e)]
    /\ UNCHANGED <<got, waiter>>

\* Mutant: the queue is a stack.
DeliverOnTop(t, e) ==
    \/ /\ waiter[t]
       /\ waiter' = [waiter EXCEPT ![t] = FALSE]
       /\ got' = [got EXCEPT ![t] = Append(@, e)]
       /\ UNCHANGED queue
    \/ /\ ~waiter[t]
       /\ queue' = [queue EXCEPT ![t] = <<e>> \o @]
       /\ UNCHANGED <<got, waiter>>

\* Mutant: the whole frame is handed on.
DeliverFrame(t, e) ==
    /\ queue' = [queue EXCEPT ![t] = Append(@, [id |-> t, event |-> e])]
    /\ UNCHANGED <<got, waiter>>

\* deliver: to the parked next(), or into the queue.
Deliver(t, e) ==
    \/ /\ waiter[t]
       /\ waiter' = [waiter EXCEPT ![t] = FALSE]
       /\ got' = [got EXCEPT ![t] = Append(@, e)]
       /\ UNCHANGED queue
    \/ /\ ~waiter[t]
       /\ queue' = [queue EXCEPT ![t] = Append(@, e)]
       /\ UNCHANGED <<got, waiter>>

\* push: the event is delivered, a terminal one then ends the turn.
Push(t, e) ==
    IF Done(t)
    THEN UNCHANGED turnState
    ELSE /\ Deliver(t, e)
         /\ Settle(IF e.type \in Terminal THEN {t} ELSE {}, e.type)
         /\ UNCHANGED ended

\* next() of the iterator, called when the one before has been answered: the
\* queue first, then the end of the turn, and otherwise it is parked.
NextCall(t) ==
    /\ outcome[t] # "none"
    /\ ~waiter[t]
    /\ ended[t] = "no"
    /\ \/ /\ queue[t] # <<>>
          /\ got' = [got EXCEPT ![t] = Append(@, Head(queue[t]))]
          /\ queue' = [queue EXCEPT ![t] = Tail(@)]
          /\ UNCHANGED <<waiter, ended>>
       \/ /\ queue[t] = <<>>
          /\ Done(t)
          /\ ended' = [ended EXCEPT
                ![t] = IF outcome[t] = "error" THEN "thrown" ELSE "done"]
          /\ UNCHANGED <<queue, got, waiter>>
       \/ /\ queue[t] = <<>>
          /\ ~Done(t)
          /\ waiter' = [waiter EXCEPT ![t] = TRUE]
          /\ UNCHANGED <<queue, got, ended>>
    /\ UNCHANGED <<transport, wire, subscribed, requests, turns, timeoutTimer,
                   outcome, server>>

\* The turn's timer fires.
TurnTimeout(t) ==
    /\ timeoutTimer[t]
    /\ Finish({t} \ {u \in Turns : Done(u)}, "error")
    /\ UNCHANGED <<transport, wire, subscribed, requests, server>>

-----------------------------------------------------------------------------
(* SmoothAgentClient *)

\* Mutant: failAll empties the maps and stops the timers, and tells nobody.
FailAllForgets ==
    /\ pending' = {}
    /\ turns' = {}
    /\ timeoutTimer' = [t \in Turns |-> t \notin turns /\ timeoutTimer[t]]
    /\ UNCHANGED <<answer, queue, waiter, outcome, got, ended>>

\* failAll: every request and every turn of the maps is rejected.
FailAll ==
    /\ pending' = {}
    /\ answer' = [q \in Requests |-> IF q \in pending THEN "error" ELSE answer[q]]
    /\ Finish({t \in turns : ~Done(t)}, "error")

\* sendMessage: the turn and its timer exist before the frame is sent, and are
\* ended at once when send throws.
SendMessage(t) ==
    /\ outcome[t] = "none"
    /\ \/ /\ CanSend
          /\ outcome' = [outcome EXCEPT ![t] = "open"]
          /\ timeoutTimer' = [timeoutTimer EXCEPT ![t] = TRUE]
          /\ turns' = turns \cup {t}
          /\ heard' = [heard EXCEPT ![t] = socket]
       \/ /\ ~CanSend
          /\ outcome' = [outcome EXCEPT ![t] = "error"]
          /\ UNCHANGED <<timeoutTimer, turns, heard>>
    /\ UNCHANGED <<transport, wire, subscribed, requests, queue, waiter, got,
                   ended, emitted>>

\* request: likewise for an action with one answer.
Request(q) ==
    /\ answer[q] = "none"
    /\ \/ /\ CanSend
          /\ answer' = [answer EXCEPT ![q] = "waiting"]
          /\ pending' = pending \cup {q}
          /\ heard' = [heard EXCEPT ![q] = socket]
       \/ /\ ~CanSend
          /\ answer' = [answer EXCEPT ![q] = "error"]
          /\ UNCHANGED <<pending, heard>>
    /\ UNCHANGED <<transport, wire, subscribed, turnState, emitted>>

\* The timer of a request, which is cleared whenever it leaves the map.
RequestTimeout(q) ==
    /\ q \in pending
    /\ pending' = pending \ {q}
    /\ answer' = [answer EXCEPT ![q] = "error"]
    /\ UNCHANGED <<transport, wire, subscribed, turnState, server>>

\* disconnect: reject what is in flight, unsubscribe for good, close.
Disconnect ==
    /\ FailAll
    /\ subscribed' = FALSE
    /\ readyState' = [s \in Sockets |->
            IF s = socket THEN Closed(readyState[s]) ELSE readyState[s]]
    /\ UNCHANGED <<socket, dial, dialTimer, wire, server>>

\* handleFrame: to the turn, to the request, or to the listeners, which keep
\* no state here.
HandleFrame(f) ==
    \/ /\ f.id \in turns
       /\ Push(f.id, f.event)
       /\ UNCHANGED requests
    \/ /\ f.id \in pending
       /\ pending' = pending \ {f.id}
       /\ answer' = [answer EXCEPT
            ![f.id] = IF f.event.type = "error" THEN "error" ELSE "ok"]
       /\ UNCHANGED turnState
    \/ /\ f.id \notin turns \cup pending
       /\ UNCHANGED <<requests, turnState>>

-----------------------------------------------------------------------------
(* WebSocketTransport *)

\* connect on a transport that is not open (on an open one it resolves and
\* does nothing): the socket of an earlier dial is closed and abandoned.
Connect(s) ==
    /\ readyState[s] = "none"
    /\ ~CanSend
    /\ socket' = s
    /\ readyState' = [x \in Sockets |->
            IF x = s THEN "connecting"
            ELSE IF x = socket THEN Closed(readyState[x]) ELSE readyState[x]]
    /\ dial' = [dial EXCEPT ![s] = "pending"]
    /\ dialTimer' = [dialTimer EXCEPT ![s] = TRUE]
    /\ UNCHANGED <<wire, subscribed, requests, turnState, server>>

\* Mutant: the dial that timed out leaves its socket dialling.
ConnectTimeoutLeaks(s) ==
    /\ dialTimer[s]
    /\ dialTimer' = [dialTimer EXCEPT ![s] = FALSE]
    /\ dial' = [dial EXCEPT ![s] = "rejected"]
    /\ socket' = IF socket = s THEN NoSocket ELSE socket
    /\ UNCHANGED <<readyState, wire, subscribed, requests, turnState, server>>

\* The connect timer fires.
ConnectTimeout(s) ==
    /\ dialTimer[s]
    /\ dialTimer' = [dialTimer EXCEPT ![s] = FALSE]
    /\ IF dial[s] = "pending"
       THEN /\ dial' = [dial EXCEPT ![s] = "rejected"]
            /\ socket' = IF socket = s THEN NoSocket ELSE socket
            /\ readyState' = [readyState EXCEPT ![s] = Closed(@)]
       ELSE UNCHANGED <<dial, socket, readyState>>
    /\ UNCHANGED <<wire, subscribed, requests, turnState, server>>

\* The open event.
SocketOpens(s) ==
    /\ readyState[s] = "connecting"
    /\ readyState' = [readyState EXCEPT ![s] = "open"]
    /\ IF socket = s /\ dial[s] = "pending"
       THEN /\ dial' = [dial EXCEPT ![s] = "resolved"]
            /\ dialTimer' = [dialTimer EXCEPT ![s] = FALSE]
       ELSE UNCHANGED <<dial, dialTimer>>
    /\ UNCHANGED <<socket, wire, subscribed, requests, turnState, server>>

\* The error event: it rejects a dial that is under way, and then the transport
\* is without a socket.
SocketErrors(s) ==
    /\ readyState[s] \in {"connecting", "aborting", "open"}
    /\ readyState' = [readyState EXCEPT ![s] = "closing"]
    /\ IF socket = s /\ dial[s] = "pending"
       THEN /\ dial' = [dial EXCEPT ![s] = "rejected"]
            /\ dialTimer' = [dialTimer EXCEPT ![s] = FALSE]
            /\ socket' = NoSocket
       ELSE UNCHANGED <<dial, dialTimer, socket>>
    /\ UNCHANGED <<wire, subscribed, requests, turnState, server>>

\* The close event, after the error event if the socket never was open. What
\* was on its way may be lost. A current socket fails everything in flight.
SocketCloses(s) ==
    /\ readyState[s] \in {"open", "closing"}
    /\ readyState' = [readyState EXCEPT ![s] = "closed"]
    /\ wire' = [wire EXCEPT ![s] = <<>>]
    /\ \/ /\ socket = s
          /\ dialTimer' = [dialTimer EXCEPT ![s] = FALSE]
          /\ IF subscribed THEN FailAll ELSE UNCHANGED <<requests, turnState>>
       \/ /\ socket # s
          /\ UNCHANGED <<dialTimer, requests, turnState>>
    /\ UNCHANGED <<socket, dial, subscribed, server>>

\* The message event; one of an abandoned socket is dropped.
SocketMessage(s) ==
    /\ readyState[s] \in {"open", "closing"}
    /\ wire[s] # <<>>
    /\ wire' = [wire EXCEPT ![s] = Tail(@)]
    /\ IF socket = s /\ subscribed
       THEN HandleFrame(Head(wire[s]))
       ELSE UNCHANGED <<requests, turnState>>
    /\ UNCHANGED <<transport, subscribed, server>>

-----------------------------------------------------------------------------
(* The server, as far as the protocol binds it: one terminal event for each *)
(* request. A stream event may follow an error (ErrorEndsTurn of ChatServer *)
(* is violated), and nothing follows eventual_response.                     *)

HasSent(r, types) == \E i \in 1..Len(emitted[r]) : emitted[r][i].type \in types

MayEmit(r, type) ==
    \/ /\ r \in Turns
       /\ Len(emitted[r]) < MaxEvents
       /\ \/ type = "stream" /\ ~HasSent(r, {"final"})
          \/ type \in Terminal /\ ~HasSent(r, Terminal)
    \/ /\ r \in Requests
       /\ emitted[r] = <<>>
       /\ type \in {"response", "error"}

ServerEmits(r, type) ==
    LET e == [type |-> type, seq |-> Len(emitted[r]) + 1] IN
    /\ heard[r] # NoSocket
    /\ readyState[heard[r]] \in {"open", "closing"}
    /\ MayEmit(r, type)
    /\ emitted' = [emitted EXCEPT ![r] = Append(@, e)]
    /\ wire' = [wire EXCEPT ![heard[r]] = Append(@, [id |-> r, event |-> e])]
    /\ UNCHANGED <<transport, subscribed, requests, turnState, heard>>

-----------------------------------------------------------------------------
(* Specification *)

Next ==
    \/ \E t \in Turns : SendMessage(t) \/ NextCall(t) \/ TurnTimeout(t)
    \/ \E q \in Requests : Request(q) \/ RequestTimeout(q)
    \/ \E s \in Sockets :
        \/ Connect(s) \/ ConnectTimeout(s) \/ SocketOpens(s)
        \/ SocketErrors(s) \/ SocketCloses(s) \/ SocketMessage(s)
    \/ Disconnect
    \/ \E r \in Calls, type \in EventTypes : ServerEmits(r, type)

Spec == Init /\ [][Next]_vars

\* Timers fire. Neither the network nor the server nor the application owes
\* anything.
Fairness ==
    /\ \A t \in Turns : WF_vars(TurnTimeout(t))
    /\ \A q \in Requests : WF_vars(RequestTimeout(q))
    /\ \A s \in Sockets : WF_vars(ConnectTimeout(s))

FairSpec == Spec /\ Fairness

-----------------------------------------------------------------------------
(* Properties *)

\* Type invariant.
TypeOK ==
    /\ socket \in Sockets \cup {NoSocket}
    /\ readyState \in [Sockets ->
            {"none", "connecting", "open", "aborting", "closing", "closed"}]
    /\ dial \in [Sockets -> {"none", "pending", "resolved", "rejected"}]
    /\ dialTimer \in [Sockets -> BOOLEAN]
    /\ wire \in [Sockets -> Seq(Frame)]
    /\ subscribed \in BOOLEAN
    /\ pending \subseteq Requests
    /\ answer \in [Requests -> {"none", "waiting", "ok", "error"}]
    /\ turns \subseteq Turns
    /\ queue \in [Turns -> Seq(Event)]
    /\ waiter \in [Turns -> BOOLEAN]
    /\ timeoutTimer \in [Turns -> BOOLEAN]
    /\ outcome \in [Turns -> {"none", "open", "final", "error"}]
    /\ got \in [Turns -> Seq(Event)]
    /\ ended \in [Turns -> {"no", "done", "thrown"}]
    /\ heard \in [Calls -> Sockets \cup {NoSocket}]
    /\ emitted \in [Calls -> Seq(Event)]

\* A next() is parked only while there is nothing to hand out and the turn is
\* open; an open turn is in the map, where frames and failAll find it, and its
\* timer is armed: no wake-up is lost, whoever ends the turn first.
NoLostWakeup ==
    /\ \A t \in Turns :
        /\ waiter[t] => queue[t] = <<>> /\ outcome[t] = "open" /\ ended[t] = "no"
        /\ outcome[t] = "open" <=> t \in turns
        /\ outcome[t] = "open" <=> timeoutTimer[t]
    /\ pending = {q \in Requests : answer[q] = "waiting"}

\* Only the transport's present socket can be dialling or open: connect, its
\* timeout and its failure leave no live socket behind.
NoOrphanSocket ==
    \A s \in Sockets : readyState[s] \in {"connecting", "open"} => s = socket

\* What the iteration has yielded or holds ready is the beginning of what the
\* server sent, in order and without a gap, and after eventual_response it is
\* everything: neither two ways of delivery nor a change of sockets reorders.
\* An iteration that ends without throwing has yielded the whole turn; the error
\* of a turn is thrown, even at a parked next().
EventsInOrder ==
    \A t \in Turns :
        LET seen == got[t] \o queue[t] IN
        /\ Len(seen) <= Len(emitted[t])
        /\ seen = SubSeq(emitted[t], 1, Len(seen))
        /\ outcome[t] = "final" => seen = emitted[t]
        /\ ended[t] = "done" => outcome[t] = "final" /\ got[t] = emitted[t]
        /\ ended[t] = "thrown" => outcome[t] = "error" /\ queue[t] = <<>>

\* Every turn and every request that was sent settles, and a parked next() is
\* released, if the server stays silent or the socket is abandoned too; connect
\* settles, also when its socket was replaced by another dial.
CallsSettle ==
    /\ \A t \in Turns : outcome[t] = "open" ~> (Done(t) /\ ~waiter[t])
    /\ \A q \in Requests : answer[q] = "waiting" ~> answer[q] # "waiting"
    /\ \A s \in Sockets : dial[s] = "pending" ~> dial[s] # "pending"
=============================================================================
