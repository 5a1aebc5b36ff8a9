----------------------------- MODULE ChatServer -----------------------------
(***************************************************************************)
(* The WebSocket server process: the reader and the writer task of each    *)
(* connection (connection_loop), the frame handlers they call, the task    *)
(* that persists a new session, and the turns of TurnRunner.               *)
(*                                                                         *)
(* The reader awaits a handler before it reads the next frame, so a        *)
(* connection runs one turn at a time; the create_conversation_session     *)
(* handler returns after spawning its persistence task, so that one runs   *)
(* on beside the reader.  Sessions, and the conversation and the response  *)
(* of each, are named by the request that creates them (a fresh UUID).     *)
(***************************************************************************)
EXTENDS TurnRunner

CONSTANTS
    Creates,        \* requests of create_conversation_session
    Probes,         \* requests answered at once: ping, get_session, bad frames
    MaxRestarts,    \* bound: crashes of the process
    Workloads       \* which requests are sent, whose clients may leave before the
                    \* end and how often the process may crash

Requests == Turns \cup Creates \cup Probes
Conns == Sinks
Rows == {"conversation", "user", "agent", "session"}

ASSUME ChatServerAssumption ==
    /\ Conversations = Creates
    /\ \A r \in Requests : SinkOf[r] \in Conns
    /\ Turns \cap (Creates \cup Probes) = {}
    /\ Creates \cap Probes = {}
    /\ MaxRestarts \in Nat
    /\ Workloads \subseteq [requests : SUBSET Requests, leavers : SUBSET Conns, crashes : 0..MaxRestarts]

VARIABLES
    reader,     \* "new", "reading", "turn", "closing" or "done" per connection
    writer,     \* is the connection's writer task alive
    written,    \* how many events of the sink the writer put on the socket
    gone,       \* has the client closed (or lost) the socket
    asked,      \* requests whose frame has been read
    creating,   \* next step of the persistence task of a create request
    rows,       \* rows persisted for a session
    sessions,   \* AppState.sessions, the in-memory session registry
    associated, \* sessions each connection is associated with on the backplane
    llm,        \* is a gateway key configured
    load,       \* the workload of this behaviour
    restarts    \* crashes so far

serverVars == <<reader, writer, written, gone, asked, creating, rows, sessions,
                associated, llm, load, restarts>>
vars == <<runnerVars, sink, serverVars>>

-----------------------------------------------------------------------------
(* Connections *)

Init ==
    /\ RunnerInit
    /\ sink = [c \in Conns |-> <<>>]
    /\ reader = [c \in Conns |-> "new"]
    /\ writer = [c \in Conns |-> FALSE]
    /\ written = [c \in Conns |-> 0]
    /\ gone = [c \in Conns |-> FALSE]
    /\ asked = {}
    /\ creating = [r \in Creates |-> "none"]
    /\ rows = [r \in Creates |-> {}]
    /\ sessions = {}
    /\ associated = [c \in Conns |-> {}]
    /\ llm \in BOOLEAN
    /\ load \in Workloads
    /\ restarts = 0

\* connection_loop starts: attach to the backplane and spawn the writer.
Open(c) ==
    /\ reader[c] = "new"
    /\ reader' = [reader EXCEPT ![c] = "reading"]
    /\ writer' = [writer EXCEPT ![c] = TRUE]
    /\ UNCHANGED <<runnerVars, sink, written, gone, asked, creating, rows,
                   sessions, associated, llm, load, restarts>>

\* The client closes the socket, or the network does.
ClientLeaves(c) ==
    /\ c \in load.leavers
    /\ reader[c] \in {"reading", "turn"}
    /\ ~gone[c]
    /\ gone' = [gone EXCEPT ![c] = TRUE]
    /\ UNCHANGED <<runnerVars, sink, reader, writer, written, asked, creating,
                   rows, sessions, associated, llm, load, restarts>>

\* The writer puts the next event on the socket.
Write(c) ==
    /\ writer[c]
    /\ written[c] < Len(sink[c])
    /\ ~gone[c]
    /\ written' = [written EXCEPT ![c] = @ + 1]
    /\ UNCHANGED <<runnerVars, sink, reader, writer, gone, asked, creating, rows,
                   sessions, associated, llm, load, restarts>>

\* Writing to a socket that is gone fails and breaks the writer's loop: what
\* the sink holds, and what is still sent to it, is dropped.
WriteFails(c) ==
    /\ writer[c]
    /\ written[c] < Len(sink[c])
    /\ gone[c]
    /\ writer' = [writer EXCEPT ![c] = FALSE]
    /\ UNCHANGED <<runnerVars, sink, reader, written, gone, asked, creating, rows,
                   sessions, associated, llm, load, restarts>>

\* The tasks that hold a clone of c's sink besides the reader: persistence
\* tasks and translators of its requests.
OtherSenders(c) ==
    {r \in Creates : /\ SinkOf[r] = c
                     /\ creating[r] \notin {"none", "done", "failed"}}
      \cup {r \in Turns : SinkOf[r] = c /\ translator[r]}

\* Every sender is dropped and the sink is drained: the writer's loop ends.
WriterEnds(c) ==
    /\ writer[c]
    /\ written[c] = Len(sink[c])
    /\ reader[c] = "closing"
    /\ OtherSenders(c) = {}
    /\ writer' = [writer EXCEPT ![c] = FALSE]
    /\ UNCHANGED <<runnerVars, sink, reader, written, gone, asked, creating, rows,
                   sessions, associated, llm, load, restarts>>

\* Mutant: the connection is not detached from the backplane.
ReaderEndsAttached(c) ==
    /\ reader[c] = "reading"
    /\ gone[c]
    /\ reader' = [reader EXCEPT ![c] = "closing"]
    /\ UNCHANGED <<runnerVars, sink, writer, written, gone, asked, creating, rows,
                   sessions, associated, llm, load, restarts>>

\* The reader sees the end of the stream: detach from the backplane, drop the
\* sink and wait for the writer.
ReaderEnds(c) ==
    /\ reader[c] = "reading"
    /\ gone[c]
    /\ reader' = [reader EXCEPT ![c] = "closing"]
    /\ associated' = [associated EXCEPT ![c] = {}]
    /\ UNCHANGED <<runnerVars, sink, writer, written, gone, asked, creating, rows,
                   sessions, llm, load, restarts>>

\* writer.await returns and the connection task is over.
ConnectionOver(c) ==
    /\ reader[c] = "closing"
    /\ ~writer[c]
    /\ reader' = [reader EXCEPT ![c] = "done"]
    /\ UNCHANGED <<runnerVars, sink, writer, written, gone, asked, creating, rows,
                   sessions, associated, llm, load, restarts>>

-----------------------------------------------------------------------------
(* Handlers *)

\* The reader of r's connection takes r's frame off the socket; frames sent
\* before the client left are still there to read.
Reads(r) ==
    /\ reader[SinkOf[r]] = "reading"
    /\ r \in load.requests \ asked
    /\ asked' = asked \cup {r}

\* Answer r with one event and keep reading.
Answer(r, type) ==
    /\ Send(SinkOf[r], Frame(r, type))
    /\ UNCHANGED <<runnerVars, reader, writer, written, gone, creating, rows,
                   sessions, associated, llm, load, restarts>>

\* ping, and frames that are not JSON, binary, without or with an unknown action.
HandleOther(r) ==
    /\ Reads(r)
    /\ \E type \in {"pong", "validation", "unsupported"} : Answer(r, type)

\* handle_get_session: the session id may be missing, unknown or registered.
HandleGetSession(r) ==
    /\ Reads(r)
    /\ \/ Answer(r, "validation")
       \/ \E s \in Creates :
            Answer(r, IF s \in sessions THEN "response" ELSE "not_found")

\* handle_create_session: enforce_widget_auth denies it, or the connection is
\* associated with the new session (and its agent) and the persistence task is
\* spawned, before anything is stored.
HandleCreateSession(r) ==
    /\ Reads(r)
    /\ \/ Answer(r, "denied")
       \/ /\ creating' = [creating EXCEPT ![r] = "conversation"]
          /\ associated' = [associated EXCEPT ![SinkOf[r]] = @ \cup {r}]
          /\ UNCHANGED <<runnerVars, sink, reader, writer, written, gone, rows,
                         sessions, llm, load, restarts>>

\* Mutant: the session is registered before its row is stored.
NextCreateEarly == [conversation |-> "user", user |-> "agent",
                    agent |-> "register", session |-> "register"]

\* The row a persistence task writes in each of its steps, and the next step.
NextCreate == [conversation |-> "user", user |-> "agent", agent |-> "session",
               session |-> "register"]

\* create_conversation, add_participant twice, create_session.
PersistRow(r) ==
    /\ creating[r] \in Rows
    /\ rows' = [rows EXCEPT ![r] = @ \cup {creating[r]}]
    /\ creating' = [creating EXCEPT ![r] = NextCreate[creating[r]]]
    /\ UNCHANGED <<runnerVars, sink, reader, writer, written, gone, asked,
                   sessions, associated, llm, load, restarts>>

\* Mutant: after the error the task goes on to register the session.
PersistRowFailsOn(r) ==
    /\ creating[r] \in Rows
    /\ creating' = [creating EXCEPT ![r] = "register"]
    /\ Send(SinkOf[r], Frame(r, "internal"))
    /\ UNCHANGED <<runnerVars, reader, writer, written, gone, asked, rows,
                   sessions, associated, llm, load, restarts>>

\* One of the four writes fails: an error, and the earlier rows stay.
PersistRowFails(r) ==
    /\ creating[r] \in Rows
    /\ creating' = [creating EXCEPT ![r] = "failed"]
    /\ Send(SinkOf[r], Frame(r, "internal"))
    /\ UNCHANGED <<runnerVars, reader, writer, written, gone, asked, rows,
                   sessions, associated, llm, load, restarts>>

\* insert_session, then the 200 response.
RegisterSession(r) ==
    /\ creating[r] = "register"
    /\ creating' = [creating EXCEPT ![r] = "done"]
    /\ sessions' = sessions \cup {r}
    /\ Send(SinkOf[r], Frame(r, "response"))
    /\ UNCHANGED <<runnerVars, reader, writer, written, gone, asked, rows,
                   associated, llm, load, restarts>>

\* Mutant: the gateway key is checked after the ack.
HandleSendMessageLateCheck(r) ==
    /\ Reads(r)
    /\ \E s \in Creates :
            /\ s \in sessions
            /\ Send(SinkOf[r], Frame(r, "ack"))
            /\ reader' = [reader EXCEPT ![SinkOf[r]] = IF llm THEN "turn" ELSE @]
            /\ IF llm THEN StartTurn(r, s) ELSE UNCHANGED runnerVars
            /\ UNCHANGED <<writer, written, gone, creating, rows, sessions,
                           associated, llm, load, restarts>>

\* handle_send_message up to the turn: the early returns in their order
\* (validation, the session registry, the gateway key), else the 202 ack and
\* the call of run_streaming_turn.
HandleSendMessage(r) ==
    /\ Reads(r)
    /\ \/ Answer(r, "validation")
       \/ \E s \in Creates :
            IF s \notin sessions THEN Answer(r, "not_found")
            ELSE IF ~llm THEN Answer(r, "llm_unavailable")
            ELSE /\ Send(SinkOf[r], Frame(r, "ack"))
                 /\ reader' = [reader EXCEPT ![SinkOf[r]] = "turn"]
                 /\ StartTurn(r, s)
                 /\ UNCHANGED <<writer, written, gone, creating, rows, sessions,
                                associated, llm, load, restarts>>

\* handle_send_message after the turn: eventual_response or AGENT_ERROR, and
\* the reader goes back to the socket.
FinishSendMessage(r) ==
    /\ step[r] \in {"ok", "err"}
    /\ Send(SinkOf[r], Frame(r, IF step[r] = "ok" THEN "final" ELSE "agent_error"))
    /\ step' = [step EXCEPT ![r] = "over"]
    /\ reader' = [reader EXCEPT ![SinkOf[r]] = "reading"]
    /\ UNCHANGED <<conv, prior, log, emitted, rx, translator, reply, writer,
                   written, gone, asked, creating, rows, sessions, associated,
                   llm, load, restarts>>

\* A step of a turn, on behalf of its connection's reader.
TurnStep(r) == RunnerStep(r) /\ UNCHANGED serverVars

\* The process dies and is started again: every task, socket and sink and the
\* session registry are gone; what storage holds stays.
Restart ==
    /\ restarts < load.crashes
    /\ restarts' = restarts + 1
    /\ reader' = [c \in Conns |-> IF reader[c] = "new" THEN "new" ELSE "done"]
    /\ writer' = [c \in Conns |-> FALSE]
    /\ step' = [r \in Turns |-> IF step[r] = "idle" THEN "idle" ELSE "over"]
    /\ translator' = [r \in Turns |-> FALSE]
    /\ rx' = [r \in Turns |-> <<>>]
    /\ creating' = [r \in Creates |->
            IF creating[r] \in {"none", "done"} THEN creating[r] ELSE "failed"]
    /\ sessions' = {}
    /\ associated' = [c \in Conns |-> {}]
    /\ UNCHANGED <<conv, prior, log, emitted, reply, sink, written, gone, asked,
                   rows, llm, load>>

Next ==
    \/ \E c \in Conns :
         \/ Open(c) \/ ClientLeaves(c) \/ Write(c) \/ WriteFails(c)
         \/ WriterEnds(c) \/ ReaderEnds(c) \/ ConnectionOver(c)
    \/ \E r \in Probes : HandleOther(r) \/ HandleGetSession(r)
    \/ \E r \in Creates : \/ HandleCreateSession(r) \/ PersistRow(r)
                          \/ PersistRowFails(r) \/ RegisterSession(r)
    \/ \E r \in Turns : HandleSendMessage(r) \/ TurnStep(r) \/ FinishSendMessage(r)
    \/ Restart

Spec == Init /\ [][Next]_vars

\* Tokio polls every task that can run, and storage and engine answer in the
\* end.  No client is obliged to connect, to ask or to leave.
Fairness ==
    /\ \A c \in Conns :
         /\ WF_vars(Write(c) \/ WriteFails(c) \/ WriterEnds(c))
         /\ WF_vars(ReaderEnds(c))
         /\ WF_vars(ConnectionOver(c))
    /\ \A r \in Creates : WF_vars(PersistRow(r) \/ PersistRowFails(r) \/ RegisterSession(r))
    /\ \A r \in Turns :
         /\ WF_vars(RunnerProgress(r) /\ UNCHANGED serverVars)
         /\ WF_vars(TranslatorProgress(r) /\ UNCHANGED serverVars)
         /\ WF_vars(FinishSendMessage(r))

FairSpec == Spec /\ Fairness

-----------------------------------------------------------------------------
(* Properties *)

Events(r) == sink[SinkOf[r]]

\* Where in its sink an event of request r with one of the types sits.
At(r, types) ==
    {i \in 1..Len(Events(r)) : Events(r)[i].req = r /\ Events(r)[i].type \in types}

Terminal == {"final", "response", "pong"} \cup Errors

\* Type invariant.
TypeOK ==
    /\ RunnerTypeOK
    /\ sink \in [Conns -> Seq([req : Requests, type : EventTypes])]
    /\ reader \in [Conns -> {"new", "reading", "turn", "closing", "done"}]
    /\ writer \in [Conns -> BOOLEAN]
    /\ written \in [Conns -> Nat]
    /\ gone \in [Conns -> BOOLEAN]
    /\ asked \subseteq Requests
    /\ creating \in [Creates -> Rows \cup {"none", "register", "done", "failed"}]
    /\ rows \in [Creates -> SUBSET Rows]
    /\ sessions \subseteq Creates
    /\ associated \in [Conns -> SUBSET Creates]
    /\ llm \in BOOLEAN
    /\ load \in Workloads
    /\ restarts \in 0..MaxRestarts

\* A request is answered at most once, whichever of its early returns, its
\* turn or its persistence task gives the answer.
OneAnswer == \A r \in Requests : Cardinality(At(r, Terminal)) <= 1

\* eventual_response closes a turn whose work is complete: every event that the
\* engine emitted to be shown was sent before it and none after it, and the
\* question and then the (non-empty) reply are persisted, although the events
\* travel through another task and other turns write to the conversation.
FinalIsComplete ==
    \A r \in Turns : \A i \in At(r, {"final"}) :
        /\ \A j \in At(r, {"stream"}) : j < i
        /\ Cardinality(At(r, {"stream"})) = emitted[r]
        /\ \E q \in Stored(r, "inbound") :
             reply[r] = "text" => \E a \in Stored(r, "outbound") : q < a

\* A session that requests can name is complete in storage and its events reach
\* the connection that created it, for as long as that connection lasts; and a
\* client that was told of a session can use it until the process restarts.
SessionIsComplete ==
    \A s \in Creates :
        /\ s \in sessions =>
             /\ rows[s] = Rows
             /\ reader[SinkOf[s]] \in {"reading", "turn"} => s \in associated[SinkOf[s]]
        /\ At(s, {"response"}) # {} =>
             rows[s] = Rows /\ (s \in sessions \/ restarts > 0)

\* Turn q was answered on r's connection, in r's conversation, before r was read.
AnsweredBefore(q, r) ==
    /\ q # r /\ SinkOf[q] = SinkOf[r] /\ conv[q] = conv[r]
    /\ \E i \in At(q, {"final"}), j \in At(r, {"ack"}) : i < j
    /\ reply[q] = "text"

\* The reply of turn q is among the messages replayed to the model in turn r.
Replayed(q, r) ==
    \E i \in 1..Len(prior[r]) : prior[r][i] = [turn |-> q, direction |-> "outbound"]

\* The model sees the earlier turns of the conversation, but not yet the question
\* it is asked: the messages replayed in a turn hold none of the turn's own and,
\* where listings are consistent, every reply that the client had received in
\* full before it asked, unless the conversation had a whole page of messages
\* before that reply.
RemembersTurns ==
    \A q, r \in Turns :
        /\ \A i \in 1..Len(prior[r]) : prior[r][i].turn # r
        /\ ConsistentReads /\ AnsweredBefore(q, r) /\ Stored(r, "inbound") # {} =>
             Replayed(q, r) \/ \E p \in Stored(q, "outbound") : p > MaxPriorMessages

\* What the runner's comments promise of every storage adapter and of
\* conversations of any length: all the replies that came before are replayed.
RepliesAreReplayed ==
    \A q, r \in Turns :
        AnsweredBefore(q, r) /\ Stored(r, "inbound") # {} => Replayed(q, r)

\* An error ends a streaming turn just as eventual_response does: no event of
\* the turn follows it.
ErrorEndsTurn ==
    \A r \in Turns : \A i \in At(r, {"agent_error"}), j \in At(r, {"stream"}) : j < i

\* Every send_message is answered, unless the process dies, and while the client
\* stays the answer goes out on its socket: no validation path, storage failure
\* or engine failure leaves the client waiting, and the writer outlasts the
\* tasks that send.
TurnsAreAnswered ==
    \A r \in Turns :
        (r \in asked) ~> \/ \E i \in At(r, Terminal) : i <= written[SinkOf[r]] \/ gone[SinkOf[r]]
                        \/ restarts > 0

\* A connection whose client has left is torn down: the reader waits for the
\* writer, the writer for every clone of the sink, the clones for tasks that
\* end, even when the client left in the middle of a turn.
LeaversAreForgotten ==
    \A c \in Conns : gone[c] ~> (reader[c] = "done" /\ associated[c] = {})
=============================================================================
