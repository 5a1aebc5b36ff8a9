--------------------------- MODULE LambdaDispatch ---------------------------
(***************************************************************************)
(* The same protocol behind API Gateway: every inbound frame is a Lambda   *)
(* invocation of its own, so two frames of one connection run at the same  *)
(* time, in any order, and nothing is kept in memory between them.  Events *)
(* go out through post_to_connection, which succeeds, finds the client     *)
(* gone, or fails.  A turn's events pass through a channel of the          *)
(* invocation (here Sinks = Turns) that a forward_events task drains.      *)
(***************************************************************************)
EXTENDS TurnRunner

CONSTANTS
    Creates,        \* invocations of create_conversation_session
    Probes,         \* invocations answered at once
    Clients,        \* API Gateway connections
    ClientOf,       \* the connection of an invocation
    MaxPostErrors,  \* bound: posts that fail
    MaxDeaths       \* bound: invocations that the platform kills

Requests == Turns \cup Creates \cup Probes
Rows == {"conversation", "user", "agent", "session"}

ASSUME LambdaAssumption ==
    /\ Conversations = Creates
    /\ Sinks = Turns
    /\ \A r \in Turns : SinkOf[r] = r
    /\ Turns \cap (Creates \cup Probes) = {} /\ Creates \cap Probes = {}
    /\ \A r \in Requests : ClientOf[r] \in Clients
    /\ MaxPostErrors \in Nat /\ MaxDeaths \in Nat

VARIABLES
    inv,        \* where each invocation is
    names,      \* the session a frame names
    rows,       \* rows stored for a session
    tx,         \* does send_message still hold its sender of the channel
    drain,      \* forward_events: "none", "open", "gone" or "ended"
    taken,      \* events that forward_events has taken from the channel
    wire,       \* events posted to each client
    client,     \* "new", "open" or "gone"
    connRow,    \* is there a WSCONN row for the client
    llm,        \* is a gateway key configured
    postErrors, \* failed posts so far
    deaths      \* killed invocations so far

lambdaVars == <<inv, names, rows, tx, drain, taken, wire, client,
                connRow, llm, postErrors, deaths>>
connVars == <<client, connRow, llm>>
vars == <<runnerVars, sink, lambdaVars>>

-----------------------------------------------------------------------------

Init ==
    /\ RunnerInit
    /\ sink = [r \in Turns |-> <<>>]
    /\ inv = [r \in Requests |-> "new"]
    /\ names \in [Turns \cup Probes -> Creates]
    /\ rows = [s \in Creates |-> {}]
    /\ tx = [r \in Turns |-> FALSE]
    /\ drain = [r \in Turns |-> "none"]
    /\ taken = [r \in Turns |-> 0]
    /\ wire = [c \in Clients |-> <<>>]
    /\ client = [c \in Clients |-> "new"]
    /\ connRow = [c \in Clients |-> FALSE]
    /\ llm \in BOOLEAN
    /\ postErrors = 0
    /\ deaths = 0

\* ConnectionPoster::post of an event of r.
PostOk(r, type) ==
    /\ client[ClientOf[r]] = "open"
    /\ wire' = [wire EXCEPT ![ClientOf[r]] = Append(@, Frame(r, type))]
    /\ UNCHANGED postErrors

PostGone(r) == client[ClientOf[r]] = "gone" /\ UNCHANGED <<wire, postErrors>>

PostErr(r) ==
    /\ postErrors < MaxPostErrors
    /\ postErrors' = postErrors + 1
    /\ UNCHANGED wire

\* The last post of an invocation: whatever its outcome, the frame is done and
\* the invocation is acknowledged to API Gateway.
Reply(r, type) ==
    /\ PostOk(r, type) \/ PostGone(r) \/ PostErr(r)
    /\ inv' = [inv EXCEPT ![r] = "over"]

\* $connect: record_connect writes the connection's row, or fails and the
\* socket is refused (the client may try again).
Connect(c) ==
    /\ client[c] = "new"
    /\ client' = [client EXCEPT ![c] = "open"]
    /\ connRow' = [connRow EXCEPT ![c] = TRUE]
    /\ UNCHANGED <<runnerVars, sink, inv, names, rows, tx, drain, taken, wire, llm,
                   postErrors, deaths>>

\* $disconnect: every post from now on is answered with GoneException; the row
\* is deleted, or left to its TTL when record_disconnect fails.
Disconnect(c) ==
    /\ client[c] = "open"
    /\ client' = [client EXCEPT ![c] = "gone"]
    /\ \E row \in BOOLEAN : connRow' = [connRow EXCEPT ![c] = row]
    /\ UNCHANGED <<runnerVars, sink, inv, names, rows, tx, drain, taken, wire, llm,
                   postErrors, deaths>>

\* API Gateway invokes the handler for a frame that the client sent while it
\* was connected.
Arrives(r) == inv[r] = "new" /\ client[ClientOf[r]] # "new"

\* handle_frame for ping, a bad frame or an unknown action.
HandleOther(r) ==
    /\ Arrives(r)
    /\ \E type \in {"pong", "validation", "unsupported"} : Reply(r, type)
    /\ UNCHANGED <<runnerVars, sink, names, rows, tx, drain, taken, connVars, deaths>>

\* get_session: straight from storage, which may fail.
HandleGetSession(r) ==
    /\ Arrives(r)
    /\ \/ Reply(r, "validation") \/ Reply(r, "internal")
       \/ Reply(r, IF "session" \in rows[names[r]] THEN "response" ELSE "not_found")
    /\ UNCHANGED <<runnerVars, sink, names, rows, tx, drain, taken, connVars, deaths>>

\* create_session: the four writes, one await each.
HandleCreateSession(r) ==
    /\ Arrives(r)
    /\ inv' = [inv EXCEPT ![r] = "conversation"]
    /\ UNCHANGED <<runnerVars, sink, names, rows, tx, drain, taken, wire, connVars,
                   postErrors, deaths>>

NextCreate == [conversation |-> "user", user |-> "agent", agent |-> "session",
               session |-> "created"]

PersistRow(r) ==
    /\ inv[r] \in Rows
    /\ rows' = [rows EXCEPT ![r] = @ \cup {inv[r]}]
    /\ inv' = [inv EXCEPT ![r] = NextCreate[inv[r]]]
    /\ UNCHANGED <<runnerVars, sink, names, tx, drain, taken, wire, connVars,
                   postErrors, deaths>>

PersistRowFails(r) ==
    /\ inv[r] \in Rows
    /\ Reply(r, "internal")
    /\ UNCHANGED <<runnerVars, sink, names, rows, tx, drain, taken, connVars, deaths>>

ReplyCreated(r) ==
    /\ inv[r] = "created"
    /\ Reply(r, "response")
    /\ UNCHANGED <<runnerVars, sink, names, rows, tx, drain, taken, connVars, deaths>>

\* send_message up to the ack: validation, the session row, the gateway key.
HandleSendMessage(r) ==
    /\ Arrives(r)
    /\ \/ Reply(r, "validation") \/ Reply(r, "internal")
       \/ "session" \notin rows[names[r]] /\ Reply(r, "not_found")
       \/ "session" \in rows[names[r]] /\ ~llm /\ Reply(r, "llm_unavailable")
       \/ /\ "session" \in rows[names[r]] /\ llm
          /\ inv' = [inv EXCEPT ![r] = "ack"]
          /\ UNCHANGED <<wire, postErrors>>
    /\ UNCHANGED <<runnerVars, sink, names, rows, tx, drain, taken, connVars, deaths>>

\* Post the ack.  An error ends the invocation by `?`; a client that is gone
\* does not: the turn runs without it.
Ack(r) ==
    /\ inv[r] = "ack"
    /\ \/ /\ PostOk(r, "ack") \/ PostGone(r)
          /\ inv' = [inv EXCEPT ![r] = "turn"]
          /\ StartTurn(r, names[r])
          /\ tx' = [tx EXCEPT ![r] = TRUE]
          /\ drain' = [drain EXCEPT ![r] = "open"]
       \/ /\ PostErr(r)
          /\ inv' = [inv EXCEPT ![r] = "over"]
          /\ UNCHANGED <<runnerVars, tx, drain>>
    /\ UNCHANGED <<sink, names, rows, taken, connVars, deaths>>

\* forward_events takes the next event and posts it, unless an earlier post
\* found the client gone.  A failed post is logged and the event is lost.
Forward(r) ==
    /\ drain[r] \in {"open", "gone"}
    /\ taken[r] < Len(sink[r])
    /\ taken' = [taken EXCEPT ![r] = @ + 1]
    /\ \/ /\ drain[r] = "open"
          /\ PostOk(r, "stream") \/ PostErr(r)
          /\ UNCHANGED drain
       \/ /\ drain[r] = "open"
          /\ PostGone(r)
          /\ drain' = [drain EXCEPT ![r] = "gone"]
       \/ /\ drain[r] = "gone"
          /\ UNCHANGED <<drain, wire, postErrors>>
    /\ UNCHANGED <<runnerVars, sink, inv, names, rows, tx, connVars, deaths>>

\* Every sender is dropped and the channel is drained.
DrainEnds(r) ==
    /\ drain[r] \in {"open", "gone"}
    /\ taken[r] = Len(sink[r])
    /\ ~tx[r] /\ ~translator[r]
    /\ drain' = [drain EXCEPT ![r] = "ended"]
    /\ UNCHANGED <<runnerVars, sink, inv, names, rows, tx, taken, wire, connVars,
                   postErrors, deaths>>

\* Mutant: the sender is kept while the drain is awaited.
KeepSender(r) ==
    /\ inv[r] = "turn"
    /\ step[r] \in {"ok", "err"}
    /\ inv' = [inv EXCEPT ![r] = "drain"]
    /\ UNCHANGED <<runnerVars, sink, names, rows, tx, drain, taken, wire, connVars,
                   postErrors, deaths>>

\* The turn has returned: drop(tx), then await the drain.
DropSender(r) ==
    /\ inv[r] = "turn"
    /\ step[r] \in {"ok", "err"}
    /\ tx' = [tx EXCEPT ![r] = FALSE]
    /\ inv' = [inv EXCEPT ![r] = "drain"]
    /\ UNCHANGED <<runnerVars, sink, names, rows, drain, taken, wire, connVars,
                   postErrors, deaths>>

\* Mutant: the terminal event is posted without waiting for the drain.
PostTerminalEarly(r) ==
    /\ inv[r] = "drain"
    /\ Reply(r, IF step[r] = "ok" THEN "final" ELSE "agent_error")
    /\ UNCHANGED <<runnerVars, sink, names, rows, tx, drain, taken, connVars, deaths>>

\* After the drain, post eventual_response or AGENT_ERROR.
PostTerminal(r) ==
    /\ inv[r] = "drain"
    /\ drain[r] = "ended"
    /\ Reply(r, IF step[r] = "ok" THEN "final" ELSE "agent_error")
    /\ UNCHANGED <<runnerVars, sink, names, rows, tx, drain, taken, connVars, deaths>>

TurnStep(r) == RunnerStep(r) /\ UNCHANGED lambdaVars

\* The platform kills an invocation (a timeout, a crash): its tasks are gone,
\* what it has stored and posted stays, and API Gateway does not retry it.
Die(r) ==
    /\ inv[r] \notin {"new", "over"}
    /\ deaths < MaxDeaths
    /\ deaths' = deaths + 1
    /\ inv' = [inv EXCEPT ![r] = "over"]
    /\ step' = [x \in Turns |-> IF x = r THEN "over" ELSE step[x]]
    /\ translator' = [x \in Turns |-> IF x = r THEN FALSE ELSE translator[x]]
    /\ rx' = [x \in Turns |-> IF x = r THEN <<>> ELSE rx[x]]
    /\ tx' = [x \in Turns |-> IF x = r THEN FALSE ELSE tx[x]]
    /\ drain' = [x \in Turns |-> IF x = r THEN "ended" ELSE drain[x]]
    /\ UNCHANGED <<conv, prior, log, emitted, reply, sink, names, rows, taken,
                   wire, connVars, postErrors>>

Next ==
    \/ \E c \in Clients : Connect(c) \/ Disconnect(c)
    \/ \E r \in Probes : HandleOther(r) \/ HandleGetSession(r)
    \/ \E r \in Creates : \/ HandleCreateSession(r) \/ PersistRow(r)
                          \/ PersistRowFails(r) \/ ReplyCreated(r)
    \/ \E r \in Turns : \/ HandleSendMessage(r) \/ Ack(r) \/ TurnStep(r)
                        \/ Forward(r) \/ DrainEnds(r) \/ DropSender(r)
                        \/ PostTerminal(r)
    \/ \E r \in Requests : Die(r)

Spec == Init /\ [][Next]_vars

\* An invocation that has started runs on: storage, engine and posts answer,
\* one way or the other.
Fairness ==
    /\ \A r \in Creates : WF_vars(PersistRow(r) \/ PersistRowFails(r) \/ ReplyCreated(r))
    /\ \A r \in Turns :
         /\ WF_vars(Ack(r) \/ DropSender(r) \/ PostTerminal(r))
         /\ WF_vars(Forward(r) \/ DrainEnds(r))
         /\ WF_vars(RunnerProgress(r) /\ UNCHANGED lambdaVars)
         /\ WF_vars(TranslatorProgress(r) /\ UNCHANGED lambdaVars)

FairSpec == Spec /\ Fairness

-----------------------------------------------------------------------------
(* Properties *)

At(r, types) ==
    {i \in 1..Len(wire[ClientOf[r]]) :
        /\ wire[ClientOf[r]][i].req = r
        /\ wire[ClientOf[r]][i].type \in types}

Terminal == {"final", "response", "pong"} \cup Errors

\* Type invariant.
TypeOK ==
    /\ RunnerTypeOK
    /\ sink \in [Turns -> Seq([req : Turns, type : {"stream"}])]
    /\ inv \in [Requests -> Rows \cup {"new", "created", "ack", "turn", "drain", "over"}]
    /\ names \in [Turns \cup Probes -> Creates]
    /\ rows \in [Creates -> SUBSET Rows]
    /\ tx \in [Turns -> BOOLEAN]
    /\ drain \in [Turns -> {"none", "open", "gone", "ended"}]
    /\ taken \in [Turns -> Nat]
    /\ wire \in [Clients -> Seq([req : Requests, type : EventTypes])]
    /\ client \in [Clients -> {"new", "open", "gone"}]
    /\ connRow \in [Clients -> BOOLEAN]
    /\ llm \in BOOLEAN
    /\ postErrors \in 0..MaxPostErrors
    /\ deaths \in 0..MaxDeaths

\* The terminal event of a turn, eventual_response or error, is posted once and
\* is the turn's last event: send_message drains the channel first, whose last
\* sender may be a translator that the failed turn left behind.
TerminalIsLast ==
    \A r \in Turns : \A i \in At(r, Terminal), j \in At(r, EventTypes) : j <= i

\* Nothing a client can use is half done, although invocations overlap and may
\* be killed: eventual_response is posted when the question and the reply are
\* persisted and every event of the engine was handed to the client (or its post
\* failed), and a session that a turn can find has all its rows.
FinalIsComplete ==
    /\ \A r \in Turns : At(r, {"final"}) # {} =>
         /\ taken[r] = emitted[r]
         /\ \E q \in Stored(r, "inbound") :
              reply[r] = "text" => \E a \in Stored(r, "outbound") : q < a
    /\ \A s \in Creates : "session" \in rows[s] => rows[s] = Rows

\* Every invocation ends: the turn waits for the drain and the drain for the
\* senders, one of which the turn itself holds until it drops it.
InvocationsEnd ==
    \A r \in Turns \cup Creates : inv[r] # "new" ~> inv[r] = "over"
=============================================================================
