----------------------------- MODULE TurnRunner -----------------------------
(***************************************************************************)
(* One streaming, memory-carrying agent turn (run_streaming_turn), the     *)
(* routine that both the WebSocket server and the Lambda handler call for  *)
(* a send_message.  Each await of the function ends an action, so turns of *)
(* different requests interleave, on the same conversation too.            *)
(*                                                                         *)
(* The engine (Agent::run_with_channel) is external: it pushes AgentEvents *)
(* into an unbounded channel, then returns a reply or an error.  A spawned *)
(* translator task forwards the events to the caller's sink.               *)
(***************************************************************************)
EXTENDS Naturals, Sequences, FiniteSets

CONSTANTS
    Turns,              \* requests (request ids) of send_message
    Conversations,      \* conversation ids, one for each session
    Sinks,              \* outbound event channels
    SinkOf,             \* the sink that a request's events go to
    MaxPriorMessages,   \* MAX_PRIOR_MESSAGES
    ConsistentReads,    \* does a listing see all that is stored (DynamoDB's need not)
    MaxEvents           \* bound: events the engine emits in a turn

ASSUME TurnRunnerAssumption ==
    /\ \A r \in Turns : SinkOf[r] \in Sinks
    /\ Conversations # {}
    /\ MaxPriorMessages \in Nat \ {0}
    /\ ConsistentReads \in BOOLEAN
    /\ MaxEvents \in Nat

VARIABLES
    step,       \* where each turn is
    conv,       \* the conversation of each turn
    prior,      \* the messages replayed to the model (prior)
    log,        \* the persisted messages of each conversation, in append order
    emitted,    \* events of the turn that the engine emitted and clients see
    rx,         \* AgentEvents in the channel between engine and translator
    translator, \* is the turn's translator task alive
    reply,      \* is the reply of a finished engine run empty
    sink        \* every event ever sent into each sink

runnerVars == <<step, conv, prior, log, emitted, rx, translator, reply>>

-----------------------------------------------------------------------------
(* Data *)

Steps == {"idle", "load", "inbound", "run", "join", "outbound", "ok", "err",
          "over"}

\* AgentEvent, reduced to whether the translator re-emits it: a non-empty
\* TokenDelta, a tool call or a phase is "shown", everything else is "silent".
AgentEvent == {"shown", "silent"}

\* A persisted message: its turn and its Direction.
Message == [turn : Turns, direction : {"inbound", "outbound"}]

\* A protocol event.  "stream" is stream_token and stream_chunk, "ack" the 202
\* immediate_response, "final" the eventual_response, "response" the 200
\* immediate_response; the others are error events, named by their code.
Errors == {"validation", "unsupported", "denied", "not_found", "llm_unavailable",
           "internal", "agent_error"}
EventTypes == {"ack", "stream", "final", "response", "pong"} \cup Errors

Frame(r, type) == [req |-> r, type |-> type]

Send(k, frame) == sink' = [sink EXCEPT ![k] = Append(@, frame)]

Smaller(m, n) == IF m <= n THEN m ELSE n

\* Mutant: the page ends one message early.
FirstPageShort(messages, limit) ==
    SubSeq(messages, 1, Smaller(Len(messages), limit) - 1)

\* list_messages_by_conversation with MessageQuery::new(conv, limit): the first
\* page in append order, so the oldest messages.
FirstPage(messages, limit) == SubSeq(messages, 1, Smaller(Len(messages), limit))

\* The ways to pick n of m positions, in order.
Picks(n, m) == {at \in [1..n -> 1..m] : \A i, j \in 1..n : i < j => at[i] < at[j]}

\* What a listing may see of a log: all of it, or any of its messages, in order,
\* when reads are not consistent (DynamoDB's query does not ask for it).
Views(messages) ==
    IF ConsistentReads THEN {messages}
    ELSE UNION {{[i \in 1..n |-> messages[at[i]]] : at \in Picks(n, Len(messages))} :
                  n \in 0..Len(messages)}

-----------------------------------------------------------------------------
(* Actions *)

RunnerInit ==
    /\ step = [r \in Turns |-> "idle"]
    /\ conv = [r \in Turns |-> CHOOSE k \in Conversations : TRUE]
    /\ prior = [r \in Turns |-> <<>>]
    /\ log = [k \in Conversations |-> <<>>]
    /\ emitted = [r \in Turns |-> 0]
    /\ rx = [r \in Turns |-> <<>>]
    /\ translator = [r \in Turns |-> FALSE]
    /\ reply = [r \in Turns |-> "none"]

\* The caller enters run_streaming_turn for conversation k.
StartTurn(r, k) ==
    /\ step' = [step EXCEPT ![r] = "load"]
    /\ conv' = [conv EXCEPT ![r] = k]
    /\ UNCHANGED <<prior, log, emitted, rx, translator, reply>>

\* A storage call of the turn fails: `?` leaves the function with an error.
StorageFails(r) ==
    /\ step[r] \in {"load", "inbound", "outbound"}
    /\ step' = [step EXCEPT ![r] = "err"]
    /\ UNCHANGED <<conv, prior, log, emitted, rx, translator, reply, sink>>

\* load_prior_messages, before the inbound message is persisted.
LoadPrior(r) ==
    /\ step[r] = "load"
    /\ \E seen \in Views(log[conv[r]]) :
         prior' = [prior EXCEPT ![r] = FirstPage(seen, MaxPriorMessages)]
    /\ step' = [step EXCEPT ![r] = "inbound"]
    /\ UNCHANGED <<conv, log, emitted, rx, translator, reply, sink>>

\* Persist the user's message, spawn the translator and enter the engine.
PersistInbound(r) ==
    /\ step[r] = "inbound"
    /\ log' = [log EXCEPT ![conv[r]] =
            Append(@, [turn |-> r, direction |-> "inbound"])]
    /\ translator' = [translator EXCEPT ![r] = TRUE]
    /\ step' = [step EXCEPT ![r] = "run"]
    /\ UNCHANGED <<conv, prior, emitted, rx, reply, sink>>

\* The engine pushes an event into the channel.
EngineEmits(r, event) ==
    /\ step[r] = "run"
    /\ emitted[r] + Len(rx[r]) < MaxEvents
    /\ rx' = [rx EXCEPT ![r] = Append(@, event)]
    /\ emitted' = [emitted EXCEPT ![r] = IF event = "shown" THEN @ + 1 ELSE @]
    /\ UNCHANGED <<step, conv, prior, log, translator, reply, sink>>

\* Mutant: the reply is persisted without waiting for the translator.
EngineReturnsNoJoin(r, content) ==
    /\ step[r] = "run"
    /\ reply' = [reply EXCEPT ![r] = content]
    /\ step' = [step EXCEPT ![r] = "outbound"]
    /\ UNCHANGED <<conv, prior, log, emitted, rx, translator, sink>>

\* run_with_channel returns a conversation; its last assistant content may be
\* empty.  The channel is closed: only what is in rx remains.
EngineReturns(r, content) ==
    /\ step[r] = "run"
    /\ reply' = [reply EXCEPT ![r] = content]
    /\ step' = [step EXCEPT ![r] = "join"]
    /\ UNCHANGED <<conv, prior, log, emitted, rx, translator, sink>>

\* run_with_channel fails: `?` returns at once and nobody waits for the
\* translator, which goes on draining the closed channel.
EngineFails(r) ==
    /\ step[r] = "run"
    /\ step' = [step EXCEPT ![r] = "err"]
    /\ UNCHANGED <<conv, prior, log, emitted, rx, translator, reply, sink>>

\* The translator takes the next event and forwards it, if it is one to show.
Translate(r) ==
    /\ translator[r]
    /\ rx[r] # <<>>
    /\ rx' = [rx EXCEPT ![r] = Tail(@)]
    /\ IF Head(rx[r]) = "shown"
       THEN Send(SinkOf[r], Frame(r, "stream"))
       ELSE UNCHANGED sink
    /\ UNCHANGED <<step, conv, prior, log, emitted, translator, reply>>

\* The channel is closed and drained: the translator drops its sink clone.
TranslatorEnds(r) ==
    /\ translator[r]
    /\ rx[r] = <<>>
    /\ step[r] # "run"
    /\ translator' = [translator EXCEPT ![r] = FALSE]
    /\ UNCHANGED <<step, conv, prior, log, emitted, rx, reply, sink>>

\* translator.await.
JoinTranslator(r) ==
    /\ step[r] = "join"
    /\ ~translator[r]
    /\ step' = [step EXCEPT ![r] = "outbound"]
    /\ UNCHANGED <<conv, prior, log, emitted, rx, translator, reply, sink>>

\* Mutant: the reply is returned and not persisted.
PersistOutboundSkipped(r) ==
    /\ step[r] = "outbound"
    /\ step' = [step EXCEPT ![r] = "ok"]
    /\ UNCHANGED <<conv, prior, log, emitted, rx, translator, reply, sink>>

\* Persist the reply, unless it is empty, and return the TurnResult.
PersistOutbound(r) ==
    /\ step[r] = "outbound"
    /\ log' = IF reply[r] = "empty" THEN log
              ELSE [log EXCEPT ![conv[r]] =
                        Append(@, [turn |-> r, direction |-> "outbound"])]
    /\ step' = [step EXCEPT ![r] = "ok"]
    /\ UNCHANGED <<conv, prior, emitted, rx, translator, reply, sink>>

RunnerStep(r) ==
    \/ LoadPrior(r) \/ PersistInbound(r) \/ PersistOutbound(r) \/ StorageFails(r)
    \/ \E event \in AgentEvent : EngineEmits(r, event)
    \/ \E content \in {"empty", "text"} : EngineReturns(r, content)
    \/ EngineFails(r) \/ JoinTranslator(r)
    \/ Translate(r) \/ TranslatorEnds(r)

\* Everything of a turn that runs on by itself: storage and engine answer (one
\* way or the other) and the runtime polls the tasks.  That the engine may
\* emit an event does not oblige it to.
RunnerProgress(r) ==
    \/ LoadPrior(r) \/ PersistInbound(r) \/ PersistOutbound(r) \/ StorageFails(r)
    \/ \E content \in {"empty", "text"} : EngineReturns(r, content)
    \/ EngineFails(r) \/ JoinTranslator(r)

TranslatorProgress(r) == Translate(r) \/ TranslatorEnds(r)

\* Where in its conversation the message of turn r with direction d sits.
Stored(r, d) ==
    {i \in 1..Len(log[conv[r]]) : log[conv[r]][i] = [turn |-> r, direction |-> d]}

\* Shape of the runner's variables.
RunnerTypeOK ==
    /\ step \in [Turns -> Steps]
    /\ conv \in [Turns -> Conversations]
    /\ prior \in [Turns -> Seq(Message)]
    /\ log \in [Conversations -> Seq(Message)]
    /\ emitted \in [Turns -> Nat]
    /\ rx \in [Turns -> Seq(AgentEvent)]
    /\ translator \in [Turns -> BOOLEAN]
    /\ reply \in [Turns -> {"none", "empty", "text"}]
=============================================================================
