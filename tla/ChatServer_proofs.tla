-------------------------- MODULE ChatServer_proofs --------------------------
(***************************************************************************)
(* Proofs about the WebSocket server, for any number of connections,       *)
(* sessions, requests, turns, events and restarts.                         *)
(***************************************************************************)
EXTENDS ChatServer, TurnRunner_proofs

-----------------------------------------------------------------------------
(* The inductive invariant *)

\* Where a turn is when its handler has not answered, and a persistence task.
Running(r) == step[r] \notin {"idle", "over"}
Creating(r) == creating[r] \in Rows \cup {"register"}

\* What has been read is all that has been started, and nothing else has events.
StartedWereRead ==
    /\ \A r \in Requests \ asked : At(r, EventTypes) = {}
    /\ \A r \in Turns : step[r] # "idle" => r \in asked
    /\ \A r \in Creates : creating[r] # "none" => r \in asked

\* While a turn or a persistence task is under way its request has no answer.
AnswerPending ==
    /\ \A r \in Turns : Running(r) => At(r, Terminal) = {}
    /\ \A r \in Creates : Creating(r) => At(r, Terminal) = {}

AnsweredOnce == \A r \in Requests : \A i, j \in At(r, Terminal) : i = j

AnswerInv == StartedWereRead /\ AnswerPending /\ AnsweredOnce

\* A connection in a turn runs one turn, and a turn runs on one such connection.
ReaderInv ==
    /\ \A r \in Turns : Running(r) => reader[SinkOf[r]] = "turn"
    /\ \A q, r \in Turns : Running(q) /\ Running(r) /\ SinkOf[q] = SinkOf[r] => q = r

\* The rows that are stored when a persistence task has reached a step.
RowsAt == [conversation |-> {}, user |-> {"conversation"},
           agent |-> {"conversation", "user"},
           session |-> {"conversation", "user", "agent"},
           register |-> Rows, done |-> Rows]

\* Where a create request is decides what is stored, registered, said of it.
SessionOK(s) ==
    /\ creating[s] \in DOMAIN RowsAt => RowsAt[creating[s]] \subseteq rows[s]
    /\ s \in sessions => creating[s] = "done"
    /\ At(s, {"response"}) # {} => creating[s] = "done"
    /\ creating[s] = "done" => s \in sessions \/ restarts > 0
    /\ creating[s] # "none" =>
         /\ reader[SinkOf[s]] # "new"
         /\ reader[SinkOf[s]] \in {"reading", "turn"} => s \in associated[SinkOf[s]]

SessionInv == \A s \in Creates : SessionOK(s)

\* FinalIsComplete for one turn.
Complete(r) ==
    \A i \in At(r, {"final"}) :
        /\ \A j \in At(r, {"stream"}) : j < i
        /\ Cardinality(At(r, {"stream"})) = emitted[r]
        /\ \E q \in Stored(r, "inbound") :
             reply[r] = "text" => \E a \in Stored(r, "outbound") : q < a

\* eventual_response is sent at the end, when the translator is gone.
FinalOK(r) ==
    /\ At(r, {"final"}) # {} => step[r] = "over" /\ ~translator[r]
    /\ Complete(r)

FinalInv == \A r \in Turns : FinalOK(r)

\* The reply of q is replayed in r, unless a page of messages was stored before it.
Remembered(q, r) ==
    Replayed(q, r) \/ \E p \in Stored(q, "outbound") : p > MaxPriorMessages

\* From the moment it has loaded its page, a turn has the earlier replies.
MemoryInv ==
    \A q, r \in Turns :
        AnsweredBefore(q, r) /\ (step[r] = "inbound" \/ Stored(r, "inbound") # {}) =>
            Remembered(q, r)

\* No turn replays a message of its own.
NotItsOwn == \A r \in Turns : \A i \in 1..Len(prior[r]) : prior[r][i].turn # r

ChatInv == TypeOK /\ RunnerInv /\ AnswerInv /\ ReaderInv /\ SessionInv /\ FinalInv

-----------------------------------------------------------------------------
(* Events in the sinks *)

FrameType == [req : Requests, type : EventTypes]

\* The part of TypeOK that speaks of the sinks and of who is in the registries.
LEMMA ServerTypes ==
    ASSUME TypeOK
    PROVE  /\ RunnerTypeOK
           /\ sink \in [Conns -> Seq(FrameType)] /\ sink \in [Sinks -> Seq(FrameType)]
           /\ asked \subseteq Requests
           /\ creating \in [Creates -> Rows \cup {"none", "register", "done", "failed"}]
           /\ rows \in [Creates -> SUBSET Rows]
           /\ sessions \subseteq Creates
           /\ associated \in [Conns -> SUBSET Creates]
           /\ reader \in [Conns -> {"new", "reading", "turn", "closing", "done"}]
           /\ step \in [Turns -> Steps] /\ translator \in [Turns -> BOOLEAN]
           /\ load \in Workloads /\ restarts \in Nat /\ load.crashes \in 0..MaxRestarts
  <1>1. restarts \in Nat
    BY ChatServerAssumption DEF TypeOK
  <1>2. load.crashes \in 0..MaxRestarts
    BY ChatServerAssumption DEF TypeOK
  <1> QED
    BY <1>1, <1>2 DEF TypeOK, FrameType, Conns, RunnerTypeOK

\* Who can ask, and where the answers go.
LEMMA RequestKinds ==
    /\ \A r \in Requests : SinkOf[r] \in Conns
    /\ \A r \in Turns : r \in Requests /\ r \notin Creates /\ r \notin Probes
    /\ \A r \in Creates : r \in Requests /\ r \notin Turns /\ r \notin Probes
    /\ \A r \in Probes : r \in Requests /\ r \notin Turns /\ r \notin Creates
    /\ \A r \in Requests : \A t \in EventTypes : Frame(r, t) \in FrameType
  BY ChatServerAssumption DEF Requests, Frame, FrameType

\* A sent event is the last of its sink, and an event of no other request.
LEMMA SendAt ==
    ASSUME sink \in [Conns -> Seq(FrameType)], NEW q \in Requests, NEW t \in EventTypes,
           Send(SinkOf[q], Frame(q, t)), NEW r \in Requests, NEW types
    PROVE  /\ At(r, types)' = IF r = q /\ t \in types
                              THEN At(r, types) \cup {Len(Events(r)) + 1}
                              ELSE At(r, types)
           /\ Len(Events(r)) \in Nat
           /\ At(r, types) \subseteq 1..Len(Events(r))
  <1> DEFINE k == SinkOf[q]
             h == SinkOf[r]
             s == sink[k]
  <1>0. h \in Conns /\ k \in Conns /\ sink[h] \in Seq(FrameType) /\ s \in Seq(FrameType)
    BY RequestKinds
  <1>1. sink' = [sink EXCEPT ![k] = Append(s, Frame(q, t))]
    BY DEF Send
  <1>2. Len(sink[h]) \in Nat /\ Len(s) \in Nat
    BY <1>0
  <1>3. At(r, types) \subseteq 1..Len(Events(r))
    BY DEF At
  <1>4. At(r, types)' = {i \in 1..Len(sink'[h]) : /\ sink'[h][i].req = r
                                                 /\ sink'[h][i].type \in types}
    BY DEF At, Events
  <1>5. CASE h # k
    <2>1. sink'[h] = sink[h] /\ r # q
      BY <1>0, <1>1, <1>5
    <2> QED
      BY <1>2, <1>3, <1>4, <2>1 DEF At, Events
  <1>6. CASE h = k
    <2>1. sink'[h] = Append(s, Frame(q, t))
      BY <1>0, <1>1, <1>6
    <2>2. Frame(q, t).req = q /\ Frame(q, t).type = t
      BY DEF Frame
    <2>3. /\ Len(sink'[h]) = Len(s) + 1
          /\ sink'[h][Len(s) + 1] = Frame(q, t)
          /\ \A i \in 1..Len(s) : sink'[h][i] = s[i]
      BY <1>0, <2>1
    <2>4. \A i : i \in 1..(Len(s) + 1) <=> (i \in 1..Len(s) \/ i = Len(s) + 1)
      BY <1>2
    <2>5. At(r, types)' = IF r = q /\ t \in types
                          THEN At(r, types) \cup {Len(s) + 1} ELSE At(r, types)
      BY <1>4, <1>6, <2>2, <2>3, <2>4 DEF At, Events
    <2> QED
      BY <1>2, <1>3, <1>6, <2>5 DEF Events
  <1> QED
    BY <1>5, <1>6

\* An event found after a send was there before, or is the one that was sent.
LEMMA SendAtLast ==
    ASSUME sink \in [Conns -> Seq(FrameType)], NEW q \in Requests, NEW t \in EventTypes,
           Send(SinkOf[q], Frame(q, t)), NEW r \in Requests, NEW types
    PROVE  \A i \in At(r, types)' : i \in At(r, types) \/ i = Len(Events(r)) + 1
  <1>1. At(r, types)' = IF r = q /\ t \in types
                        THEN At(r, types) \cup {Len(Events(r)) + 1}
                        ELSE At(r, types)
    BY SendAt
  <1>2. CASE r = q /\ t \in types
    BY <1>1, <1>2
  <1>3. CASE ~(r = q /\ t \in types)
    BY <1>1, <1>3
  <1> QED
    BY <1>2, <1>3

\* A step that sends nothing leaves every event where it is.
LEMMA SameAt ==
    ASSUME sink' = sink, NEW r, NEW types
    PROVE  At(r, types)' = At(r, types)
  BY DEF At, Events

\* The stream events of the server's sinks are those of the runner.
LEMMA StreamsAreStreamed ==
    ASSUME sink \in [Conns -> Seq(FrameType)], NEW r \in Turns
    PROVE  At(r, {"stream"}) = Streamed(r)
  <1>1. sink[SinkOf[r]] \in Seq(FrameType)
    BY RequestKinds
  <1>2. \A i \in 1..Len(sink[SinkOf[r]]) : sink[SinkOf[r]][i] \in FrameType
    BY <1>1
  <1>3. \A f \in FrameType : f = Frame(r, "stream") <=> (f.req = r /\ f.type = "stream")
    BY DEF FrameType, Frame
  <1> QED
    BY <1>2, <1>3 DEF At, Events, Streamed

-----------------------------------------------------------------------------
(* The kinds of steps *)

\* A step of a connection's own tasks, with what it leaves alone.
ConnStep ==
    \E c \in Conns :
        \/ Open(c) \/ ClientLeaves(c) \/ Write(c) \/ WriteFails(c)
        \/ WriterEnds(c) \/ ReaderEnds(c) \/ ConnectionOver(c)

\* It changes only the reader, the writer, the socket and the backplane's set.
LEMMA ConnEffects ==
    ASSUME TypeOK, ConnStep
    PROVE  /\ UNCHANGED <<runnerVars, sink, asked, creating, rows, sessions, llm, load, restarts>>
           /\ \E c \in Conns :
                \/ reader' = reader /\ associated' = associated
                \/ /\ reader[c] = "new" /\ associated' = associated
                   /\ reader' = [reader EXCEPT ![c] = "reading"]
                \/ /\ reader[c] = "reading" /\ reader' = [reader EXCEPT ![c] = "closing"]
                   /\ associated' = [associated EXCEPT ![c] = {}]
                \/ /\ reader[c] = "closing" /\ reader' = [reader EXCEPT ![c] = "done"]
                   /\ associated' = associated
  BY DEF ConnStep, Open, ClientLeaves, Write, WriteFails, WriterEnds, ReaderEnds, ConnectionOver

\* A request answered by its handler at once.
AtOnce == {"pong", "response"} \cup (Errors \ {"agent_error", "internal"})
Answered(r) ==
    \E type \in AtOnce : Reads(r) /\ Answer(r, type) /\ (type = "response" => r \in Probes)

\* Every path of the probes' handlers answers at once.
LEMMA ProbeIsAnswered ==
    ASSUME NEW r \in Probes, HandleOther(r) \/ HandleGetSession(r)
    PROVE  Answered(r)
  BY DEF HandleOther, HandleGetSession, Answered, AtOnce, Errors

\* The other outcome of a create and of a send: the task or the turn is started.
Spawned(r) ==
    /\ Reads(r)
    /\ creating' = [creating EXCEPT ![r] = "conversation"]
    /\ associated' = [associated EXCEPT ![SinkOf[r]] = @ \cup {r}]
    /\ UNCHANGED <<runnerVars, sink, reader, writer, written, gone, rows,
                   sessions, llm, load, restarts>>
Started(r) ==
    \E s \in sessions :
        /\ Reads(r) /\ Send(SinkOf[r], Frame(r, "ack"))
        /\ reader' = [reader EXCEPT ![SinkOf[r]] = "turn"]
        /\ StartTurn(r, s)
        /\ UNCHANGED <<writer, written, gone, creating, rows, sessions,
                       associated, llm, load, restarts>>

\* handle_create_session denies, or spawns its persistence task.
LEMMA CreateOutcomes ==
    ASSUME NEW r \in Creates, HandleCreateSession(r)
    PROVE  Answered(r) \/ Spawned(r)
  BY DEF HandleCreateSession, Answered, Spawned, AtOnce, Errors

\* handle_send_message answers at once, or acknowledges and starts the turn.
LEMMA SendOutcomes ==
    ASSUME NEW r \in Turns, HandleSendMessage(r)
    PROVE  Answered(r) \/ Started(r)
  <1>1. CASE Reads(r) /\ Answer(r, "validation")
    BY <1>1 DEF Answered, AtOnce, Errors
  <1>2. ASSUME NEW s \in Creates,
               IF s \notin sessions THEN Answer(r, "not_found")
               ELSE IF ~llm THEN Answer(r, "llm_unavailable")
               ELSE /\ Send(SinkOf[r], Frame(r, "ack"))
                    /\ reader' = [reader EXCEPT ![SinkOf[r]] = "turn"]
                    /\ StartTurn(r, s)
                    /\ UNCHANGED <<writer, written, gone, creating, rows, sessions,
                                   associated, llm, load, restarts>>,
               Reads(r)
        PROVE  Answered(r) \/ Started(r)
    <2>1. CASE s \notin sessions
      BY <1>2, <2>1 DEF Answered, AtOnce, Errors
    <2>2. CASE s \in sessions /\ ~llm
      BY <1>2, <2>2 DEF Answered, AtOnce, Errors
    <2>3. CASE s \in sessions /\ llm
      BY <1>2, <2>3 DEF Started
    <2> QED
      BY <2>1, <2>2, <2>3
  <1> QED
    BY <1>1, <1>2 DEF HandleSendMessage

\* Every step is of one of the kinds that the proofs go through.
LEMMA StepKinds ==
    ASSUME Next
    PROVE  \/ ConnStep
           \/ \E r \in Requests : Answered(r)
           \/ \E r \in Creates : \/ Spawned(r) \/ PersistRow(r)
                                \/ PersistRowFails(r) \/ RegisterSession(r)
           \/ \E r \in Turns : Started(r) \/ TurnStep(r) \/ FinishSendMessage(r)
           \/ Restart
  <1>1. CASE ConnStep
    BY <1>1
  <1>2. CASE \E r \in Probes : HandleOther(r) \/ HandleGetSession(r)
    BY <1>2, ProbeIsAnswered, RequestKinds
  <1>3. CASE \E r \in Creates : HandleCreateSession(r)
    BY <1>3, CreateOutcomes, RequestKinds
  <1>4. CASE \E r \in Turns : HandleSendMessage(r)
    BY <1>4, SendOutcomes, RequestKinds
  <1> QED
    BY <1>1, <1>2, <1>3, <1>4 DEF Next, ConnStep

-----------------------------------------------------------------------------
(* Types *)

\* A sent event keeps the type of the sinks.
LEMMA SendType ==
    ASSUME sink \in [Conns -> Seq(FrameType)], NEW q \in Requests, NEW t \in EventTypes,
           Send(SinkOf[q], Frame(q, t))
    PROVE  sink' \in [Conns -> Seq(FrameType)]
  <1>1. SinkOf[q] \in Conns /\ Frame(q, t) \in FrameType
    BY RequestKinds
  <1>2. Append(sink[SinkOf[q]], Frame(q, t)) \in Seq(FrameType)
    BY <1>1
  <1> QED
    BY <1>1, <1>2 DEF Send

\* The variables have their types at the start.
LEMMA InitType ==
    ASSUME Init
    PROVE  TypeOK
  <1>1. \A k \in Sinks : sink[k] = <<>>
    BY DEF Init, Conns
  <1>2. RunnerTypeOK
    BY <1>1, RunnerStartsWell DEF Init
  <1>3. sink \in [Conns -> Seq([req : Requests, type : EventTypes])]
    BY DEF Init
  <1> QED
    BY <1>2, <1>3, ChatServerAssumption DEF Init, TypeOK

\* Every step keeps the types.
LEMMA NextType ==
    ASSUME TypeOK, [Next]_vars
    PROVE  TypeOK'
  <1>r. RunnerTypeOK
    BY DEF TypeOK
  <1>u. ASSUME UNCHANGED runnerVars
        PROVE  RunnerTypeOK'
    BY <1>r, <1>u DEF runnerVars, RunnerTypeOK
  <1>s. sink \in [Conns -> Seq(FrameType)]
    BY DEF TypeOK, FrameType
  <1>e. ASSUME sink' \in [Conns -> Seq(FrameType)]
        PROVE  sink' \in [Conns -> Seq([req : Requests, type : EventTypes])]
    BY <1>e DEF FrameType
  <1>1. CASE ConnStep
    <2>1. PICK c \in Conns :
            \/ Open(c) \/ ClientLeaves(c) \/ Write(c) \/ WriteFails(c)
            \/ WriterEnds(c) \/ ReaderEnds(c) \/ ConnectionOver(c)
      BY <1>1 DEF ConnStep
    <2>2. RunnerTypeOK'
      BY <1>u, <1>1, ConnEffects
    <2>3. /\ reader' \in [Conns -> {"new", "reading", "turn", "closing", "done"}]
          /\ writer' \in [Conns -> BOOLEAN] /\ written' \in [Conns -> Nat]
          /\ gone' \in [Conns -> BOOLEAN] /\ associated' \in [Conns -> SUBSET Creates]
      <3>t. /\ reader \in [Conns -> {"new", "reading", "turn", "closing", "done"}]
            /\ writer \in [Conns -> BOOLEAN] /\ written \in [Conns -> Nat]
            /\ gone \in [Conns -> BOOLEAN] /\ associated \in [Conns -> SUBSET Creates]
        BY DEF TypeOK
      <3>1. CASE Open(c)
        BY <3>t, <3>1 DEF Open
      <3>2. CASE ClientLeaves(c)
        BY <3>t, <3>2 DEF ClientLeaves
      <3>3. CASE Write(c)
        BY <3>t, <3>3 DEF Write
      <3>4. CASE WriteFails(c) \/ WriterEnds(c)
        BY <3>t, <3>4 DEF WriteFails, WriterEnds
      <3>5. CASE ReaderEnds(c) \/ ConnectionOver(c)
        BY <3>t, <3>5 DEF ReaderEnds, ConnectionOver
      <3> QED
        BY <2>1, <3>1, <3>2, <3>3, <3>4, <3>5
    <2> QED
      BY <1>1, <2>2, <2>3, ConnEffects DEF TypeOK
  <1>2. ASSUME NEW r \in Requests, Answered(r)
        PROVE  TypeOK'
    <2>1. PICK type \in AtOnce : Reads(r) /\ Answer(r, type)
      BY <1>2 DEF Answered
    <2>2. type \in EventTypes
      BY DEF AtOnce, EventTypes, Errors
    <2>3. sink' \in [Conns -> Seq(FrameType)]
      BY <1>s, <2>1, <2>2, SendType DEF Answer
    <2> QED
      BY <1>u, <1>e, <2>1, <2>3 DEF TypeOK, Answer, Reads
  <1>3. ASSUME NEW r \in Creates, Spawned(r)
        PROVE  TypeOK'
    <2>1. r \in Requests /\ SinkOf[r] \in Conns
      BY RequestKinds
    <2>2. /\ creating' \in [Creates -> Rows \cup {"none", "register", "done", "failed"}]
          /\ associated' \in [Conns -> SUBSET Creates] /\ asked' \subseteq Requests
      BY <1>3, <2>1 DEF TypeOK, Spawned, Reads, Rows
    <2> QED
      BY <1>u, <1>3, <2>2 DEF TypeOK, Spawned
  <1>4. ASSUME NEW r \in Creates, PersistRow(r)
        PROVE  TypeOK'
    <2>1. NextCreate[creating[r]] \in Rows \cup {"register"}
      BY <1>4 DEF PersistRow, NextCreate, Rows
    <2>2. /\ creating' \in [Creates -> Rows \cup {"none", "register", "done", "failed"}]
          /\ rows' \in [Creates -> SUBSET Rows]
      BY <1>4, <2>1 DEF TypeOK, PersistRow
    <2> QED
      BY <1>u, <1>4, <2>2 DEF TypeOK, PersistRow
  <1>5. ASSUME NEW r \in Creates, PersistRowFails(r) \/ RegisterSession(r)
        PROVE  TypeOK'
    <2>1. r \in Requests /\ {"internal", "response"} \subseteq EventTypes
      BY RequestKinds DEF EventTypes, Errors
    <2>2. sink' \in [Conns -> Seq(FrameType)]
      BY <1>s, <1>5, <2>1, SendType DEF PersistRowFails, RegisterSession
    <2>3. /\ creating' \in [Creates -> Rows \cup {"none", "register", "done", "failed"}]
          /\ sessions' \subseteq Creates
      BY <1>5 DEF TypeOK, PersistRowFails, RegisterSession
    <2> QED
      BY <1>u, <1>e, <1>5, <2>2, <2>3 DEF TypeOK, PersistRowFails, RegisterSession
  <1>6. ASSUME NEW r \in Turns, Started(r)
        PROVE  TypeOK'
    <2>1. PICK s \in sessions :
            /\ Reads(r) /\ Send(SinkOf[r], Frame(r, "ack"))
            /\ reader' = [reader EXCEPT ![SinkOf[r]] = "turn"]
            /\ StartTurn(r, s)
            /\ UNCHANGED <<writer, written, gone, creating, rows, sessions,
                           associated, llm, load, restarts>>
      BY <1>6 DEF Started
    <2>2. r \in Requests /\ "ack" \in EventTypes /\ s \in Conversations
      BY RequestKinds, ChatServerAssumption DEF EventTypes, TypeOK
    <2>3. sink' \in [Conns -> Seq(FrameType)]
      BY <1>s, <2>1, <2>2, SendType
    <2>4. RunnerTypeOK'
      BY <1>r, <2>1, <2>2 DEF RunnerTypeOK, StartTurn, Steps
    <2>5. reader' \in [Conns -> {"new", "reading", "turn", "closing", "done"}]
      BY <2>1 DEF TypeOK
    <2> QED
      BY <1>e, <2>1, <2>2, <2>3, <2>4, <2>5 DEF TypeOK, Reads
  <1>7. ASSUME NEW r \in Turns, TurnStep(r)
        PROVE  TypeOK'
    <2>1. RunnerStep(r) /\ UNCHANGED serverVars
      BY <1>7 DEF TurnStep
    <2>2. RunnerTypeOK'
      BY <1>r, <2>1, RunnerTypeKept
    <2>3. r \in Requests /\ "stream" \in EventTypes
      BY RequestKinds DEF EventTypes
    <2>4. sink' = sink \/ Send(SinkOf[r], Frame(r, "stream"))
      BY <1>r, <2>1, RunnerEffects
    <2>5. sink' \in [Conns -> Seq(FrameType)]
      BY <1>s, <2>3, <2>4, SendType
    <2> QED
      BY <1>e, <2>1, <2>2, <2>5 DEF TypeOK, serverVars
  <1>8. ASSUME NEW r \in Turns, FinishSendMessage(r)
        PROVE  TypeOK'
    <2>1. r \in Requests /\ {"final", "agent_error"} \subseteq EventTypes
      BY RequestKinds DEF EventTypes, Errors
    <2>2. sink' \in [Conns -> Seq(FrameType)]
      BY <1>s, <1>8, <2>1, SendType DEF FinishSendMessage
    <2>3. RunnerTypeOK'
      BY <1>r, <1>8 DEF RunnerTypeOK, FinishSendMessage, Steps
    <2>4. reader' \in [Conns -> {"new", "reading", "turn", "closing", "done"}]
      BY <1>8 DEF TypeOK, FinishSendMessage
    <2> QED
      BY <1>e, <1>8, <2>2, <2>3, <2>4 DEF TypeOK, FinishSendMessage
  <1>9. CASE Restart
    <2>1. RunnerTypeOK'
      BY <1>r, <1>9 DEF RunnerTypeOK, Restart, Steps
    <2>2. restarts' \in 0..MaxRestarts
      <3>1. restarts \in Nat /\ load.crashes \in 0..MaxRestarts
        BY ServerTypes
      <3> QED
        BY <1>9, <3>1, ChatServerAssumption DEF Restart
    <2>3. /\ reader' \in [Conns -> {"new", "reading", "turn", "closing", "done"}]
          /\ creating' \in [Creates -> Rows \cup {"none", "register", "done", "failed"}]
          /\ writer' \in [Conns -> BOOLEAN] /\ sessions' \subseteq Creates
          /\ associated' \in [Conns -> SUBSET Creates]
      BY <1>9 DEF TypeOK, Restart
    <2> QED
      BY <1>9, <2>1, <2>2, <2>3 DEF TypeOK, Restart
  <1>10. CASE UNCHANGED vars
    BY <1>u, <1>10 DEF TypeOK, vars, serverVars
  <1> QED
    BY <1>1, <1>2, <1>3, <1>4, <1>5, <1>6, <1>7, <1>8, <1>9, <1>10, StepKinds

-----------------------------------------------------------------------------
(* The turns, as their callers leave them *)

\* An event that is no stream event leaves the streamed ones as they are.
LEMMA QuietSend ==
    ASSUME TypeOK, NEW q \in Requests, NEW t \in EventTypes, t # "stream",
           Send(SinkOf[q], Frame(q, t)), NEW r \in Turns
    PROVE  Streamed(r)' = Streamed(r)
  <1>1. SinkOf[q] \in Sinks /\ Frame(q, t) \in FrameType
    BY RequestKinds DEF Conns
  <1>2. sink \in [Sinks -> Seq(FrameType)]
    BY ServerTypes
  <1> QED
    BY <1>1, <1>2, SendStreams

\* The invariant of the turns survives every step of the server.
LEMMA NextRunner ==
    ASSUME TypeOK, StartedWereRead, RunnerInv, [Next]_vars
    PROVE  RunnerInv'
  <1>t. RunnerTypeOK /\ step \in [Turns -> Steps]
    BY ServerTypes
  <1>u. ASSUME UNCHANGED runnerVars, \A r \in Turns : Streamed(r)' = Streamed(r)
        PROVE  RunnerInv'
    <2>1. /\ step' = step /\ translator' = translator /\ rx' = rx
          /\ UNCHANGED <<conv, log, emitted, reply>>
      BY <1>u DEF runnerVars
    <2>2. step' \in [Turns -> Steps]
      BY <1>t, <2>1
    <2> QED
      BY <1>t, <1>u, <2>1, <2>2, EndKeepsRunner
  <1>v. ASSUME sink' = sink
        PROVE  \A r \in Turns : Streamed(r)' = Streamed(r)
    BY <1>v DEF Streamed, Frame
  <1>1. CASE ConnStep
    BY <1>u, <1>v, <1>1, ConnEffects
  <1>2. ASSUME NEW r \in Requests, Answered(r)
        PROVE  RunnerInv'
    <2>1. PICK type \in AtOnce : Answer(r, type)
      BY <1>2 DEF Answered
    <2>2. type \in EventTypes /\ type # "stream"
      BY DEF AtOnce, EventTypes, Errors
    <2>3. \A x \in Turns : Streamed(x)' = Streamed(x)
      BY <2>1, <2>2, QuietSend DEF Answer
    <2> QED
      BY <1>u, <2>1, <2>3 DEF Answer
  <1>3. ASSUME NEW r \in Creates, Spawned(r) \/ PersistRow(r)
        PROVE  RunnerInv'
    BY <1>u, <1>v, <1>3 DEF Spawned, PersistRow
  <1>4. ASSUME NEW r \in Creates, PersistRowFails(r) \/ RegisterSession(r)
        PROVE  RunnerInv'
    <2>1. r \in Requests /\ {"internal", "response"} \subseteq EventTypes
      BY RequestKinds DEF EventTypes, Errors
    <2>2. \A x \in Turns : Streamed(x)' = Streamed(x)
      BY <1>4, <2>1, QuietSend DEF PersistRowFails, RegisterSession
    <2> QED
      BY <1>u, <1>4, <2>2 DEF PersistRowFails, RegisterSession
  <1>5. ASSUME NEW r \in Turns, Started(r)
        PROVE  RunnerInv'
    <2>1. PICK s \in sessions : Reads(r) /\ Send(SinkOf[r], Frame(r, "ack")) /\ StartTurn(r, s)
      BY <1>5 DEF Started
    <2>2. r \in Requests /\ "ack" \in EventTypes /\ s \in Conversations
      BY RequestKinds, ChatServerAssumption DEF EventTypes, TypeOK
    <2>3. \A x \in Turns : Streamed(x)' = Streamed(x)
      BY <2>1, <2>2, QuietSend
    <2>4. step[r] = "idle"
      BY <2>1 DEF StartedWereRead, Reads
    <2> QED
      BY <1>t, <2>1, <2>2, <2>3, <2>4, StartKeepsRunner
  <1>6. ASSUME NEW r \in Turns, TurnStep(r)
        PROVE  RunnerInv'
    <2>1. RunnerStep(r)
      BY <1>6 DEF TurnStep
    <2>2. Frame(r, "stream") \in FrameType /\ sink \in [Sinks -> Seq(FrameType)]
      BY RequestKinds, ServerTypes DEF EventTypes
    <2> QED
      BY <1>t, <2>1, <2>2, RunnerInvKept
  <1>7. ASSUME NEW r \in Turns, FinishSendMessage(r)
        PROVE  RunnerInv'
    <2>1. r \in Requests /\ {"final", "agent_error"} \subseteq EventTypes
      BY RequestKinds DEF EventTypes, Errors
    <2>2. \A x \in Turns : Streamed(x)' = Streamed(x)
      BY <1>7, <2>1, QuietSend DEF FinishSendMessage
    <2>3. /\ step' = [step EXCEPT ![r] = "over"] /\ translator' = translator /\ rx' = rx
          /\ UNCHANGED <<conv, log, emitted, reply>>
      BY <1>7 DEF FinishSendMessage
    <2>4. step' \in [Turns -> Steps] /\ \A x \in Turns : step'[x] = step[x] \/ step'[x] = "over"
      BY <1>t, <2>3 DEF Steps
    <2> QED
      BY <1>t, <2>2, <2>3, <2>4, EndKeepsRunner
  <1>8. CASE Restart
    <2>1. /\ sink' = sink /\ UNCHANGED <<conv, log, emitted, reply>>
          /\ step' = [r \in Turns |-> IF step[r] = "idle" THEN "idle" ELSE "over"]
          /\ translator' = [r \in Turns |-> FALSE] /\ rx' = [r \in Turns |-> <<>>]
      BY <1>8 DEF Restart
    <2>2. step' \in [Turns -> Steps]
      BY <2>1 DEF Steps
    <2>3. \A r \in Turns :
            /\ step'[r] = step[r] \/ step'[r] = "over"
            /\ ~translator'[r] /\ rx'[r] = <<>> /\ step'[r] \in {"idle", "over"}
      BY <2>1
    <2> QED
      BY <1>t, <1>v, <2>1, <2>2, <2>3, EndKeepsRunner
  <1>9. CASE UNCHANGED vars
    BY <1>u, <1>v, <1>9 DEF vars
  <1> QED
    BY <1>1, <1>2, <1>3, <1>4, <1>5, <1>6, <1>7, <1>8, <1>9, StepKinds

-----------------------------------------------------------------------------
(* One answer for each request *)

\* A step that sends nothing, and only lets requests without an answer run.
LEMMA SilentAnswers ==
    ASSUME AnswerInv, sink' = sink, asked \subseteq asked',
           \A r \in Turns : step'[r] # "idle" => r \in asked',
           \A r \in Creates : creating'[r] # "none" => r \in asked',
           \A r \in Turns : Running(r)' => At(r, Terminal) = {},
           \A r \in Creates : Creating(r)' => At(r, Terminal) = {}
    PROVE  AnswerInv'
  <1>1. \A r, types : At(r, types)' = At(r, types)
    BY SameAt
  <1>2. StartedWereRead'
    BY <1>1 DEF AnswerInv, StartedWereRead
  <1>3. AnswerPending'
    BY <1>1 DEF AnswerPending
  <1>4. AnsweredOnce'
    BY <1>1 DEF AnswerInv, AnsweredOnce
  <1> QED
    BY <1>2, <1>3, <1>4 DEF AnswerInv

\* A step that sends one event for q: an answer only if there was none and q is
\* no longer under way.
LEMMA SentAnswers ==
    ASSUME TypeOK, AnswerInv, NEW q \in Requests, NEW t \in EventTypes,
           Send(SinkOf[q], Frame(q, t)), asked \subseteq asked', q \in asked',
           t \in Terminal => At(q, Terminal) = {},
           \A r \in Turns : step'[r] # "idle" => r \in asked',
           \A r \in Creates : creating'[r] # "none" => r \in asked',
           \A r \in Turns : Running(r)' =>
               At(r, Terminal) = {} /\ (r # q \/ t \notin Terminal),
           \A r \in Creates : Creating(r)' =>
               At(r, Terminal) = {} /\ (r # q \/ t \notin Terminal)
    PROVE  AnswerInv'
  <1>s. sink \in [Conns -> Seq(FrameType)]
    BY ServerTypes
  <1>1. \A r \in Requests : \A types :
            At(r, types)' = IF r = q /\ t \in types
                            THEN At(r, types) \cup {Len(Events(r)) + 1}
                            ELSE At(r, types)
    BY <1>s, SendAt
  <1>2. StartedWereRead'
    BY <1>1 DEF AnswerInv, StartedWereRead
  <1>3. AnswerPending'
    <2>1. \A r \in Turns \cup Creates : r \in Requests
      BY RequestKinds
    <2> QED
      BY <1>1, <2>1 DEF AnswerPending
  <1>4. AnsweredOnce'
    <2>1. ASSUME NEW r \in Requests
          PROVE  \A i, j \in At(r, Terminal)' : i = j
      <3>1. CASE r = q /\ t \in Terminal
        <4>1. At(r, Terminal)' = {Len(Events(r)) + 1}
          BY <1>1, <3>1
        <4> QED
          BY <4>1
      <3>2. CASE ~(r = q /\ t \in Terminal)
        <4>1. At(r, Terminal)' = At(r, Terminal)
          BY <1>1, <3>2
        <4> QED
          BY <4>1 DEF AnswerInv, AnsweredOnce
      <3> QED
        BY <3>1, <3>2
    <2> QED
      BY <2>1 DEF AnsweredOnce
  <1> QED
    BY <1>2, <1>3, <1>4 DEF AnswerInv

\* A request that has not been read has no answer.
LEMMA UnreadHasNone ==
    ASSUME StartedWereRead, NEW r \in Requests, r \notin asked
    PROVE  At(r, Terminal) = {}
  <1>1. Terminal \subseteq EventTypes
    BY DEF Terminal, EventTypes
  <1>2. At(r, EventTypes) = {}
    BY DEF StartedWereRead
  <1> QED
    BY <1>1, <1>2 DEF At

\* Every step keeps the answers single.
LEMMA NextAnswer ==
    ASSUME TypeOK, RunnerInv, AnswerInv, [Next]_vars
    PROVE  AnswerInv'
  <1>t. /\ step \in [Turns -> Steps] /\ RunnerTypeOK /\ asked \subseteq Requests
        /\ creating \in [Creates -> Rows \cup {"none", "register", "done", "failed"}]
    BY ServerTypes
  <1>a. /\ \A r \in Turns : step[r] # "idle" => r \in asked
        /\ \A r \in Creates : creating[r] # "none" => r \in asked
        /\ \A r \in Turns : Running(r) => At(r, Terminal) = {}
        /\ \A r \in Creates : Creating(r) => At(r, Terminal) = {}
    BY DEF AnswerInv, StartedWereRead, AnswerPending
  <1>b. ASSUME NEW r \in Requests, r \notin asked
        PROVE  At(r, Terminal) = {}
    BY <1>b, UnreadHasNone DEF AnswerInv
  <1>k. /\ \A r \in Turns : r \in Requests /\ r \notin Creates
        /\ \A r \in Creates : r \in Requests /\ r \notin Turns
    BY RequestKinds
  <1>u. ASSUME sink' = sink, step' = step, asked' = asked, creating' = creating
        PROVE  AnswerInv'
    BY <1>a, <1>u, SilentAnswers DEF Running, Creating
  <1>1. CASE ConnStep
    BY <1>u, <1>1, ConnEffects DEF runnerVars
  <1>2. ASSUME NEW q \in Requests, Answered(q)
        PROVE  AnswerInv'
    <2>1. PICK type \in AtOnce : Reads(q) /\ Answer(q, type)
      BY <1>2 DEF Answered
    <2>2. type \in EventTypes
      BY DEF AtOnce, EventTypes, Errors
    <2>3. q \notin asked /\ asked' = asked \cup {q}
      BY <2>1 DEF Reads
    <2>4. step' = step /\ creating' = creating /\ Send(SinkOf[q], Frame(q, type))
      BY <2>1 DEF Answer, runnerVars
    <2>5. /\ \A r \in Turns : Running(r)' => r # q
          /\ \A r \in Creates : Creating(r)' => r # q
      BY <1>a, <2>3, <2>4 DEF Running, Creating, Rows
    <2>6. At(q, Terminal) = {}
      BY <1>b, <2>3
    <2> QED
      BY <1>a, <2>2, <2>3, <2>4, <2>5, <2>6, SentAnswers DEF Running, Creating
  <1>3. ASSUME NEW q \in Creates, Spawned(q)
        PROVE  AnswerInv'
    <2>1. /\ q \notin asked /\ asked' = asked \cup {q} /\ sink' = sink /\ step' = step
          /\ creating' = [creating EXCEPT ![q] = "conversation"]
      BY <1>3 DEF Spawned, Reads, runnerVars
    <2>2. At(q, Terminal) = {}
      BY <1>b, <1>k, <2>1
    <2>3. \A r \in Creates : r # q => creating'[r] = creating[r]
      BY <1>t, <2>1
    <2> QED
      BY <1>a, <2>1, <2>2, <2>3, SilentAnswers DEF Running, Creating
  <1>4. ASSUME NEW q \in Creates, PersistRow(q)
        PROVE  AnswerInv'
    <2>1. /\ creating[q] \in Rows /\ asked' = asked /\ sink' = sink /\ step' = step
          /\ \A r \in Creates : r # q => creating'[r] = creating[r]
      BY <1>t, <1>4 DEF PersistRow, runnerVars
    <2>2. creating[q] # "none" /\ Creating(q)
      BY <2>1 DEF Creating, Rows
    <2> QED
      BY <1>a, <2>1, <2>2, SilentAnswers DEF Running, Creating
  <1>5. ASSUME NEW q \in Creates, PersistRowFails(q) \/ RegisterSession(q)
        PROVE  AnswerInv'
    <2>1. PICK t \in {"internal", "response"} : Send(SinkOf[q], Frame(q, t))
      BY <1>5 DEF PersistRowFails, RegisterSession
    <2>2. /\ creating[q] \in Rows \cup {"register"} /\ asked' = asked /\ step' = step
          /\ creating'[q] \in {"failed", "done"}
          /\ \A r \in Creates : r # q => creating'[r] = creating[r]
      BY <1>t, <1>5 DEF PersistRowFails, RegisterSession, runnerVars
    <2>3. creating[q] # "none" /\ Creating(q) /\ ~(Creating(q)')
      BY <2>2 DEF Creating, Rows
    <2>4. q \in Requests /\ t \in EventTypes /\ \A r \in Turns : r # q
      BY <1>k DEF EventTypes, Errors
    <2>5. \A r \in Creates : Creating(r)' => r # q /\ Creating(r)
      BY <2>2, <2>3 DEF Creating
    <2>6. \A r \in Creates : creating'[r] # "none" => r \in asked'
      BY <1>a, <2>2, <2>3
    <2> QED
      BY <1>a, <2>1, <2>2, <2>3, <2>4, <2>5, <2>6, SentAnswers DEF Running
  <1>6. ASSUME NEW q \in Turns, Started(q)
        PROVE  AnswerInv'
    <2>1. /\ q \notin asked /\ asked' = asked \cup {q} /\ creating' = creating
          /\ Send(SinkOf[q], Frame(q, "ack")) /\ step' = [step EXCEPT ![q] = "load"]
      BY <1>6 DEF Started, Reads, StartTurn
    <2>2. At(q, Terminal) = {}
      BY <1>b, <1>k, <2>1
    <2>3. "ack" \in EventTypes /\ "ack" \notin Terminal /\ q \in Requests
      BY <1>k DEF EventTypes, Terminal, Errors
    <2>4. \A r \in Turns : r # q => step'[r] = step[r]
      BY <1>t, <2>1
    <2> QED
      BY <1>a, <2>1, <2>2, <2>3, <2>4, SentAnswers DEF Running, Creating
  <1>7. ASSUME NEW q \in Turns, TurnStep(q)
        PROVE  AnswerInv'
    <2>1. RunnerStep(q) /\ asked' = asked /\ creating' = creating
      BY <1>7 DEF TurnStep, serverVars
    <2>2. \A r \in Turns : Running(r)' <=> Running(r)
      BY <1>t, <2>1, RunnerEffects DEF Running
    <2>3. \A r \in Turns : step'[r] # "idle" => step[r] # "idle"
      BY <1>t, <2>1, RunnerEffects
    <2>4. CASE sink' = sink
      BY <1>a, <2>1, <2>2, <2>3, <2>4, SilentAnswers DEF Creating
    <2>5. CASE translator[q] /\ Send(SinkOf[q], Frame(q, "stream"))
      <3>1. "stream" \in EventTypes /\ "stream" \notin Terminal /\ q \in Requests
        BY <1>k DEF EventTypes, Terminal, Errors
      <3>2. step[q] # "idle"
        BY <2>5 DEF RunnerInv, TurnInv, QuietBeforeRun
      <3> QED
        BY <1>a, <2>1, <2>2, <2>3, <2>5, <3>1, <3>2, SentAnswers DEF Creating
    <2> QED
      BY <1>t, <2>1, <2>4, <2>5, RunnerEffects
  <1>8. ASSUME NEW q \in Turns, FinishSendMessage(q)
        PROVE  AnswerInv'
    <2>1. PICK t \in {"final", "agent_error"} : Send(SinkOf[q], Frame(q, t))
      BY <1>8 DEF FinishSendMessage
    <2>2. /\ step[q] \in {"ok", "err"} /\ step' = [step EXCEPT ![q] = "over"]
          /\ asked' = asked /\ creating' = creating
      BY <1>8 DEF FinishSendMessage
    <2>3. q \in Requests /\ t \in EventTypes /\ \A r \in Creates : r # q
      BY <1>k DEF EventTypes, Errors
    <2>4. \A r \in Turns : Running(r)' => r # q /\ Running(r)
      BY <1>t, <2>2 DEF Running
    <2>5. Running(q) /\ step[q] # "idle"
      BY <2>2 DEF Running
    <2>6. \A r \in Turns : step'[r] # "idle" => r \in asked'
      BY <1>t, <1>a, <2>2, <2>5
    <2> QED
      BY <1>a, <2>1, <2>2, <2>3, <2>4, <2>5, <2>6, SentAnswers DEF Creating
  <1>9. CASE Restart
    <2>1. /\ sink' = sink /\ asked' = asked
          /\ \A r \in Turns : step'[r] = IF step[r] = "idle" THEN "idle" ELSE "over"
          /\ \A r \in Creates : creating'[r] =
                 IF creating[r] \in {"none", "done"} THEN creating[r] ELSE "failed"
      BY <1>9 DEF Restart
    <2>2. /\ \A r \in Turns : ~(Running(r)')
          /\ \A r \in Creates : ~(Creating(r)')
      BY <2>1 DEF Running, Creating, Rows
    <2>3. /\ \A r \in Turns : step'[r] # "idle" => r \in asked'
          /\ \A r \in Creates : creating'[r] # "none" => r \in asked'
      BY <1>a, <2>1
    <2> QED
      BY <2>1, <2>2, <2>3, SilentAnswers
  <1>10. CASE UNCHANGED vars
    BY <1>u, <1>10 DEF vars, runnerVars, serverVars
  <1> QED
    BY <1>1, <1>2, <1>3, <1>4, <1>5, <1>6, <1>7, <1>8, <1>9, <1>10, StepKinds

-----------------------------------------------------------------------------
(* One turn at a time on a connection *)

\* Every step keeps a running turn alone on a connection that waits for it.
LEMMA NextReader ==
    ASSUME TypeOK, ReaderInv, [Next]_vars
    PROVE  ReaderInv'
  <1>t. /\ step \in [Turns -> Steps] /\ RunnerTypeOK
        /\ reader \in [Conns -> {"new", "reading", "turn", "closing", "done"}]
    BY ServerTypes
  <1>k. \A r \in Turns : r \in Requests /\ SinkOf[r] \in Conns
    BY RequestKinds
  <1>a. /\ \A r \in Turns : Running(r) => reader[SinkOf[r]] = "turn"
        /\ \A q, r \in Turns : Running(q) /\ Running(r) /\ SinkOf[q] = SinkOf[r] => q = r
    BY DEF ReaderInv
  <1>u. ASSUME \A r \in Turns : Running(r)' => Running(r),
               \A r \in Turns : Running(r)' => reader'[SinkOf[r]] = "turn"
        PROVE  ReaderInv'
    BY <1>a, <1>u DEF ReaderInv
  <1>v. ASSUME step' = step, reader' = reader
        PROVE  ReaderInv'
    BY <1>a, <1>u, <1>v DEF Running
  <1>1. CASE ConnStep
    <2>1. \A r \in Turns : Running(r)' <=> Running(r)
      BY <1>1, ConnEffects DEF Running, runnerVars
    <2>2. PICK c \in Conns :
            \/ reader' = reader
            \/ reader[c] = "new" /\ reader' = [reader EXCEPT ![c] = "reading"]
            \/ reader[c] = "reading" /\ reader' = [reader EXCEPT ![c] = "closing"]
            \/ reader[c] = "closing" /\ reader' = [reader EXCEPT ![c] = "done"]
      BY <1>1, ConnEffects
    <2>3. \A d \in Conns : reader[d] = "turn" => reader'[d] = "turn"
      BY <1>t, <2>2
    <2> QED
      BY <1>a, <1>k, <1>u, <2>1, <2>3
  <1>2. ASSUME NEW q \in Requests, Answered(q)
        PROVE  ReaderInv'
    BY <1>v, <1>2 DEF Answered, Answer, runnerVars
  <1>3. ASSUME NEW q \in Creates,
               Spawned(q) \/ PersistRow(q) \/ PersistRowFails(q) \/ RegisterSession(q)
        PROVE  ReaderInv'
    BY <1>v, <1>3 DEF Spawned, PersistRow, PersistRowFails, RegisterSession, runnerVars
  <1>4. ASSUME NEW q \in Turns, Started(q)
        PROVE  ReaderInv'
    <2>1. /\ reader[SinkOf[q]] = "reading" /\ reader' = [reader EXCEPT ![SinkOf[q]] = "turn"]
          /\ step' = [step EXCEPT ![q] = "load"]
      BY <1>4 DEF Started, Reads, StartTurn
    <2>2. \A r \in Turns : Running(r)' => (r = q \/ (Running(r) /\ SinkOf[r] # SinkOf[q]))
      BY <1>t, <1>a, <2>1 DEF Running
    <2>3. \A r \in Turns : Running(r)' => reader'[SinkOf[r]] = "turn"
      BY <1>t, <1>a, <1>k, <2>1, <2>2
    <2> QED
      BY <1>a, <2>2, <2>3 DEF ReaderInv
  <1>5. ASSUME NEW q \in Turns, TurnStep(q)
        PROVE  ReaderInv'
    <2>1. RunnerStep(q) /\ reader' = reader
      BY <1>5 DEF TurnStep, serverVars
    <2>2. \A r \in Turns : Running(r)' <=> Running(r)
      BY <1>t, <2>1, RunnerEffects DEF Running
    <2> QED
      BY <1>a, <1>u, <2>1, <2>2
  <1>6. ASSUME NEW q \in Turns, FinishSendMessage(q)
        PROVE  ReaderInv'
    <2>1. /\ step[q] \in {"ok", "err"} /\ step' = [step EXCEPT ![q] = "over"]
          /\ reader' = [reader EXCEPT ![SinkOf[q]] = "reading"]
      BY <1>6 DEF FinishSendMessage
    <2>2. \A r \in Turns : Running(r)' => Running(r) /\ r # q
      BY <1>t, <2>1 DEF Running
    <2>3. Running(q)
      BY <2>1 DEF Running
    <2>4. \A r \in Turns : Running(r)' => reader'[SinkOf[r]] = "turn"
      BY <1>t, <1>a, <1>k, <2>1, <2>2, <2>3
    <2> QED
      BY <1>u, <2>2, <2>4
  <1>7. CASE Restart
    <2>1. \A r \in Turns : ~(Running(r)')
      BY <1>7 DEF Restart, Running
    <2> QED
      BY <1>u, <2>1
  <1>8. CASE UNCHANGED vars
    BY <1>v, <1>8 DEF vars, runnerVars, serverVars
  <1> QED
    BY <1>1, <1>2, <1>3, <1>4, <1>5, <1>6, <1>7, <1>8, StepKinds

-----------------------------------------------------------------------------
(* Sessions *)

\* The rows stored at each step of the persistence task, value by value.
LEMMA RowsAtSteps ==
    /\ DOMAIN RowsAt = {"conversation", "user", "agent", "session", "register", "done"}
    /\ RowsAt["conversation"] = {} /\ RowsAt["user"] = {"conversation"}
    /\ RowsAt["agent"] = {"conversation", "user"}
    /\ RowsAt["session"] = {"conversation", "user", "agent"}
    /\ RowsAt["register"] = Rows /\ RowsAt["done"] = Rows
    /\ \A x \in Rows : /\ x \in DOMAIN RowsAt
                         /\ NextCreate[x] \in DOMAIN RowsAt /\ NextCreate[x] # "done"
                         /\ RowsAt[NextCreate[x]] \subseteq RowsAt[x] \cup {x}
  BY DEF RowsAt, Rows, NextCreate

\* A session whose request, rows, registration and connection a step leaves alone.
LEMMA SessionUntouched ==
    ASSUME NEW s \in Creates, SessionOK(s), creating'[s] = creating[s], rows'[s] = rows[s],
           sessions' = sessions, restarts' = restarts,
           At(s, {"response"})' = At(s, {"response"}),
           creating[s] # "none" =>
             /\ reader[SinkOf[s]] # "new" => reader'[SinkOf[s]] # "new"
             /\ reader'[SinkOf[s]] \in {"reading", "turn"} =>
                  /\ reader[SinkOf[s]] \in {"new", "reading", "turn"}
                  /\ associated'[SinkOf[s]] = associated[SinkOf[s]]
    PROVE  SessionOK(s)'
  BY DEF SessionOK

\* Every step keeps each session consistent with its create request.
LEMMA NextSession ==
    ASSUME TypeOK, StartedWereRead, ReaderInv, \A s \in Creates : SessionOK(s), [Next]_vars,
           NEW s \in Creates
    PROVE  SessionOK(s)'
  <1>t. /\ step \in [Turns -> Steps] /\ RunnerTypeOK /\ restarts \in Nat
        /\ sink \in [Conns -> Seq(FrameType)]
        /\ reader \in [Conns -> {"new", "reading", "turn", "closing", "done"}]
        /\ creating \in [Creates -> Rows \cup {"none", "register", "done", "failed"}]
        /\ rows \in [Creates -> SUBSET Rows] /\ sessions \subseteq Creates
        /\ associated \in [Conns -> SUBSET Creates]
    BY ServerTypes
  <1>k. s \in Requests /\ SinkOf[s] \in Conns /\ s \notin Turns /\ s \notin Probes
    BY RequestKinds
  <1>o. SessionOK(s)
    OBVIOUS
  <1>r. ASSUME NEW q \in Requests, NEW t \in EventTypes, Send(SinkOf[q], Frame(q, t)),
               q # s \/ t # "response"
        PROVE  At(s, {"response"})' = At(s, {"response"})
    BY <1>t, <1>k, <1>r, SendAt
  <1>e. {"internal", "response", "final", "agent_error", "ack", "stream"} \subseteq EventTypes
    BY DEF EventTypes, Errors
  <1>u. ASSUME creating' = creating, rows' = rows, sessions' = sessions, restarts' = restarts,
               reader' = reader, associated' = associated,
               At(s, {"response"})' = At(s, {"response"})
        PROVE  SessionOK(s)'
    BY <1>u, <1>o, <1>t, <1>k, SessionUntouched
  <1>1. CASE ConnStep
    <2>1. UNCHANGED <<sink, creating, rows, sessions, restarts>>
      BY <1>1, ConnEffects
    <2>2. At(s, {"response"})' = At(s, {"response"})
      BY <2>1, SameAt
    <2>3. PICK c \in Conns :
            \/ reader' = reader /\ associated' = associated
            \/ /\ reader[c] = "new" /\ associated' = associated
               /\ reader' = [reader EXCEPT ![c] = "reading"]
            \/ /\ reader[c] = "reading" /\ reader' = [reader EXCEPT ![c] = "closing"]
               /\ associated' = [associated EXCEPT ![c] = {}]
            \/ /\ reader[c] = "closing" /\ reader' = [reader EXCEPT ![c] = "done"]
               /\ associated' = associated
      BY <1>1, ConnEffects
    <2>4. /\ reader[SinkOf[s]] # "new" => reader'[SinkOf[s]] # "new"
          /\ reader'[SinkOf[s]] \in {"reading", "turn"} =>
               /\ reader[SinkOf[s]] \in {"new", "reading", "turn"}
               /\ associated'[SinkOf[s]] = associated[SinkOf[s]]
      BY <1>t, <1>k, <2>3
    <2> QED
      BY <1>o, <2>1, <2>2, <2>4, SessionUntouched
  <1>2. ASSUME NEW q \in Requests, Answered(q)
        PROVE  SessionOK(s)'
    <2>1. PICK type \in AtOnce : Answer(q, type) /\ (type = "response" => q \in Probes)
      BY <1>2 DEF Answered
    <2>2. type \in EventTypes
      BY DEF AtOnce, EventTypes, Errors
    <2>3. At(s, {"response"})' = At(s, {"response"})
      BY <1>k, <1>r, <2>1, <2>2 DEF Answer
    <2> QED
      BY <1>u, <2>1, <2>3 DEF Answer
  <1>3. ASSUME NEW q \in Creates, Spawned(q)
        PROVE  SessionOK(s)'
    <2>1. /\ q \notin asked /\ reader[SinkOf[q]] = "reading"
          /\ creating' = [creating EXCEPT ![q] = "conversation"]
          /\ associated' = [associated EXCEPT ![SinkOf[q]] = @ \cup {q}]
          /\ UNCHANGED <<sink, reader, rows, sessions, restarts>>
      BY <1>3 DEF Spawned, Reads
    <2>2. At(s, {"response"})' = At(s, {"response"})
      BY <2>1, SameAt
    <2>3. associated[SinkOf[s]] \subseteq associated'[SinkOf[s]]
      BY <1>t, <1>k, <2>1
    <2>4. CASE s # q
      <3>1. creating'[s] = creating[s]
        BY <1>t, <2>1, <2>4
      <3> QED
        BY <1>o, <2>1, <2>2, <2>3, <3>1 DEF SessionOK
    <2>5. CASE s = q
      <3>1. creating[s] = "none" /\ creating'[s] = "conversation"
        BY <1>t, <2>1, <2>5 DEF StartedWereRead
      <3>2. s \in associated'[SinkOf[s]] /\ reader'[SinkOf[s]] = "reading"
        BY <1>t, <1>k, <2>1, <2>5
      <3>3. RowsAt[creating'[s]] = {}
        BY <3>1, RowsAtSteps
      <3> QED
        BY <1>o, <2>1, <2>2, <3>1, <3>2, <3>3 DEF SessionOK
    <2> QED
      BY <2>4, <2>5
  <1>4. ASSUME NEW q \in Creates, PersistRow(q)
        PROVE  SessionOK(s)'
    <2>1. /\ creating[q] \in Rows
          /\ rows' = [rows EXCEPT ![q] = @ \cup {creating[q]}]
          /\ creating' = [creating EXCEPT ![q] = NextCreate[creating[q]]]
          /\ UNCHANGED <<sink, reader, associated, sessions, restarts>>
      BY <1>4 DEF PersistRow
    <2>2. At(s, {"response"})' = At(s, {"response"})
      BY <2>1, SameAt
    <2>3. CASE s # q
      <3>1. creating'[s] = creating[s] /\ rows'[s] = rows[s]
        BY <1>t, <2>1, <2>3
      <3> QED
        BY <1>o, <2>1, <2>2, <3>1, SessionUntouched
    <2>4. CASE s = q
      <3>1. creating'[s] = NextCreate[creating[s]] /\ rows'[s] = rows[s] \cup {creating[s]}
        BY <1>t, <2>1, <2>4
      <3>2. /\ RowsAt[creating[s]] \subseteq rows[s]
            /\ RowsAt[creating'[s]] \subseteq RowsAt[creating[s]] \cup {creating[s]}
            /\ creating'[s] # "done"
        BY <1>o, <2>1, <2>4, <3>1, RowsAtSteps DEF SessionOK
      <3>3. creating[s] # "none" /\ creating[s] # "done"
        BY <2>1, <2>4 DEF Rows
      <3> QED
        BY <1>o, <2>1, <2>2, <3>1, <3>2, <3>3 DEF SessionOK
    <2> QED
      BY <2>3, <2>4
  <1>5. ASSUME NEW q \in Creates, PersistRowFails(q)
        PROVE  SessionOK(s)'
    <2>1. /\ creating[q] \in Rows /\ Send(SinkOf[q], Frame(q, "internal"))
          /\ creating' = [creating EXCEPT ![q] = "failed"]
          /\ UNCHANGED <<reader, associated, rows, sessions, restarts>>
      BY <1>5 DEF PersistRowFails
    <2>2. q \in Requests
      BY RequestKinds
    <2>3. At(s, {"response"})' = At(s, {"response"})
      BY <1>e, <1>r, <2>1, <2>2
    <2>4. CASE s # q
      <3>1. creating'[s] = creating[s]
        BY <1>t, <2>1, <2>4
      <3> QED
        BY <1>o, <2>1, <2>3, <3>1, SessionUntouched
    <2>5. CASE s = q
      <3>1. creating'[s] = "failed" /\ creating[s] # "none" /\ creating[s] # "done"
        BY <1>t, <2>1, <2>5 DEF Rows
      <3>2. "failed" \notin DOMAIN RowsAt
        BY RowsAtSteps
      <3> QED
        BY <1>o, <2>1, <2>3, <3>1, <3>2 DEF SessionOK
    <2> QED
      BY <2>4, <2>5
  <1>6. ASSUME NEW q \in Creates, RegisterSession(q)
        PROVE  SessionOK(s)'
    <2>1. /\ creating[q] = "register" /\ Send(SinkOf[q], Frame(q, "response"))
          /\ creating' = [creating EXCEPT ![q] = "done"] /\ sessions' = sessions \cup {q}
          /\ UNCHANGED <<reader, associated, rows, restarts>>
      BY <1>6 DEF RegisterSession
    <2>2. q \in Requests
      BY RequestKinds
    <2>3. CASE s # q
      <3>1. creating'[s] = creating[s] /\ (s \in sessions' <=> s \in sessions)
        BY <1>t, <2>1, <2>3
      <3>2. At(s, {"response"})' = At(s, {"response"})
        BY <1>e, <1>r, <2>1, <2>2, <2>3
      <3> QED
        BY <1>o, <2>1, <3>1, <3>2 DEF SessionOK
    <2>4. CASE s = q
      <3>1. creating'[s] = "done" /\ s \in sessions'
        BY <1>t, <2>1, <2>4
      <3>2. RowsAt[creating[s]] = Rows /\ RowsAt["done"] = Rows /\ "register" \in DOMAIN RowsAt
        BY <2>1, <2>4, RowsAtSteps
      <3> QED
        BY <1>o, <2>1, <2>4, <3>1, <3>2 DEF SessionOK
    <2> QED
      BY <2>3, <2>4
  <1>7. ASSUME NEW q \in Turns, Started(q)
        PROVE  SessionOK(s)'
    <2>1. /\ reader[SinkOf[q]] = "reading" /\ reader' = [reader EXCEPT ![SinkOf[q]] = "turn"]
          /\ Send(SinkOf[q], Frame(q, "ack"))
          /\ UNCHANGED <<creating, associated, rows, sessions, restarts>>
      BY <1>7 DEF Started, Reads
    <2>2. q \in Requests
      BY RequestKinds
    <2>3. At(s, {"response"})' = At(s, {"response"})
      BY <1>e, <1>r, <2>1, <2>2
    <2>4. /\ reader[SinkOf[s]] # "new" => reader'[SinkOf[s]] # "new"
          /\ reader'[SinkOf[s]] \in {"reading", "turn"} =>
               reader[SinkOf[s]] \in {"new", "reading", "turn"}
      BY <1>t, <1>k, <2>1
    <2> QED
      BY <1>o, <2>1, <2>3, <2>4, SessionUntouched
  <1>8. ASSUME NEW q \in Turns, TurnStep(q)
        PROVE  SessionOK(s)'
    <2>1. RunnerStep(q) /\ UNCHANGED serverVars
      BY <1>8 DEF TurnStep
    <2>2. sink' = sink \/ Send(SinkOf[q], Frame(q, "stream"))
      BY <1>t, <2>1, RunnerEffects
    <2>3. q \in Requests
      BY RequestKinds
    <2>4. At(s, {"response"})' = At(s, {"response"})
      BY <1>e, <1>r, <2>2, <2>3, SameAt
    <2> QED
      BY <1>u, <2>1, <2>4 DEF serverVars
  <1>9. ASSUME NEW q \in Turns, FinishSendMessage(q)
        PROVE  SessionOK(s)'
    <2>1. PICK t \in {"final", "agent_error"} : Send(SinkOf[q], Frame(q, t))
      BY <1>9 DEF FinishSendMessage
    <2>2. /\ step[q] \in {"ok", "err"} /\ reader' = [reader EXCEPT ![SinkOf[q]] = "reading"]
          /\ UNCHANGED <<creating, associated, rows, sessions, restarts>>
      BY <1>9 DEF FinishSendMessage
    <2>3. q \in Requests /\ t \in EventTypes
      BY <1>e, RequestKinds
    <2>4. At(s, {"response"})' = At(s, {"response"})
      BY <1>r, <2>1, <2>3
    <2>5. reader[SinkOf[q]] = "turn"
      BY <2>2 DEF ReaderInv, Running
    <2>6. /\ reader[SinkOf[s]] # "new" => reader'[SinkOf[s]] # "new"
          /\ reader'[SinkOf[s]] \in {"reading", "turn"} =>
               reader[SinkOf[s]] \in {"new", "reading", "turn"}
      BY <1>t, <1>k, <2>2, <2>5
    <2> QED
      BY <1>o, <2>2, <2>4, <2>6, SessionUntouched
  <1>10. CASE Restart
    <2>1. /\ sink' = sink /\ rows' = rows /\ sessions' = {} /\ restarts' = restarts + 1
          /\ creating'[s] = IF creating[s] \in {"none", "done"} THEN creating[s] ELSE "failed"
          /\ reader'[SinkOf[s]] = IF reader[SinkOf[s]] = "new" THEN "new" ELSE "done"
      BY <1>k, <1>10 DEF Restart
    <2>2. At(s, {"response"})' = At(s, {"response"})
      BY <2>1, SameAt
    <2>3. "failed" \notin DOMAIN RowsAt /\ restarts' > 0
      BY <1>t, <2>1, RowsAtSteps
    <2> QED
      BY <1>o, <2>1, <2>2, <2>3 DEF SessionOK
  <1>11. CASE UNCHANGED vars
    BY <1>u, <1>11, SameAt DEF vars, serverVars
  <1> QED
    BY <1>1, <1>2, <1>3, <1>4, <1>5, <1>6, <1>7, <1>8, <1>9, <1>10, <1>11, StepKinds

-----------------------------------------------------------------------------
(* Complete turns *)

\* A turn of which a step changes neither the end nor what it has sent or stored.
LEMMA FinalUntouched ==
    ASSUME NEW r \in Turns, FinalOK(r),
           At(r, {"final"})' = At(r, {"final"}), At(r, {"stream"})' = At(r, {"stream"}),
           emitted'[r] = emitted[r], reply'[r] = reply[r],
           step'[r] = step[r] \/ step'[r] = "over", translator'[r] => translator[r],
           \A d \in {"inbound", "outbound"} : Stored(r, d) \subseteq Stored(r, d)'
    PROVE  FinalOK(r)'
  <1>1. Complete(r)'
    <2>1. SUFFICES ASSUME NEW i \in At(r, {"final"})
                   PROVE  /\ \A j \in At(r, {"stream"}) : j < i
                          /\ Cardinality(At(r, {"stream"})) = emitted[r]
                          /\ \E q \in Stored(r, "inbound")' :
                               reply[r] = "text" => \E a \in Stored(r, "outbound")' : q < a
      BY DEF Complete
    <2> QED
      BY DEF FinalOK, Complete
  <1> QED
    BY <1>1 DEF FinalOK

\* Every step keeps the answered turns complete.
LEMMA NextFinal ==
    ASSUME TypeOK, RunnerInv, StartedWereRead, FinalInv, [Next]_vars, NEW r \in Turns
    PROVE  FinalOK(r)'
  <1>t. /\ step \in [Turns -> Steps] /\ RunnerTypeOK /\ sink \in [Conns -> Seq(FrameType)]
        /\ translator \in [Turns -> BOOLEAN]
    BY ServerTypes
  <1>k. r \in Requests /\ r \notin Creates /\ r \notin Probes
    BY RequestKinds
  <1>o. FinalOK(r)
    BY DEF FinalInv
  <1>e. {"internal", "response", "final", "agent_error", "ack", "stream"} \subseteq EventTypes
    BY DEF EventTypes, Errors
  <1>s. ASSUME NEW q \in Requests, NEW t \in EventTypes, Send(SinkOf[q], Frame(q, t)),
               q # r \/ t \notin {"final", "stream"}
        PROVE  At(r, {"final"})' = At(r, {"final"}) /\ At(r, {"stream"})' = At(r, {"stream"})
    BY <1>t, <1>k, <1>s, SendAt
  <1>u. ASSUME UNCHANGED runnerVars,
               At(r, {"final"})' = At(r, {"final"}), At(r, {"stream"})' = At(r, {"stream"})
        PROVE  FinalOK(r)'
    <2>1. /\ step' = step /\ translator' = translator /\ emitted' = emitted /\ reply' = reply
          /\ conv' = conv /\ log' = log
      BY <1>u DEF runnerVars
    <2>2. \A d : Stored(r, d)' = Stored(r, d)
      BY <2>1, SameStores
    <2> QED
      BY <1>o, <1>u, <2>1, <2>2, FinalUntouched
  <1>1. CASE ConnStep
    BY <1>u, <1>1, ConnEffects, SameAt
  <1>2. ASSUME NEW q \in Requests, Answered(q)
        PROVE  FinalOK(r)'
    <2>1. PICK type \in AtOnce : Answer(q, type)
      BY <1>2 DEF Answered
    <2>2. type \in EventTypes /\ type \notin {"final", "stream"}
      BY DEF AtOnce, EventTypes, Errors
    <2> QED
      BY <1>s, <1>u, <2>1, <2>2 DEF Answer
  <1>3. ASSUME NEW q \in Creates, Spawned(q) \/ PersistRow(q)
        PROVE  FinalOK(r)'
    BY <1>u, <1>3, SameAt DEF Spawned, PersistRow
  <1>4. ASSUME NEW q \in Creates, PersistRowFails(q) \/ RegisterSession(q)
        PROVE  FinalOK(r)'
    <2>1. PICK t \in {"internal", "response"} : Send(SinkOf[q], Frame(q, t))
      BY <1>4 DEF PersistRowFails, RegisterSession
    <2>2. q \in Requests /\ t \in EventTypes
      BY <1>e, RequestKinds
    <2> QED
      BY <1>s, <1>u, <1>4, <2>1, <2>2 DEF PersistRowFails, RegisterSession
  <1>5. ASSUME NEW q \in Turns, Started(q)
        PROVE  FinalOK(r)'
    <2>1. PICK c \in sessions :
            Reads(q) /\ Send(SinkOf[q], Frame(q, "ack")) /\ StartTurn(q, c)
      BY <1>5 DEF Started
    <2>2. q \in Requests
      BY RequestKinds
    <2>3. At(r, {"final"})' = At(r, {"final"}) /\ At(r, {"stream"})' = At(r, {"stream"})
      BY <1>e, <1>s, <2>1, <2>2
    <2>4. CASE r = q
      <3>1. step[r] = "idle"
        BY <2>1, <2>4 DEF Reads, StartedWereRead
      <3>2. At(r, {"final"})' = {}
        BY <1>o, <2>3, <3>1 DEF FinalOK
      <3> QED
        BY <3>2 DEF FinalOK, Complete
    <2>5. CASE r # q
      <3>1. /\ step'[r] = step[r] /\ conv'[r] = conv[r] /\ translator' = translator
            /\ emitted' = emitted /\ reply' = reply /\ log' = log
        BY <1>t, <2>1, <2>5 DEF StartTurn, RunnerTypeOK
      <3>2. \A d : Stored(r, d)' = Stored(r, d)
        BY <3>1, SameStores
      <3> QED
        BY <1>o, <2>3, <3>1, <3>2, FinalUntouched
    <2> QED
      BY <2>4, <2>5
  <1>6. ASSUME NEW q \in Turns, TurnStep(q)
        PROVE  FinalOK(r)'
    <2>1. RunnerStep(q)
      BY <1>6 DEF TurnStep
    <2>2. sink' = sink \/ Send(SinkOf[q], Frame(q, "stream"))
      BY <1>t, <2>1, RunnerEffects
    <2>3. q \in Requests
      BY RequestKinds
    <2>4. CASE r # q
      <3>1. At(r, {"final"})' = At(r, {"final"}) /\ At(r, {"stream"})' = At(r, {"stream"})
        BY <1>e, <1>s, <2>2, <2>3, <2>4, SameAt
      <3>2. /\ step'[r] = step[r] /\ translator'[r] = translator[r] /\ reply'[r] = reply[r]
            /\ emitted'[r] = emitted[r]
            /\ \A d \in {"inbound", "outbound"} : Stored(r, d)' = Stored(r, d)
        BY <1>t, <2>1, <2>4, OthersUntouched
      <3> QED
        BY <1>o, <3>1, <3>2, FinalUntouched
    <2>5. CASE r = q
      <3>1. step[r] \in {"load", "inbound", "run", "join", "outbound"} \/ translator[r]
        BY <2>1, <2>5 DEF RunnerStep, LoadPrior, PersistInbound, PersistOutbound, StorageFails,
           EngineEmits, EngineReturns, EngineFails, JoinTranslator, Translate, TranslatorEnds
      <3>2. At(r, {"final"}) = {}
        BY <1>o, <3>1 DEF FinalOK
      <3>3. At(r, {"final"})' = {}
        BY <1>t, <1>k, <1>e, <2>2, <2>5, <3>2, SendAt, SameAt
      <3> QED
        BY <3>3 DEF FinalOK, Complete
    <2> QED
      BY <2>4, <2>5
  <1>7. ASSUME NEW q \in Turns, FinishSendMessage(q)
        PROVE  FinalOK(r)'
    <2>1. PICK t \in {"final", "agent_error"} :
            /\ Send(SinkOf[q], Frame(q, t))
            /\ t = IF step[q] = "ok" THEN "final" ELSE "agent_error"
      BY <1>7 DEF FinishSendMessage
    <2>2. /\ step[q] \in {"ok", "err"} /\ step' = [step EXCEPT ![q] = "over"]
          /\ UNCHANGED <<conv, log, emitted, translator, reply>>
      BY <1>7 DEF FinishSendMessage
    <2>3. q \in Requests /\ t \in EventTypes
      BY <1>e, RequestKinds
    <2>4. \A d : Stored(r, d)' = Stored(r, d)
      BY <2>2, SameStores
    <2>5. step'[r] = step[r] \/ step'[r] = "over"
      BY <1>t, <2>2
    <2>6. CASE r # q \/ t = "agent_error"
      <3>1. At(r, {"final"})' = At(r, {"final"}) /\ At(r, {"stream"})' = At(r, {"stream"})
        BY <1>s, <2>1, <2>3, <2>6
      <3> QED
        BY <1>o, <2>2, <2>4, <2>5, <3>1, FinalUntouched
    <2>7. CASE r = q /\ t = "final"
      <3>1. step[r] = "ok" /\ step'[r] = "over"
        BY <1>t, <2>1, <2>2, <2>7
      <3>2. At(r, {"final"}) = {}
        BY <1>o, <3>1 DEF FinalOK
      <3>3. /\ At(r, {"final"})' = {Len(Events(r)) + 1}
            /\ At(r, {"stream"})' = At(r, {"stream"})
            /\ At(r, {"stream"}) \subseteq 1..Len(Events(r)) /\ Len(Events(r)) \in Nat
        BY <1>t, <1>k, <2>1, <2>3, <2>7, <3>2, SendAt
      <3>4. /\ ~translator[r] /\ Cardinality(Streamed(r)) = emitted[r]
            /\ Stored(r, "inbound") # {}
            /\ reply[r] = "text" =>
                 \E x \in Stored(r, "inbound") : \E a \in Stored(r, "outbound") : x < a
        BY <3>1 DEF RunnerInv, TurnInv, NothingLost, Persisted
      <3>5. Cardinality(At(r, {"stream"})') = emitted'[r]
        BY <1>t, <2>2, <3>3, <3>4, StreamsAreStreamed
      <3>6. \A j \in At(r, {"stream"})' : j < Len(Events(r)) + 1
        BY <3>3
      <3>7. \E x \in Stored(r, "inbound")' :
               reply'[r] = "text" => \E a \in Stored(r, "outbound")' : x < a
        BY <2>2, <2>4, <3>4
      <3>8. Complete(r)'
        BY <3>3, <3>5, <3>6, <3>7 DEF Complete
      <3> QED
        BY <2>2, <3>1, <3>4, <3>8 DEF FinalOK
    <2> QED
      BY <2>1, <2>6, <2>7
  <1>8. CASE Restart
    <2>1. /\ sink' = sink /\ UNCHANGED <<conv, log, emitted, reply>>
          /\ step'[r] = (IF step[r] = "idle" THEN "idle" ELSE "over") /\ ~translator'[r]
      BY <1>8 DEF Restart
    <2>2. \A types : At(r, types)' = At(r, types)
      BY <2>1, SameAt
    <2>3. \A d : Stored(r, d)' = Stored(r, d)
      BY <2>1, SameStores
    <2> QED
      BY <1>o, <2>1, <2>2, <2>3, FinalUntouched
  <1>9. CASE UNCHANGED vars
    BY <1>u, <1>9, SameAt DEF vars
  <1> QED
    BY <1>1, <1>2, <1>3, <1>4, <1>5, <1>6, <1>7, <1>8, <1>9, StepKinds

-----------------------------------------------------------------------------
(* Theorems *)

\* The invariant holds at the start.
LEMMA InitChat ==
    ASSUME Init
    PROVE  ChatInv
  <1>1. TypeOK
    BY InitType
  <1>2. \A k \in Sinks : sink[k] = <<>>
    BY DEF Init, Conns
  <1>3. RunnerInv
    BY <1>2, RunnerStartsWell DEF Init
  <1>4. \A r \in Requests : \A types : At(r, types) = {}
    BY <1>2, RequestKinds DEF At, Events, Conns
  <1>5. /\ \A r \in Turns : step[r] = "idle"
        /\ \A r \in Creates : creating[r] = "none"
        /\ sessions = {}
    BY DEF Init, RunnerInit
  <1>6. AnswerInv
    BY <1>4, <1>5, RequestKinds
       DEF AnswerInv, StartedWereRead, AnswerPending, AnsweredOnce, Running, Creating, Rows
  <1>7. ReaderInv
    BY <1>5 DEF ReaderInv, Running
  <1>8. SessionInv
    BY <1>4, <1>5, RequestKinds, RowsAtSteps DEF SessionInv, SessionOK
  <1>9. FinalInv
    BY <1>4, RequestKinds DEF FinalInv, FinalOK, Complete
  <1> QED
    BY <1>1, <1>3, <1>6, <1>7, <1>8, <1>9 DEF ChatInv

\* Every step keeps the invariant.
LEMMA NextChat ==
    ASSUME ChatInv, [Next]_vars
    PROVE  ChatInv'
  <1>1. TypeOK'
    BY NextType DEF ChatInv
  <1>2. RunnerInv'
    BY NextRunner DEF ChatInv, AnswerInv
  <1>3. AnswerInv'
    BY NextAnswer DEF ChatInv
  <1>4. ReaderInv'
    BY NextReader DEF ChatInv
  <1>5. \A s \in Creates : SessionOK(s)'
    BY NextSession DEF ChatInv, AnswerInv, SessionInv
  <1>6. \A r \in Turns : FinalOK(r)'
    BY NextFinal DEF ChatInv, AnswerInv
  <1> QED
    BY <1>1, <1>2, <1>3, <1>4, <1>5, <1>6 DEF ChatInv, SessionInv, FinalInv

\* The server's invariant: reader, handlers, persistence tasks, turns and
\* restarts keep what each of them relies on of the others.
THEOREM ChatInvHolds == Spec => []ChatInv
  <1>1. Init => ChatInv
    BY InitChat
  <1>2. ChatInv /\ [Next]_vars => ChatInv'
    BY NextChat
  <1> QED
    BY <1>1, <1>2, PTL DEF Spec

\* For any number of connections and requests, a request is answered at most
\* once, whichever early return, turn or persistence task answers it.
THEOREM RequestsAreAnsweredOnce == Spec => []OneAnswer
  <1>1. ChatInv => OneAnswer
    <2> SUFFICES ASSUME ChatInv, NEW r \in Requests
                 PROVE  Cardinality(At(r, Terminal)) <= 1
      BY DEF OneAnswer
    <2>1. \A i, j \in At(r, Terminal) : i = j
      BY DEF ChatInv, AnswerInv, AnsweredOnce
    <2>2. CASE At(r, Terminal) = {}
      BY <2>2, FS_EmptySet
    <2>3. ASSUME NEW i \in At(r, Terminal)
          PROVE  Cardinality(At(r, Terminal)) <= 1
      <3>1. At(r, Terminal) = {i}
        BY <2>1, <2>3
      <3>2. Cardinality({i}) = 1
        BY FS_Singleton
      <3> QED
        BY <3>1, <3>2
    <2> QED
      BY <2>2, <2>3
  <1> QED
    BY <1>1, ChatInvHolds, PTL

\* For any number of sessions and restarts, a session that requests can name has
\* all its rows and its creator's connection is associated with it, and a client
\* that was told of a session can use it until the process restarts.
THEOREM SessionsAreComplete == Spec => []SessionIsComplete
  <1>1. ChatInv => SessionIsComplete
    <2> SUFFICES ASSUME ChatInv, NEW s \in Creates
                 PROVE  /\ s \in sessions =>
                             /\ rows[s] = Rows
                             /\ reader[SinkOf[s]] \in {"reading", "turn"} =>
                                  s \in associated[SinkOf[s]]
                        /\ At(s, {"response"}) # {} =>
                             rows[s] = Rows /\ (s \in sessions \/ restarts > 0)
      BY DEF SessionIsComplete
    <2>1. SessionOK(s) /\ rows[s] \subseteq Rows
      BY ServerTypes DEF ChatInv, SessionInv
    <2>2. creating[s] = "done" => rows[s] = Rows
      BY <2>1, RowsAtSteps DEF SessionOK
    <2> QED
      BY <2>1, <2>2 DEF SessionOK
  <1> QED
    BY <1>1, ChatInvHolds, PTL

\* For any number of turns, events and translators, eventual_response closes a
\* turn whose every shown event was sent before it and whose messages are stored.
THEOREM FinalsAreComplete == Spec => []FinalIsComplete
  <1>1. ChatInv => FinalIsComplete
    BY DEF ChatInv, FinalInv, FinalOK, Complete, FinalIsComplete
  <1> QED
    BY <1>1, ChatInvHolds, PTL

-----------------------------------------------------------------------------
(* Memory *)

\* Messages stay where they were stored.
LEMMA StoresGrow ==
    ASSUME ChatInv, [Next]_vars, NEW q \in Turns, NEW d \in {"inbound", "outbound"},
           conv'[q] = conv[q]
    PROVE  Stored(q, d) \subseteq Stored(q, d)'
  <1>t. /\ RunnerTypeOK /\ conv \in [Turns -> Conversations]
        /\ log \in [Conversations -> Seq(Message)]
    BY ServerTypes DEF ChatInv, RunnerTypeOK
  <1>1. CASE log' = log
    BY <1>1 DEF Stored
  <1>2. ASSUME NEW x \in Turns, RunnerStep(x)
        PROVE  Stored(q, d) \subseteq Stored(q, d)'
    <2>1. ASSUME NEW e \in {"inbound", "outbound"},
                 log' = [log EXCEPT ![conv[x]] = Append(@, [turn |-> x, direction |-> e])]
          PROVE  Stored(q, d) \subseteq Stored(q, d)'
      <3>1. [turn |-> x, direction |-> e] \in Message
        BY MessageShape
      <3>2. conv[q] \in Conversations /\ conv[x] \in Conversations
        BY <1>t
      <3> QED
        BY <1>t, <2>1, <3>1, <3>2, AppendStores
    <2> QED
      BY <1>t, <1>1, <1>2, <2>1, RunnerLogs
  <1>3. CASE ~\E x \in Turns : RunnerStep(x)
    <2>1. log' = log
      BY <1>3, StepKinds DEF ConnStep, Answered, Answer, Spawned, PersistRow, PersistRowFails,
         RegisterSession, Started, StartTurn, TurnStep, FinishSendMessage, Restart, vars,
         runnerVars, Open, ClientLeaves, Write, WriteFails, WriterEnds, ReaderEnds,
         ConnectionOver
    <2> QED
      BY <1>1, <2>1
  <1> QED
    BY <1>2, <1>3

\* A pair of turns of which a step changes nothing that matters.
LEMMA MemoryUntouched ==
    ASSUME ChatInv, MemoryInv, [Next]_vars, NEW q \in Turns, NEW r \in Turns,
           AnsweredBefore(q, r)' => AnsweredBefore(q, r), conv'[q] = conv[q],
           step'[r] = "inbound" => step[r] = "inbound", prior'[r] = prior[r],
           Stored(r, "inbound")' # {} => step[r] = "inbound" \/ Stored(r, "inbound") # {},
           AnsweredBefore(q, r)', step'[r] = "inbound" \/ Stored(r, "inbound")' # {}
    PROVE  Remembered(q, r)'
  <1>1. Remembered(q, r)
    BY DEF MemoryInv
  <1>2. Replayed(q, r) => Replayed(q, r)'
    BY DEF Replayed
  <1>3. Stored(q, "outbound") \subseteq Stored(q, "outbound")'
    BY StoresGrow
  <1> QED
    BY <1>1, <1>2, <1>3 DEF Remembered

\* The page a turn loads holds the replies that were given before it, as far as
\* it reaches.
LEMMA LoadsReplies ==
    ASSUME TypeOK, FinalInv, ConsistentReads,
           NEW q \in Turns, NEW r \in Turns, LoadPrior(r), AnsweredBefore(q, r)
    PROVE  Remembered(q, r)'
  <1>t. RunnerTypeOK /\ log[conv[r]] \in Seq(Message) /\ MaxPriorMessages \in Nat
    BY ServerTypes, TurnRunnerAssumption DEF RunnerTypeOK
  <1>1. PICK i \in At(q, {"final"}) : TRUE
    BY DEF AnsweredBefore
  <1>2. reply[q] = "text" /\ conv[q] = conv[r]
    BY DEF AnsweredBefore
  <1>3. PICK a \in Stored(q, "outbound") : TRUE
    BY <1>1, <1>2 DEF FinalInv, FinalOK, Complete
  <1>4. a \in 1..Len(log[conv[r]]) /\ log[conv[r]][a] = [turn |-> q, direction |-> "outbound"]
    BY <1>2, <1>3 DEF Stored
  <1>5. a \in Stored(q, "outbound")'
    BY <1>3 DEF LoadPrior, Stored
  <1>6. a <= MaxPriorMessages => Replayed(q, r)'
    <2>1. a <= MaxPriorMessages => a \in 1..Len(prior'[r]) /\ prior'[r][a] = log[conv[r]][a]
      BY <1>t, <1>4, LoadsPage
    <2> QED
      BY <1>4, <2>1 DEF Replayed
  <1> QED
    BY <1>t, <1>4, <1>5, <1>6 DEF Remembered

\* A turn that loads its page has stored nothing that could be on it.
LEMMA NextNotItsOwn ==
    ASSUME ChatInv, NotItsOwn, [Next]_vars
    PROVE  NotItsOwn'
  <1>t. /\ RunnerTypeOK /\ LoggedOnce /\ step \in [Turns -> Steps]
        /\ conv \in [Turns -> Conversations] /\ log \in [Conversations -> Seq(Message)]
        /\ prior \in [Turns -> Seq(Message)]
    BY ServerTypes DEF ChatInv, RunnerTypeOK, RunnerInv
  <1>1. CASE prior' = prior
    BY <1>1 DEF NotItsOwn
  <1>2. ASSUME NEW x \in Turns, LoadPrior(x)
        PROVE  NotItsOwn'
    <2>1. \A r \in Turns : r # x => prior'[r] = prior[r]
      BY <1>t, <1>2, LoadsPage
    <2>2. ASSUME NEW i \in 1..Len(prior'[x])
          PROVE  prior'[x][i].turn # x
      <3>1. PICK j \in 1..Len(log[conv[x]]) : prior'[x][i] = log[conv[x]][j]
        BY <1>t, <1>2, LoadsPage
      <3>2. step[log[conv[x]][j].turn] \notin Before(log[conv[x]][j].direction)
        BY <1>t DEF LoggedOnce
      <3>3. step[x] = "load"
        BY <1>2 DEF LoadPrior
      <3> QED
        BY <3>1, <3>2, <3>3 DEF Before
    <2> QED
      BY <2>1, <2>2 DEF NotItsOwn
  <1>3. ASSUME NEW x \in Turns, RunnerStep(x), ~LoadPrior(x)
        PROVE  prior' = prior
    BY <1>3 DEF RunnerStep, PersistInbound, PersistOutbound, StorageFails,
       EngineEmits, EngineReturns, EngineFails, JoinTranslator, Translate, TranslatorEnds
  <1>4. CASE ~\E x \in Turns : RunnerStep(x)
    <2>1. prior' = prior
      BY <1>4, StepKinds DEF ConnStep, Answered, Answer, Spawned, PersistRow, PersistRowFails,
         RegisterSession, Started, StartTurn, TurnStep, FinishSendMessage, Restart, vars,
         runnerVars, Open, ClientLeaves, Write, WriteFails, WriterEnds, ReaderEnds,
         ConnectionOver
    <2> QED
      BY <1>1, <2>1
  <1> QED
    BY <1>1, <1>2, <1>3, <1>4

\* Every step keeps the memory of the turns.
LEMMA NextMemory ==
    ASSUME ChatInv, MemoryInv, [Next]_vars, ConsistentReads
    PROVE  MemoryInv'
  <1>t. /\ TypeOK /\ RunnerTypeOK /\ RunnerInv /\ FinalInv /\ StartedWereRead
        /\ step \in [Turns -> Steps] /\ conv \in [Turns -> Conversations]
        /\ prior \in [Turns -> Seq(Message)] /\ log \in [Conversations -> Seq(Message)]
        /\ sink \in [Conns -> Seq(FrameType)]
    BY ServerTypes DEF ChatInv, AnswerInv, RunnerTypeOK
  <1> SUFFICES ASSUME NEW q \in Turns, NEW r \in Turns, AnsweredBefore(q, r)',
                      step'[r] = "inbound" \/ Stored(r, "inbound")' # {}
               PROVE  Remembered(q, r)'
    BY DEF MemoryInv
  <1>k. q \in Requests /\ r \in Requests
    BY RequestKinds
  <1>e. {"internal", "response", "final", "agent_error", "ack", "stream"} \subseteq EventTypes
    BY DEF EventTypes, Errors
  <1>b. /\ q # r /\ SinkOf[q] = SinkOf[r] /\ conv'[q] = conv'[r] /\ reply'[q] = "text"
        /\ \E i \in At(q, {"final"})', j \in At(r, {"ack"})' : i < j
    BY DEF AnsweredBefore
  <1>c. ASSUME At(q, {"final"})' = At(q, {"final"}), At(r, {"ack"})' = At(r, {"ack"}),
               conv'[q] = conv[q], conv'[r] = conv[r], reply'[q] = reply[q]
        PROVE  AnsweredBefore(q, r)
    BY <1>b, <1>c DEF AnsweredBefore
  <1>s. ASSUME NEW x \in Requests, NEW t \in EventTypes \ {"final", "ack"},
               Send(SinkOf[x], Frame(x, t))
        PROVE  At(q, {"final"})' = At(q, {"final"}) /\ At(r, {"ack"})' = At(r, {"ack"})
    BY <1>t, <1>k, <1>s, SendAt
  <1>u. ASSUME UNCHANGED runnerVars,
               At(q, {"final"})' = At(q, {"final"}), At(r, {"ack"})' = At(r, {"ack"})
        PROVE  Remembered(q, r)'
    <2>1. step' = step /\ conv' = conv /\ prior' = prior /\ log' = log /\ reply' = reply
      BY <1>u DEF runnerVars
    <2>2. Stored(r, "inbound")' = Stored(r, "inbound")
      BY <2>1, SameStores
    <2> QED
      BY <1>c, <1>u, <2>1, <2>2, MemoryUntouched
  <1>1. CASE ConnStep
    BY <1>t, <1>u, <1>1, ConnEffects, SameAt
  <1>2. ASSUME NEW x \in Requests, Answered(x)
        PROVE  Remembered(q, r)'
    <2>1. PICK type \in AtOnce : Answer(x, type)
      BY <1>2 DEF Answered
    <2>2. type \in EventTypes \ {"final", "ack"}
      BY DEF AtOnce, EventTypes, Errors
    <2> QED
      BY <1>s, <1>u, <2>1, <2>2 DEF Answer
  <1>3. ASSUME NEW x \in Creates, Spawned(x) \/ PersistRow(x)
        PROVE  Remembered(q, r)'
    BY <1>u, <1>3, SameAt DEF Spawned, PersistRow
  <1>4. ASSUME NEW x \in Creates, PersistRowFails(x) \/ RegisterSession(x)
        PROVE  Remembered(q, r)'
    <2>1. PICK t \in {"internal", "response"} : Send(SinkOf[x], Frame(x, t))
      BY <1>4 DEF PersistRowFails, RegisterSession
    <2>2. x \in Requests /\ t \in EventTypes \ {"final", "ack"}
      BY <1>e, RequestKinds
    <2> QED
      BY <1>s, <1>u, <1>4, <2>1, <2>2 DEF PersistRowFails, RegisterSession
  <1>5. ASSUME NEW x \in Turns, Started(x)
        PROVE  Remembered(q, r)'
    <2>1. PICK c \in sessions :
            Reads(x) /\ Send(SinkOf[x], Frame(x, "ack")) /\ StartTurn(x, c)
      BY <1>5 DEF Started
    <2>2. /\ step' = [step EXCEPT ![x] = "load"] /\ conv' = [conv EXCEPT ![x] = c]
          /\ prior' = prior /\ log' = log /\ reply' = reply /\ c \in Conversations
      BY <1>t, <2>1, ServerTypes, ChatServerAssumption DEF StartTurn
    <2>3. step[x] = "idle" /\ x \in Requests
      BY <1>t, <2>1, RequestKinds DEF Reads, StartedWereRead
    <2>4. At(q, {"final"})' = At(q, {"final"})
      BY <1>t, <1>k, <1>e, <2>1, <2>3, SendAt
    <2>5. q # x
      <3>1. At(x, {"final"}) = {}
        BY <1>t, <2>3 DEF FinalInv, FinalOK
      <3> QED
        BY <1>b, <2>4, <3>1
    <2>6. CASE r = x
      <3>1. step'[r] = "load" /\ conv'[r] = c
        BY <1>t, <2>2, <2>6
      <3>2. PICK i \in 1..Len(log[c]) : log[c][i] = [turn |-> r, direction |-> "inbound"]
        BY <2>2, <3>1 DEF Stored
      <3>3. log[c][i].turn = r /\ log[c][i].direction = "inbound"
        BY <3>2
      <3>4. step[r] \notin Before("inbound")
        BY <1>t, <2>2, <3>3 DEF RunnerInv, LoggedOnce
      <3> QED
        BY <2>3, <2>6, <3>4 DEF Before
    <2>7. CASE r # x
      <3>1. At(r, {"ack"})' = At(r, {"ack"})
        BY <1>t, <1>k, <1>e, <2>1, <2>3, <2>7, SendAt
      <3>2. step'[r] = step[r] /\ conv'[r] = conv[r] /\ conv'[q] = conv[q]
        BY <1>t, <2>2, <2>5, <2>7
      <3>3. Stored(r, "inbound")' = Stored(r, "inbound")
        BY <2>2, <3>2, SameStores
      <3>4. prior'[r] = prior[r] /\ AnsweredBefore(q, r)
        BY <1>c, <2>2, <2>4, <3>1, <3>2
      <3> QED
        BY <3>2, <3>3, <3>4, MemoryUntouched
    <2> QED
      BY <2>6, <2>7
  <1>6. ASSUME NEW x \in Turns, TurnStep(x)
        PROVE  Remembered(q, r)'
    <2>1. RunnerStep(x) /\ x \in Requests
      BY <1>6, RequestKinds DEF TurnStep
    <2>2. conv' = conv /\ (sink' = sink \/ Send(SinkOf[x], Frame(x, "stream")))
      BY <1>t, <2>1, RunnerEffects
    <2>3. At(q, {"final"})' = At(q, {"final"}) /\ At(r, {"ack"})' = At(r, {"ack"})
      BY <1>e, <1>s, <2>1, <2>2, SameAt
    <2>4. q # x
      <3>1. step[x] \in {"load", "inbound", "run", "join", "outbound"} \/ translator[x]
        BY <2>1 DEF RunnerStep, LoadPrior, PersistInbound, PersistOutbound, StorageFails,
           EngineEmits, EngineReturns, EngineFails, JoinTranslator, Translate, TranslatorEnds
      <3>2. At(x, {"final"}) = {}
        BY <1>t, <3>1 DEF FinalInv, FinalOK
      <3> QED
        BY <1>b, <2>3, <3>2
    <2>5. reply'[q] = reply[q]
      BY <1>t, <2>1, <2>4, OthersUntouched
    <2>6. AnsweredBefore(q, r)
      BY <1>c, <2>2, <2>3, <2>5
    <2>7. CASE r # x
      <3>1. /\ step'[r] = step[r] /\ prior'[r] = prior[r]
            /\ Stored(r, "inbound")' = Stored(r, "inbound")
        BY <1>t, <2>1, <2>7, OthersUntouched
      <3> QED
        BY <2>2, <2>6, <3>1, MemoryUntouched
    <2>8. CASE r = x /\ LoadPrior(r)
      BY <1>t, <2>6, <2>8, LoadsReplies
    <2>9. CASE r = x /\ ~LoadPrior(r)
      <3>1. prior' = prior
        BY <2>1, <2>9 DEF RunnerStep, PersistInbound, PersistOutbound, StorageFails,
           EngineEmits, EngineReturns, EngineFails, JoinTranslator, Translate, TranslatorEnds
      <3>2. step'[r] = "inbound" => step[r] = "inbound"
        BY <1>t, <2>1, <2>9 DEF RunnerStep, PersistInbound, PersistOutbound, StorageFails,
           EngineEmits, EngineReturns, EngineFails, JoinTranslator, Translate, TranslatorEnds
      <3>3. Stored(r, "inbound")' # {} => step[r] = "inbound" \/ Stored(r, "inbound") # {}
        <4>1. CASE log' = log
          BY <2>2, <4>1, SameStores
        <4>2. ASSUME NEW d \in {"inbound", "outbound"}, step[r] = d,
                     log' = [log EXCEPT ![conv[r]] = Append(@, [turn |-> r, direction |-> d])]
              PROVE  step[r] = "inbound" \/ Stored(r, "inbound")' = Stored(r, "inbound")
          <5>1. [turn |-> r, direction |-> d] \in Message
            BY MessageShape
          <5>2. d # "inbound" =>
                  [turn |-> r, direction |-> d] # [turn |-> r, direction |-> "inbound"]
            OBVIOUS
          <5>3. conv[r] \in Conversations /\ conv'[r] = conv[r]
            BY <1>t, <2>2
          <5> QED
            BY <1>t, <4>2, <5>1, <5>2, <5>3, AppendStores
        <4> QED
          BY <1>t, <2>1, <2>9, <4>1, <4>2, RunnerLogs
      <3> QED
        BY <2>2, <2>6, <3>1, <3>2, <3>3, MemoryUntouched
    <2> QED
      BY <2>7, <2>8, <2>9
  <1>7. ASSUME NEW x \in Turns, FinishSendMessage(x)
        PROVE  Remembered(q, r)'
    <2>1. PICK t \in {"final", "agent_error"} : Send(SinkOf[x], Frame(x, t))
      BY <1>7 DEF FinishSendMessage
    <2>2. /\ step[x] \in {"ok", "err"} /\ step' = [step EXCEPT ![x] = "over"]
          /\ UNCHANGED <<conv, log, prior, reply>>
      BY <1>7 DEF FinishSendMessage
    <2>3. x \in Requests /\ t \in EventTypes
      BY <1>e, RequestKinds
    <2>4. /\ At(r, {"ack"})' = At(r, {"ack"})
          /\ At(r, {"ack"}) \subseteq 1..Len(Events(r)) /\ Len(Events(r)) \in Nat
      <3>1. t \notin {"ack"}
        OBVIOUS
      <3> QED
        BY <1>t, <1>k, <2>1, <2>3, <3>1, SendAt
    <2>5. \A i \in At(q, {"final"})' : i \in At(q, {"final"}) \/ i = Len(Events(q)) + 1
      BY <1>t, <1>k, <2>1, <2>3, SendAtLast
    <2>6. Events(q) = Events(r)
      BY <1>b DEF Events
    <2>7. \E i \in At(q, {"final"}), j \in At(r, {"ack"}) : i < j
      <3>1. PICK i \in At(q, {"final"})', j \in At(r, {"ack"})' : i < j
        BY <1>b
      <3>2. i # Len(Events(q)) + 1
        BY <2>4, <2>6, <3>1
      <3> QED
        BY <2>4, <2>5, <3>1, <3>2
    <2>8. AnsweredBefore(q, r)
      BY <1>b, <2>2, <2>7 DEF AnsweredBefore
    <2>9. step'[r] = "inbound" => step[r] = "inbound"
      BY <1>t, <2>2
    <2>10. Stored(r, "inbound")' = Stored(r, "inbound") /\ prior'[r] = prior[r]
      BY <2>2, SameStores
    <2> QED
      BY <2>2, <2>8, <2>9, <2>10, MemoryUntouched
  <1>8. CASE Restart
    <2>1. /\ sink' = sink /\ UNCHANGED <<conv, log, prior, reply>>
          /\ step'[r] # "inbound"
      BY <1>8 DEF Restart
    <2>2. \A y, types : At(y, types)' = At(y, types)
      BY <2>1, SameAt
    <2>3. Stored(r, "inbound")' = Stored(r, "inbound") /\ prior'[r] = prior[r]
      BY <2>1, SameStores
    <2>4. AnsweredBefore(q, r)
      BY <1>c, <2>1, <2>2
    <2> QED
      BY <2>1, <2>3, <2>4, MemoryUntouched
  <1>9. CASE UNCHANGED vars
    BY <1>u, <1>9, SameAt DEF vars
  <1> QED
    BY <1>1, <1>2, <1>3, <1>4, <1>5, <1>6, <1>7, <1>8, <1>9, StepKinds

\* For any number of connections, sessions and turns, conversations of any length
\* and a page of any size: a turn replays no message of its own, and from a store
\* with consistent reads every reply its client had received before, as far as
\* the page reaches.
THEOREM EarlierTurnsAreRemembered == Spec => []RemembersTurns
  <1>1. Init => MemoryInv /\ NotItsOwn
    <2> SUFFICES ASSUME Init
                 PROVE  MemoryInv /\ NotItsOwn
      OBVIOUS
    <2>1. \A r \in Turns : At(r, {"final"}) = {}
      BY RequestKinds DEF Init, At, Events
    <2>2. \A r \in Turns : prior[r] = <<>>
      BY DEF Init, RunnerInit
    <2> QED
      BY <2>1, <2>2 DEF MemoryInv, AnsweredBefore, NotItsOwn
  <1>2. ChatInv /\ NotItsOwn /\ [Next]_vars => NotItsOwn'
    BY NextNotItsOwn
  <1>3. ChatInv /\ (ConsistentReads => MemoryInv) /\ [Next]_vars =>
          (ConsistentReads => MemoryInv)'
    <2>1. (ConsistentReads => MemoryInv)' <=> (ConsistentReads => MemoryInv')
      OBVIOUS
    <2> QED
      BY <2>1, NextMemory
  <1>4. (ConsistentReads => MemoryInv) /\ NotItsOwn => RemembersTurns
    BY DEF MemoryInv, NotItsOwn, RemembersTurns, Remembered
  <1>5. Init => (ConsistentReads => MemoryInv)
    BY <1>1
  <1> QED
    BY <1>1, <1>2, <1>3, <1>4, <1>5, ChatInvHolds, PTL DEF Spec
=============================================================================
