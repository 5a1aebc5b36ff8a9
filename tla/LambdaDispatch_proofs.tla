------------------------ MODULE LambdaDispatch_proofs ------------------------
(***************************************************************************)
(* Proofs about the Lambda handler, for any number of clients, concurrent  *)
(* invocations, events, failed posts and killed invocations.               *)
(***************************************************************************)
EXTENDS LambdaDispatch, TurnRunner_proofs

-----------------------------------------------------------------------------
(* The inductive invariant *)

\* The channel of an invocation carries the stream events of its turn only.
OwnEvents(r) == \A i \in 1..Len(sink[r]) : sink[r][i] = Frame(r, "stream")

\* Where an invocation is, where its turn, its drain and its sender are.
Stage(r) ==
    /\ inv[r] \in {"new", "ack", "turn", "drain", "over"}
    /\ inv[r] \in {"new", "ack"} => drain[r] = "none" /\ At(r, EventTypes) = {}
    /\ inv[r] = "turn" =>
         tx[r] /\ drain[r] \in {"open", "gone"} /\ step[r] \notin {"idle", "over"}
    /\ inv[r] = "drain" =>
         ~tx[r] /\ drain[r] \in {"open", "gone", "ended"} /\ step[r] \in {"ok", "err"}
    /\ inv[r] = "over" => drain[r] \in {"none", "ended"} /\ step[r] \in {"idle", "over", "ok", "err"}

\* A drain that has not started has no turn; one that has ended has no sender
\* left and, unless the invocation was killed, has taken everything.
Drained(r) ==
    /\ drain[r] = "none" => step[r] = "idle"
    /\ drain[r] = "ended" => ~translator[r]
    /\ drain[r] = "ended" /\ inv[r] = "drain" => taken[r] = Len(sink[r])

\* A terminal event is the end of the invocation and the last of its events.
Ended(r) ==
    /\ At(r, Terminal) # {} => inv[r] = "over"
    /\ \A i \in At(r, Terminal), j \in At(r, EventTypes) : j <= i

\* FinalIsComplete for one turn.
Complete(r) ==
    At(r, {"final"}) # {} =>
        /\ taken[r] = emitted[r]
        /\ \E q \in Stored(r, "inbound") :
             reply[r] = "text" => \E a \in Stored(r, "outbound") : q < a

InvocationOK(r) == OwnEvents(r) /\ Stage(r) /\ Drained(r) /\ Ended(r) /\ Complete(r)

\* The rows that are stored when a create invocation has reached a step.
RowsAt == [conversation |-> {}, user |-> {"conversation"},
           agent |-> {"conversation", "user"},
           session |-> {"conversation", "user", "agent"}]

\* The session row is the last that is written.
CreateOK(s) ==
    /\ inv[s] \in Rows => RowsAt[inv[s]] \subseteq rows[s]
    /\ "session" \in rows[s] => rows[s] = Rows

LambdaInv ==
    /\ TypeOK
    /\ RunnerInv
    /\ \A r \in Turns : InvocationOK(r)
    /\ \A s \in Creates : CreateOK(s)

-----------------------------------------------------------------------------
(* Events on the wire *)

FrameType == [req : Requests, type : EventTypes]

\* The part of TypeOK that the proofs use, and the runner's view of the channels.
LEMMA LambdaTypes ==
    ASSUME TypeOK
    PROVE  /\ RunnerTypeOK
           /\ sink \in [Turns -> Seq([req : Turns, type : {"stream"}])]
           /\ sink \in [Sinks -> Seq([req : Turns, type : {"stream"}])]
           /\ inv \in [Requests -> Rows \cup {"new", "created", "ack", "turn", "drain", "over"}]
           /\ names \in [Turns \cup Probes -> Creates]
           /\ rows \in [Creates -> SUBSET Rows] /\ tx \in [Turns -> BOOLEAN]
           /\ drain \in [Turns -> {"none", "open", "gone", "ended"}]
           /\ taken \in [Turns -> Nat] /\ wire \in [Clients -> Seq(FrameType)]
           /\ step \in [Turns -> Steps] /\ translator \in [Turns -> BOOLEAN]
           /\ rx \in [Turns -> Seq(AgentEvent)]
  BY LambdaAssumption DEF TypeOK, FrameType, RunnerTypeOK

\* Who can ask, and where the answers go.
LEMMA InvocationKinds ==
    /\ \A r \in Requests : ClientOf[r] \in Clients
    /\ \A r \in Turns : r \in Requests /\ r \notin Creates /\ r \notin Probes /\ SinkOf[r] = r
    /\ \A r \in Creates : r \in Requests /\ r \notin Turns /\ r \notin Probes
    /\ \A r \in Probes : r \in Requests /\ r \notin Turns /\ r \notin Creates
    /\ \A r \in Requests : \A t \in EventTypes : Frame(r, t) \in FrameType
  BY LambdaAssumption DEF Requests, Frame, FrameType

\* The outcomes of a post, as the client sees them.
Posts(q, t) == \/ wire' = wire
               \/ wire' = [wire EXCEPT ![ClientOf[q]] = Append(@, Frame(q, t))]

\* A post puts its event last on the wire of its client, or nothing.
LEMMA PostAt ==
    ASSUME wire \in [Clients -> Seq(FrameType)], NEW q \in Requests, NEW t \in EventTypes,
           Posts(q, t)
    PROVE  /\ wire' \in [Clients -> Seq(FrameType)]
           /\ \A r \in Requests : \A types :
                \/ At(r, types)' = At(r, types)
                \/ /\ r = q /\ t \in types
                   /\ At(r, types)' = At(r, types) \cup {Len(wire[ClientOf[q]]) + 1}
           /\ \A r \in Requests : \A types :
                At(r, types) \subseteq 1..Len(wire[ClientOf[r]])
           /\ Len(wire[ClientOf[q]]) \in Nat
  <1>0. /\ \A r \in Requests : ClientOf[r] \in Clients /\ wire[ClientOf[r]] \in Seq(FrameType)
        /\ Frame(q, t) \in FrameType
    BY InvocationKinds
  <1>1. \A r \in Requests : \A types : At(r, types) \subseteq 1..Len(wire[ClientOf[r]])
    BY DEF At
  <1>2. Len(wire[ClientOf[q]]) \in Nat
    BY <1>0
  <1>3. CASE wire' = wire
    BY <1>1, <1>2, <1>3 DEF At
  <1>4. CASE wire' = [wire EXCEPT ![ClientOf[q]] = Append(@, Frame(q, t))]
    <2> DEFINE k == ClientOf[q]
               s == wire[k]
    <2>1. s \in Seq(FrameType) /\ Append(s, Frame(q, t)) \in Seq(FrameType)
      BY <1>0
    <2>2. wire' \in [Clients -> Seq(FrameType)]
      BY <1>4, <2>1
    <2>3. SUFFICES ASSUME NEW r \in Requests, NEW types
                   PROVE  \/ At(r, types)' = At(r, types)
                          \/ /\ r = q /\ t \in types
                             /\ At(r, types)' = At(r, types) \cup {Len(s) + 1}
      BY <1>1, <1>2, <2>2
    <2>4. At(r, types)' = {i \in 1..Len(wire'[ClientOf[r]]) :
                              /\ wire'[ClientOf[r]][i].req = r
                              /\ wire'[ClientOf[r]][i].type \in types}
      BY DEF At
    <2>5. CASE ClientOf[r] # k
      <3>1. wire'[ClientOf[r]] = wire[ClientOf[r]]
        BY <1>0, <1>4, <2>5
      <3> QED
        BY <2>4, <3>1 DEF At
    <2>6. CASE ClientOf[r] = k
      <3>1. wire'[ClientOf[r]] = Append(s, Frame(q, t)) /\ wire[ClientOf[r]] = s
        BY <1>0, <1>4, <2>6
      <3>2. Frame(q, t).req = q /\ Frame(q, t).type = t
        BY DEF Frame
      <3>3. /\ Len(wire'[ClientOf[r]]) = Len(s) + 1 /\ Len(s) \in Nat
            /\ wire'[ClientOf[r]][Len(s) + 1] = Frame(q, t)
            /\ \A i \in 1..Len(s) : wire'[ClientOf[r]][i] = s[i]
        BY <2>1, <3>1
      <3>4. \A i : i \in 1..(Len(s) + 1) <=> (i \in 1..Len(s) \/ i = Len(s) + 1)
        BY <3>3
      <3>5. CASE r = q /\ t \in types
        <4>1. At(r, types)' = At(r, types) \cup {Len(s) + 1}
          BY <2>4, <3>1, <3>2, <3>3, <3>4, <3>5 DEF At
        <4> QED
          BY <3>5, <4>1
      <3>6. CASE ~(r = q /\ t \in types)
        <4>1. At(r, types)' = At(r, types)
          BY <2>4, <3>1, <3>2, <3>3, <3>4, <3>6 DEF At
        <4> QED
          BY <4>1
      <3> QED
        BY <3>5, <3>6
    <2> QED
      BY <2>5, <2>6
  <1> QED
    BY <1>3, <1>4 DEF Posts

\* A step that posts nothing leaves every event where it is.
LEMMA SameWire ==
    ASSUME wire' = wire, NEW r, NEW types
    PROVE  At(r, types)' = At(r, types)
  BY DEF At

-----------------------------------------------------------------------------
(* The kinds of steps *)

\* The last post of an invocation, and what all such steps leave alone.
Replied(r, type) ==
    /\ Reply(r, type)
    /\ UNCHANGED <<runnerVars, sink, names, rows, tx, drain, taken, connVars, deaths>>

\* An answer that is not the end of a turn.
Answered(r) ==
    \E type \in Terminal \ {"final", "agent_error"} :
        Replied(r, type) /\ (r \in Turns => inv[r] = "new")

\* A frame whose handler goes on after its first step.
Entered(r, stage) ==
    /\ inv[r] = "new" /\ inv' = [inv EXCEPT ![r] = stage]
    /\ UNCHANGED <<runnerVars, sink, names, rows, tx, drain, taken, wire, connVars,
                   postErrors, deaths>>

\* What the last post does: one event on the wire or none, and the end.
LEMMA ReplyEffects ==
    ASSUME NEW r, NEW type, Reply(r, type)
    PROVE  Posts(r, type) /\ inv' = [inv EXCEPT ![r] = "over"]
  BY DEF Reply, PostOk, PostGone, PostErr, Posts

\* Every step is of one of the kinds that the proofs go through.
LEMMA StepKinds ==
    ASSUME Next
    PROVE  \/ \E c \in Clients : Connect(c) \/ Disconnect(c)
           \/ \E r \in Requests : Answered(r) \/ Die(r)
           \/ \E r \in Creates : Entered(r, "conversation") \/ PersistRow(r)
           \/ \E r \in Turns : \/ Entered(r, "ack") \/ Ack(r) \/ TurnStep(r) \/ Forward(r)
                              \/ DrainEnds(r) \/ DropSender(r) \/ PostTerminal(r)
  <1>e. {"pong", "validation", "unsupported", "internal", "response", "not_found",
         "llm_unavailable"} \subseteq Terminal \ {"final", "agent_error"}
    BY DEF Terminal, Errors
  <1>1. ASSUME NEW r \in Probes, HandleOther(r)
        PROVE  Answered(r)
    BY <1>e, <1>1, InvocationKinds DEF HandleOther, Answered, Replied
  <1>2. ASSUME NEW r \in Probes, HandleGetSession(r)
        PROVE  Answered(r)
    BY <1>e, <1>2, InvocationKinds DEF HandleGetSession, Answered, Replied
  <1>3. ASSUME NEW r \in Creates, HandleCreateSession(r)
        PROVE  Entered(r, "conversation")
    BY <1>3 DEF HandleCreateSession, Entered, Arrives
  <1>4. ASSUME NEW r \in Creates, PersistRowFails(r)
        PROVE  Answered(r)
    BY <1>e, <1>4, InvocationKinds DEF PersistRowFails, Answered, Replied
  <1>5. ASSUME NEW r \in Creates, ReplyCreated(r)
        PROVE  Answered(r)
    BY <1>e, <1>5, InvocationKinds DEF ReplyCreated, Answered, Replied
  <1>6. ASSUME NEW r \in Turns, HandleSendMessage(r)
        PROVE  Answered(r) \/ Entered(r, "ack")
    <2>1. inv[r] = "new"
      BY <1>6 DEF HandleSendMessage, Arrives
    <2>2. UNCHANGED <<runnerVars, sink, names, rows, tx, drain, taken, connVars, deaths>>
      BY <1>6 DEF HandleSendMessage
    <2>3. \/ \E type \in {"validation", "internal", "not_found", "llm_unavailable"} : Reply(r, type)
          \/ inv' = [inv EXCEPT ![r] = "ack"] /\ UNCHANGED <<wire, postErrors>>
      BY <1>6 DEF HandleSendMessage
    <2> QED
      BY <1>e, <2>1, <2>2, <2>3 DEF Answered, Replied, Entered
  <1> QED
    BY <1>1, <1>2, <1>3, <1>4, <1>5, <1>6, InvocationKinds DEF Next

-----------------------------------------------------------------------------
(* Types *)

\* The variables have their types at the start.
LEMMA InitType ==
    ASSUME Init
    PROVE  TypeOK
  <1>1. \A k \in Sinks : sink[k] = <<>>
    BY LambdaAssumption DEF Init
  <1>2. RunnerTypeOK
    BY <1>1, RunnerStartsWell DEF Init
  <1>3. /\ sink \in [Turns -> Seq([req : Turns, type : {"stream"}])]
        /\ wire \in [Clients -> Seq([req : Requests, type : EventTypes])]
    BY DEF Init
  <1> QED
    BY <1>2, <1>3, LambdaAssumption DEF Init, TypeOK

\* Every step keeps the types.
LEMMA NextType ==
    ASSUME TypeOK, [Next]_vars
    PROVE  TypeOK'
  <1>t. /\ RunnerTypeOK /\ wire \in [Clients -> Seq(FrameType)]
        /\ inv \in [Requests -> Rows \cup {"new", "created", "ack", "turn", "drain", "over"}]
        /\ drain \in [Turns -> {"none", "open", "gone", "ended"}]
        /\ tx \in [Turns -> BOOLEAN] /\ taken \in [Turns -> Nat]
        /\ rows \in [Creates -> SUBSET Rows]
        /\ names \in [Turns \cup Probes -> Creates]
        /\ postErrors \in 0..MaxPostErrors /\ deaths \in 0..MaxDeaths
    BY LambdaTypes DEF TypeOK
  <1>u. ASSUME UNCHANGED runnerVars
        PROVE  RunnerTypeOK'
    BY <1>t, <1>u DEF runnerVars, RunnerTypeOK
  <1>w. ASSUME wire' \in [Clients -> Seq(FrameType)]
        PROVE  wire' \in [Clients -> Seq([req : Requests, type : EventTypes])]
    BY <1>w DEF FrameType
  <1>p. ASSUME NEW r, NEW type, PostOk(r, type) \/ PostGone(r) \/ PostErr(r)
        PROVE  postErrors' \in 0..MaxPostErrors /\ Posts(r, type)
    BY <1>t, <1>p, LambdaAssumption DEF PostOk, PostGone, PostErr, Posts
  <1>i. ASSUME NEW r \in Requests,
               NEW x \in Rows \cup {"new", "created", "ack", "turn", "drain", "over"},
               inv' = [inv EXCEPT ![r] = x]
        PROVE  inv' \in [Requests -> Rows \cup {"new", "created", "ack", "turn", "drain", "over"}]
    BY <1>t, <1>i
  <1>1. ASSUME NEW c \in Clients, Connect(c) \/ Disconnect(c)
        PROVE  TypeOK'
    <2>1. /\ client' \in [Clients -> {"new", "open", "gone"}]
          /\ connRow' \in [Clients -> BOOLEAN]
      BY <1>1 DEF TypeOK, Connect, Disconnect
    <2> QED
      BY <1>u, <1>1, <2>1 DEF TypeOK, Connect, Disconnect
  <1>2. ASSUME NEW r \in Requests, NEW type \in EventTypes, Replied(r, type)
        PROVE  TypeOK'
    <2>1. /\ postErrors' \in 0..MaxPostErrors /\ Posts(r, type)
          /\ inv' = [inv EXCEPT ![r] = "over"]
      BY <1>p, <1>2 DEF Replied, Reply
    <2>2. wire' \in [Clients -> Seq(FrameType)]
      BY <1>t, <2>1, PostAt
    <2>3. inv' \in [Requests -> Rows \cup {"new", "created", "ack", "turn", "drain", "over"}]
      BY <1>i, <2>1
    <2> QED
      BY <1>u, <1>w, <1>2, <2>1, <2>2, <2>3 DEF TypeOK, Replied, connVars
  <1>3. ASSUME NEW r \in Requests, NEW x \in {"conversation", "ack"}, Entered(r, x)
        PROVE  TypeOK'
    <2>1. inv' \in [Requests -> Rows \cup {"new", "created", "ack", "turn", "drain", "over"}]
      BY <1>i, <1>3 DEF Entered, Rows
    <2> QED
      BY <1>u, <1>3, <2>1 DEF TypeOK, Entered, connVars
  <1>4. ASSUME NEW r \in Creates, PersistRow(r)
        PROVE  TypeOK'
    <2>1. inv[r] \in Rows /\ NextCreate[inv[r]] \in Rows \cup {"created"} /\ r \in Requests
      BY <1>4, InvocationKinds DEF PersistRow, NextCreate, Rows
    <2>2. inv' \in [Requests -> Rows \cup {"new", "created", "ack", "turn", "drain", "over"}]
      BY <1>i, <1>4, <2>1 DEF PersistRow
    <2>3. rows' \in [Creates -> SUBSET Rows]
      BY <1>t, <1>4, <2>1 DEF PersistRow
    <2> QED
      BY <1>u, <1>4, <2>2, <2>3 DEF TypeOK, PersistRow, connVars
  <1>5. ASSUME NEW r \in Turns, Ack(r)
        PROVE  TypeOK'
    <2>0. r \in Requests /\ "ack" \in EventTypes
      BY InvocationKinds DEF EventTypes
    <2>1. postErrors' \in 0..MaxPostErrors /\ Posts(r, "ack")
      BY <1>p, <1>5 DEF Ack
    <2>2. wire' \in [Clients -> Seq(FrameType)]
      BY <1>t, <2>0, <2>1, PostAt
    <2>3. inv' \in [Requests -> Rows \cup {"new", "created", "ack", "turn", "drain", "over"}]
      BY <1>i, <1>5, <2>0 DEF Ack
    <2>4. tx' \in [Turns -> BOOLEAN] /\ drain' \in [Turns -> {"none", "open", "gone", "ended"}]
      BY <1>t, <1>5 DEF Ack
    <2>5. RunnerTypeOK'
      <3>1. names[r] \in Conversations
        BY <1>t, LambdaAssumption
      <3>2. CASE StartTurn(r, names[r])
        BY <1>t, <3>1, <3>2 DEF RunnerTypeOK, StartTurn, Steps
      <3> QED
        BY <1>u, <1>5, <3>2 DEF Ack
    <2> QED
      BY <1>w, <1>5, <2>1, <2>2, <2>3, <2>4, <2>5 DEF TypeOK, Ack, connVars
  <1>6. ASSUME NEW r \in Turns, Forward(r)
        PROVE  TypeOK'
    <2>0. r \in Requests /\ "stream" \in EventTypes
      BY InvocationKinds DEF EventTypes
    <2>1. postErrors' \in 0..MaxPostErrors /\ Posts(r, "stream")
      <3>1. CASE PostOk(r, "stream") \/ PostErr(r) \/ PostGone(r)
        BY <1>p, <3>1
      <3>2. CASE UNCHANGED <<wire, postErrors>>
        BY <1>t, <3>2 DEF Posts
      <3> QED
        BY <1>6, <3>1, <3>2 DEF Forward
    <2>2. wire' \in [Clients -> Seq(FrameType)]
      BY <1>t, <2>0, <2>1, PostAt
    <2>3. taken' \in [Turns -> Nat]
      <3>1. taken' = [taken EXCEPT ![r] = taken[r] + 1] /\ taken[r] + 1 \in Nat
        BY <1>t, <1>6 DEF Forward
      <3> QED
        BY <1>t, <3>1
    <2>4. drain' \in [Turns -> {"none", "open", "gone", "ended"}]
      BY <1>t, <1>6 DEF Forward
    <2> QED
      BY <1>u, <1>w, <1>6, <2>1, <2>2, <2>3, <2>4 DEF TypeOK, Forward, connVars
  <1>7. ASSUME NEW r \in Turns, DrainEnds(r)
        PROVE  TypeOK'
    <2>1. drain' \in [Turns -> {"none", "open", "gone", "ended"}]
      BY <1>t, <1>7 DEF DrainEnds
    <2> QED
      BY <1>u, <1>7, <2>1 DEF TypeOK, DrainEnds, connVars
  <1>8. ASSUME NEW r \in Turns, DropSender(r)
        PROVE  TypeOK'
    <2>1. /\ tx' \in [Turns -> BOOLEAN]
          /\ inv' \in [Requests -> Rows \cup {"new", "created", "ack", "turn", "drain", "over"}]
      BY <1>t, <1>8 DEF DropSender
    <2> QED
      BY <1>u, <1>8, <2>1 DEF TypeOK, DropSender, connVars
  <1>9. ASSUME NEW r \in Turns, TurnStep(r)
        PROVE  TypeOK'
    <2>1. RunnerStep(r) /\ UNCHANGED lambdaVars
      BY <1>9 DEF TurnStep
    <2>2. RunnerTypeOK'
      BY <1>t, <2>1, RunnerTypeKept
    <2>3. sink' = sink \/ sink' = [sink EXCEPT ![r] = Append(@, Frame(r, "stream"))]
      <3>1. sink' = sink \/ Send(SinkOf[r], Frame(r, "stream"))
        BY <1>t, <2>1, RunnerEffects
      <3>2. SinkOf[r] = r
        BY InvocationKinds
      <3> QED
        BY <3>1, <3>2 DEF Send
    <2>4. sink' \in [Turns -> Seq([req : Turns, type : {"stream"}])]
      <3> DEFINE S == [req : Turns, type : {"stream"}]
      <3>1. Frame(r, "stream") \in S
        BY DEF Frame
      <3>2. sink \in [Turns -> Seq(S)]
        BY LambdaTypes
      <3> HIDE DEF S
      <3>3. sink[r] \in Seq(S)
        BY <3>2
      <3>4. Append(sink[r], Frame(r, "stream")) \in Seq(S)
        BY <3>1, <3>3
      <3>5. sink' \in [Turns -> Seq(S)]
        BY <2>3, <3>2, <3>4
      <3> QED
        BY <3>5 DEF S
    <2> QED
      BY <2>1, <2>2, <2>4 DEF TypeOK, lambdaVars
  <1>10. ASSUME NEW r \in Requests, Die(r)
        PROVE  TypeOK'
    <2>1. RunnerTypeOK'
      <3>1. /\ step' \in [Turns -> Steps] /\ translator' \in [Turns -> BOOLEAN]
            /\ rx' \in [Turns -> Seq(AgentEvent)]
        <4>1. /\ step \in [Turns -> Steps] /\ translator \in [Turns -> BOOLEAN]
              /\ rx \in [Turns -> Seq(AgentEvent)]
          BY LambdaTypes
        <4>2. /\ step' = [x \in Turns |-> IF x = r THEN "over" ELSE step[x]]
              /\ translator' = [x \in Turns |-> IF x = r THEN FALSE ELSE translator[x]]
              /\ rx' = [x \in Turns |-> IF x = r THEN <<>> ELSE rx[x]]
          BY <1>10 DEF Die
        <4>3. <<>> \in Seq(AgentEvent) /\ "over" \in Steps
          BY DEF Steps
        <4> QED
          BY <4>1, <4>2, <4>3
      <3>2. UNCHANGED <<conv, prior, log, emitted, reply>>
        BY <1>10 DEF Die
      <3> QED
        BY <1>t, <3>1, <3>2 DEF RunnerTypeOK
    <2>2. /\ inv' \in [Requests -> Rows \cup {"new", "created", "ack", "turn", "drain", "over"}]
          /\ tx' \in [Turns -> BOOLEAN] /\ drain' \in [Turns -> {"none", "open", "gone", "ended"}]
      BY <1>t, <1>10 DEF Die
    <2>3. deaths' \in 0..MaxDeaths
      BY <1>t, <1>10, LambdaAssumption DEF Die
    <2> QED
      BY <1>10, <2>1, <2>2, <2>3 DEF TypeOK, Die, connVars
  <1>11. CASE UNCHANGED vars
    BY <1>u, <1>11 DEF TypeOK, vars, lambdaVars
  <1>12. ASSUME NEW r \in Requests, Answered(r)
        PROVE  TypeOK'
    <2>1. PICK type \in Terminal : Replied(r, type)
      BY <1>12 DEF Answered
    <2>2. type \in EventTypes
      BY DEF Terminal, EventTypes
    <2> QED
      BY <1>2, <2>1, <2>2
  <1>13. ASSUME NEW r \in Turns, PostTerminal(r)
        PROVE  TypeOK'
    <2>1. PICK type \in {"final", "agent_error"} : Replied(r, type)
      BY <1>13 DEF PostTerminal, Replied
    <2>2. type \in EventTypes /\ r \in Requests
      BY InvocationKinds DEF EventTypes, Errors
    <2> QED
      BY <1>2, <2>1, <2>2
  <1> QED
    BY <1>1, <1>3, <1>4, <1>5, <1>6, <1>7, <1>8, <1>9, <1>10, <1>11, <1>12, <1>13,
       StepKinds, InvocationKinds

-----------------------------------------------------------------------------
(* The turns, as their callers leave them *)

\* The invariant of the turns survives every step of the handler.
LEMMA NextRunner ==
    ASSUME LambdaInv, [Next]_vars
    PROVE  RunnerInv'
  <1>t. /\ TypeOK /\ RunnerInv /\ RunnerTypeOK /\ step \in [Turns -> Steps]
        /\ sink \in [Sinks -> Seq([req : Turns, type : {"stream"}])]
    BY LambdaTypes DEF LambdaInv
  <1>v. ASSUME sink' = sink
        PROVE  \A r \in Turns : Streamed(r)' = Streamed(r)
    BY <1>v DEF Streamed, Frame
  <1>u. ASSUME UNCHANGED runnerVars, sink' = sink
        PROVE  RunnerInv'
    <2>1. /\ step' = step /\ translator' = translator /\ rx' = rx
          /\ UNCHANGED <<conv, log, emitted, reply>>
      BY <1>u DEF runnerVars
    <2>2. step' \in [Turns -> Steps]
      BY <1>t, <2>1
    <2> QED
      BY <1>t, <1>u, <1>v, <2>1, <2>2, EndKeepsRunner
  <1>1. ASSUME NEW c \in Clients, Connect(c) \/ Disconnect(c)
        PROVE  RunnerInv'
    BY <1>u, <1>1 DEF Connect, Disconnect
  <1>2. ASSUME NEW r \in Requests, Answered(r)
        PROVE  RunnerInv'
    BY <1>u, <1>2 DEF Answered, Replied
  <1>3. ASSUME NEW r, NEW x, Entered(r, x)
        PROVE  RunnerInv'
    BY <1>u, <1>3 DEF Entered
  <1>4. ASSUME NEW r \in Creates, PersistRow(r)
        PROVE  RunnerInv'
    BY <1>u, <1>4 DEF PersistRow
  <1>5. ASSUME NEW r \in Turns, Ack(r)
        PROVE  RunnerInv'
    <2>1. CASE StartTurn(r, names[r])
      <3>1. names[r] \in Conversations
        BY LambdaTypes, LambdaAssumption DEF LambdaInv
      <3>2. step[r] = "idle"
        BY <1>5 DEF Ack, LambdaInv, InvocationOK, Stage, Drained
      <3>3. sink' = sink
        BY <1>5 DEF Ack
      <3> QED
        BY <1>t, <1>v, <2>1, <3>1, <3>2, <3>3, StartKeepsRunner
    <2> QED
      BY <1>u, <1>5, <2>1 DEF Ack
  <1>6. ASSUME NEW r \in Turns,
               Forward(r) \/ DrainEnds(r) \/ DropSender(r) \/ PostTerminal(r)
        PROVE  RunnerInv'
    BY <1>u, <1>6 DEF Forward, DrainEnds, DropSender, PostTerminal
  <1>7. ASSUME NEW r \in Turns, TurnStep(r)
        PROVE  RunnerInv'
    <2>1. RunnerStep(r) /\ Frame(r, "stream") \in [req : Turns, type : {"stream"}]
      BY <1>7 DEF TurnStep, Frame
    <2> QED
      BY <1>t, <2>1, RunnerInvKept
  <1>8. ASSUME NEW q \in Requests, Die(q)
        PROVE  RunnerInv'
    <2>1. /\ sink' = sink /\ UNCHANGED <<conv, log, emitted, reply>>
          /\ step' = [x \in Turns |-> IF x = q THEN "over" ELSE step[x]]
          /\ translator' = [x \in Turns |-> IF x = q THEN FALSE ELSE translator[x]]
          /\ rx' = [x \in Turns |-> IF x = q THEN <<>> ELSE rx[x]]
      BY <1>8 DEF Die
    <2>2. step' \in [Turns -> Steps]
      BY <1>t, <2>1 DEF Steps
    <2>3. \A r \in Turns :
            /\ step'[r] = step[r] \/ step'[r] = "over"
            /\ \/ translator'[r] = translator[r] /\ rx'[r] = rx[r]
               \/ ~translator'[r] /\ rx'[r] = <<>> /\ step'[r] \in {"idle", "over"}
      BY <2>1
    <2> QED
      BY <1>t, <1>v, <2>1, <2>2, <2>3, EndKeepsRunner
  <1>9. CASE UNCHANGED vars
    BY <1>u, <1>9 DEF vars
  <1> QED
    BY <1>1, <1>2, <1>3, <1>4, <1>5, <1>6, <1>7, <1>8, <1>9, StepKinds

-----------------------------------------------------------------------------
(* Invocations *)

\* An invocation of which a step changes nothing keeps its invariant.
LEMMA InvocationUntouched ==
    ASSUME NEW r \in Turns, InvocationOK(r),
           inv'[r] = inv[r], tx'[r] = tx[r], drain'[r] = drain[r], taken'[r] = taken[r],
           step'[r] = step[r], translator'[r] = translator[r], emitted'[r] = emitted[r],
           reply'[r] = reply[r], sink'[r] = sink[r],
           \A types : At(r, types)' = At(r, types),
           \A d \in {"inbound", "outbound"} : Stored(r, d)' = Stored(r, d)
    PROVE  InvocationOK(r)'
  <1>1. OwnEvents(r)'
    BY DEF InvocationOK, OwnEvents, Frame
  <1>2. Stage(r)'
    BY DEF InvocationOK, Stage
  <1>3. Drained(r)'
    BY DEF InvocationOK, Drained
  <1>4. Ended(r)'
    <2>1. At(r, Terminal)' = At(r, Terminal) /\ At(r, EventTypes)' = At(r, EventTypes)
      OBVIOUS
    <2> QED
      BY <2>1 DEF InvocationOK, Ended
  <1>5. Complete(r)'
    BY DEF InvocationOK, Complete
  <1> QED
    BY <1>1, <1>2, <1>3, <1>4, <1>5 DEF InvocationOK

\* What a step of another invocation leaves of the runner's variables of r.
LEMMA SameRunner ==
    ASSUME NEW r \in Turns, UNCHANGED runnerVars
    PROVE  /\ step' = step /\ translator' = translator /\ emitted' = emitted /\ reply' = reply
           /\ \A d : Stored(r, d)' = Stored(r, d)
  BY SameStores DEF runnerVars

\* A turn that still makes steps belongs to an invocation that has not ended,
\* whose drain runs.
LEMMA TurnsRunInInvocations ==
    ASSUME LambdaInv, NEW q \in Turns, RunnerStep(q)
    PROVE  inv[q] \in {"turn", "drain"} /\ drain[q] \in {"open", "gone"}
  <1>1. step[q] \in {"load", "inbound", "run", "join", "outbound"} \/ translator[q]
    BY DEF RunnerStep, LoadPrior, PersistInbound, PersistOutbound, StorageFails,
       EngineEmits, EngineReturns, EngineFails, JoinTranslator, Translate, TranslatorEnds
  <1>2. QuietBeforeRun(q) /\ Stage(q) /\ Drained(q)
    BY DEF LambdaInv, RunnerInv, TurnInv, InvocationOK
  <1> QED
    BY <1>1, <1>2 DEF QuietBeforeRun, Stage, Drained

\* Terminal events are events.
LEMMA TerminalIsEvent == Terminal \subseteq EventTypes /\ "final" \in Terminal
  BY DEF Terminal, EventTypes

\* Events by their type: fewer types, fewer events.
LEMMA AtMonotone ==
    ASSUME NEW r, NEW A, NEW B, A \subseteq B
    PROVE  At(r, A) \subseteq At(r, B)
  BY DEF At

\* An invocation that posts its one terminal event and is over.
LEMMA LastPost ==
    ASSUME TypeOK, NEW r \in Turns, InvocationOK(r), NEW t \in Terminal, Replied(r, t),
           inv[r] # "over",
           drain[r] \in {"none", "ended"}, step[r] \in {"idle", "ok", "err"},
           t = "final" =>
             /\ taken[r] = emitted[r]
             /\ \E q \in Stored(r, "inbound") :
                  reply[r] = "text" => \E a \in Stored(r, "outbound") : q < a
    PROVE  InvocationOK(r)'
  <1> DEFINE n == Len(wire[ClientOf[r]]) + 1
  <1>t. /\ r \in Requests /\ t \in EventTypes /\ wire \in [Clients -> Seq(FrameType)]
        /\ inv \in [Requests -> Rows \cup {"new", "created", "ack", "turn", "drain", "over"}]
    BY LambdaTypes, InvocationKinds, TerminalIsEvent
  <1>1. /\ UNCHANGED runnerVars /\ sink' = sink /\ tx' = tx /\ drain' = drain /\ taken' = taken
        /\ inv'[r] = "over" /\ Posts(r, t)
    BY <1>t, ReplyEffects DEF Replied
  <1>2. /\ step' = step /\ translator' = translator /\ emitted' = emitted /\ reply' = reply
        /\ \A d : Stored(r, d)' = Stored(r, d)
    BY <1>1, SameRunner
  <1>3. At(r, Terminal) = {} /\ At(r, {"final"}) = {}
    <2>1. At(r, Terminal) = {}
      BY DEF InvocationOK, Ended
    <2>2. At(r, {"final"}) \subseteq At(r, Terminal)
      BY AtMonotone, TerminalIsEvent
    <2> QED
      BY <2>1, <2>2
  <1>4. \A types : \/ At(r, types)' = At(r, types)
                   \/ t \in types /\ At(r, types)' = At(r, types) \cup {n}
    BY <1>t, <1>1, PostAt
  <1>5. At(r, EventTypes) \subseteq 1..Len(wire[ClientOf[r]]) /\ Len(wire[ClientOf[r]]) \in Nat
    BY <1>t, <1>1, PostAt
  <1>6. OwnEvents(r)' /\ Stage(r)' /\ Drained(r)'
    <2>1. OwnEvents(r)'
      BY <1>1 DEF InvocationOK, OwnEvents, Frame
    <2>2. Stage(r)'
      BY <1>1, <1>2 DEF Stage
    <2>3. Drained(r)'
      BY <1>1, <1>2 DEF InvocationOK, Drained
    <2> QED
      BY <2>1, <2>2, <2>3
  <1>7. Ended(r)'
    <2>1. \A i \in At(r, Terminal)' : i = n
      BY <1>3, <1>4
    <2>2. \A j \in At(r, EventTypes)' : j <= n
      <3>1. \A j \in At(r, EventTypes)' : j \in At(r, EventTypes) \/ j = n
        BY <1>4
      <3> QED
        BY <1>5, <3>1
    <2> QED
      BY <1>1, <2>1, <2>2 DEF Ended
  <1>8. Complete(r)'
    <2>1. CASE t = "final"
      BY <1>1, <1>2, <2>1 DEF Complete
    <2>2. CASE t # "final"
      <3>1. At(r, {"final"})' = {}
        BY <1>3, <1>4, <2>2
      <3> QED
        BY <3>1 DEF Complete
    <2> QED
      BY <2>1, <2>2
  <1> QED
    BY <1>6, <1>7, <1>8 DEF InvocationOK

\* What is left of the invocation of r when another one, q, makes a step.
LEMMA OtherInvocations ==
    ASSUME LambdaInv, NEW q \in Requests, NEW r \in Turns, r # q, InvocationOK(r),
           \/ Answered(q) \/ Die(q)
           \/ q \in Creates /\ PersistRow(q)
           \/ \E x : Entered(q, x)
           \/ q \in Turns /\ \/ Ack(q) \/ Forward(q) \/ DrainEnds(q) \/ DropSender(q)
                             \/ PostTerminal(q) \/ TurnStep(q)
    PROVE  InvocationOK(r)'
  <1>t. /\ TypeOK /\ RunnerTypeOK /\ wire \in [Clients -> Seq(FrameType)]
        /\ inv \in [Requests -> Rows \cup {"new", "created", "ack", "turn", "drain", "over"}]
        /\ drain \in [Turns -> {"none", "open", "gone", "ended"}]
        /\ tx \in [Turns -> BOOLEAN] /\ taken \in [Turns -> Nat]
        /\ sink \in [Turns -> Seq([req : Turns, type : {"stream"}])]
        /\ step \in [Turns -> Steps] /\ conv \in [Turns -> Conversations]
    BY LambdaTypes DEF LambdaInv, RunnerTypeOK
  <1>k. r \in Requests
    BY InvocationKinds
  <1>e. {"ack", "stream", "final", "agent_error"} \subseteq EventTypes
    BY DEF EventTypes, Errors
  <1>p. ASSUME NEW t \in EventTypes, Posts(q, t)
        PROVE  \A types : At(r, types)' = At(r, types)
    BY <1>t, <1>k, <1>p, PostAt
  <1>u. ASSUME UNCHANGED runnerVars, sink' = sink, \A types : At(r, types)' = At(r, types),
               inv'[r] = inv[r], tx'[r] = tx[r], drain'[r] = drain[r], taken'[r] = taken[r]
        PROVE  InvocationOK(r)'
    BY <1>u, SameRunner, InvocationUntouched
  <1>1. ASSUME NEW t \in EventTypes, Replied(q, t)
        PROVE  InvocationOK(r)'
    <2>1. /\ UNCHANGED runnerVars /\ sink' = sink /\ tx' = tx /\ drain' = drain
          /\ taken' = taken /\ inv' = [inv EXCEPT ![q] = "over"] /\ Posts(q, t)
      BY <1>1, ReplyEffects DEF Replied
    <2> QED
      BY <1>t, <1>k, <1>p, <1>u, <2>1
  <1>2. CASE Answered(q)
    <2>1. PICK t \in Terminal : Replied(q, t)
      BY <1>2 DEF Answered
    <2> QED
      BY <1>1, <2>1, TerminalIsEvent
  <1>3. CASE PostTerminal(q)
    <2>1. PICK t \in {"final", "agent_error"} : Replied(q, t)
      BY <1>3 DEF PostTerminal, Replied
    <2> QED
      BY <1>1, <1>e, <2>1
  <1>4. ASSUME NEW x, Entered(q, x)
        PROVE  InvocationOK(r)'
    <2>1. /\ UNCHANGED <<runnerVars, sink, tx, drain, taken, wire>>
          /\ inv' = [inv EXCEPT ![q] = x]
      BY <1>4 DEF Entered
    <2> QED
      BY <1>t, <1>k, <1>u, <2>1, SameWire
  <1>5. CASE PersistRow(q) \/ DrainEnds(q) \/ DropSender(q)
    <2>1. /\ UNCHANGED <<runnerVars, sink, taken, wire>>
          /\ inv'[r] = inv[r] /\ tx'[r] = tx[r] /\ drain'[r] = drain[r]
      BY <1>t, <1>k, <1>5 DEF PersistRow, DrainEnds, DropSender
    <2> QED
      BY <1>u, <2>1, SameWire
  <1>6. CASE q \in Turns /\ Forward(q)
    <2>1. /\ UNCHANGED <<runnerVars, sink, inv, tx>>
          /\ taken'[r] = taken[r] /\ drain'[r] = drain[r]
      BY <1>t, <1>6 DEF Forward
    <2>2. Posts(q, "stream")
      BY <1>6 DEF Forward, PostOk, PostGone, PostErr, Posts
    <2> QED
      BY <1>e, <1>p, <1>u, <2>1, <2>2
  <1>7. CASE q \in Turns /\ Ack(q)
    <2>1. /\ UNCHANGED <<sink, taken>>
          /\ inv'[r] = inv[r] /\ tx'[r] = tx[r] /\ drain'[r] = drain[r]
      BY <1>t, <1>k, <1>7 DEF Ack
    <2>2. Posts(q, "ack")
      BY <1>7 DEF Ack, PostOk, PostGone, PostErr, Posts
    <2>3. \A types : At(r, types)' = At(r, types)
      BY <1>e, <1>p, <2>2
    <2>4. CASE StartTurn(q, names[q])
      <3>1. /\ step'[r] = step[r] /\ conv'[r] = conv[r] /\ log' = log
            /\ translator' = translator /\ emitted' = emitted /\ reply' = reply
        BY <1>t, <2>4 DEF StartTurn
      <3>2. \A d : Stored(r, d)' = Stored(r, d)
        BY <3>1, SameStores
      <3> QED
        BY <2>1, <2>3, <3>1, <3>2, InvocationUntouched
    <2> QED
      BY <1>u, <1>7, <2>1, <2>3, <2>4 DEF Ack
  <1>8. CASE q \in Turns /\ TurnStep(q)
    <2>1. RunnerStep(q) /\ UNCHANGED <<inv, tx, drain, taken, wire>>
      BY <1>8 DEF TurnStep, lambdaVars
    <2>2. /\ step'[r] = step[r] /\ translator'[r] = translator[r] /\ reply'[r] = reply[r]
          /\ emitted'[r] = emitted[r]
          /\ \A d \in {"inbound", "outbound"} : Stored(r, d)' = Stored(r, d)
      BY <1>t, <1>8, <2>1, OthersUntouched
    <2>3. sink' = sink \/ Send(SinkOf[q], Frame(q, "stream"))
      BY <1>t, <1>8, <2>1, RunnerEffects
    <2>4. sink'[r] = sink[r]
      BY <1>t, <1>8, <2>3, InvocationKinds DEF Send
    <2> QED
      BY <2>1, <2>2, <2>4, SameWire, InvocationUntouched
  <1>9. CASE Die(q)
    <2>1. /\ UNCHANGED <<conv, log, emitted, reply, sink, taken, wire>>
          /\ inv'[r] = inv[r] /\ step'[r] = step[r] /\ translator'[r] = translator[r]
          /\ tx'[r] = tx[r] /\ drain'[r] = drain[r]
      BY <1>t, <1>k, <1>9 DEF Die
    <2>2. \A d : Stored(r, d)' = Stored(r, d)
      BY <2>1, SameStores
    <2> QED
      BY <2>1, <2>2, SameWire, InvocationUntouched
  <1>10. CASE \E x : Entered(q, x)
    BY <1>4, <1>10
  <1>11. CASE q \in Turns /\ \/ Ack(q) \/ Forward(q) \/ DrainEnds(q) \/ DropSender(q)
                             \/ PostTerminal(q) \/ TurnStep(q)
    BY <1>3, <1>5, <1>6, <1>7, <1>8, <1>11
  <1> QED
    BY <1>2, <1>5, <1>9, <1>10, <1>11

\* A step of the invocation itself, up to its last post.
LEMMA OwnInvocation ==
    ASSUME LambdaInv, NEW r \in Turns, InvocationOK(r),
           \/ Entered(r, "ack") \/ Ack(r) \/ Forward(r) \/ DrainEnds(r) \/ DropSender(r)
           \/ TurnStep(r) \/ Die(r)
    PROVE  InvocationOK(r)'
  <1>t. /\ TypeOK /\ RunnerTypeOK /\ wire \in [Clients -> Seq(FrameType)]
        /\ inv \in [Requests -> Rows \cup {"new", "created", "ack", "turn", "drain", "over"}]
        /\ drain \in [Turns -> {"none", "open", "gone", "ended"}]
        /\ tx \in [Turns -> BOOLEAN] /\ taken \in [Turns -> Nat]
        /\ sink \in [Turns -> Seq([req : Turns, type : {"stream"}])]
        /\ step \in [Turns -> Steps] /\ translator \in [Turns -> BOOLEAN]
    BY LambdaTypes DEF LambdaInv
  <1>k. r \in Requests
    BY InvocationKinds
  <1>o. OwnEvents(r) /\ Stage(r) /\ Drained(r) /\ Ended(r) /\ Complete(r)
    BY DEF InvocationOK
  <1>e. {"ack", "stream"} \subseteq EventTypes \ Terminal
    BY DEF EventTypes, Terminal, Errors
  <1>n. ASSUME inv[r] # "over"
        PROVE  At(r, Terminal) = {} /\ At(r, {"final"}) = {}
    <2>1. At(r, Terminal) = {}
      BY <1>n, <1>o DEF Ended
    <2>2. At(r, {"final"}) \subseteq At(r, Terminal)
      BY AtMonotone, TerminalIsEvent
    <2> QED
      BY <2>1, <2>2
  <1>s. ASSUME sink' = sink
        PROVE  OwnEvents(r)'
    BY <1>s, <1>o DEF OwnEvents, Frame
  <1>q. ASSUME inv[r] # "over", NEW t \in {"ack", "stream"}, Posts(r, t)
        PROVE  Ended(r)' /\ Complete(r)'
    <2>1. \A types : At(r, types)' = At(r, types) \/ t \in types
      BY <1>t, <1>k, <1>e, <1>q, PostAt
    <2>2. At(r, Terminal)' = {} /\ At(r, {"final"})' = {}
      BY <1>e, <1>n, <1>q, <2>1
    <2> QED
      BY <2>2 DEF Ended, Complete
  <1>w. ASSUME inv[r] # "over", wire' = wire
        PROVE  Ended(r)' /\ Complete(r)'
    <2>1. At(r, Terminal)' = {} /\ At(r, {"final"})' = {}
      BY <1>n, <1>w, SameWire
    <2> QED
      BY <2>1 DEF Ended, Complete
  <1>1. CASE Entered(r, "ack")
    <2>1. /\ UNCHANGED <<runnerVars, sink, tx, drain, taken, wire>> /\ inv[r] = "new"
          /\ inv'[r] = "ack"
      BY <1>t, <1>k, <1>1 DEF Entered
    <2>2. step' = step /\ translator' = translator
      BY <2>1 DEF runnerVars
    <2>3. At(r, EventTypes)' = At(r, EventTypes)
      BY <2>1, SameWire
    <2>4. Stage(r)' /\ Drained(r)'
      BY <1>o, <2>1, <2>2, <2>3 DEF Stage, Drained
    <2> QED
      BY <1>s, <1>w, <2>1, <2>4 DEF InvocationOK
  <1>2. CASE Ack(r)
    <2>1. inv[r] = "ack" /\ sink' = sink /\ taken' = taken /\ Posts(r, "ack")
      BY <1>2 DEF Ack, PostOk, PostGone, PostErr, Posts
    <2>2. drain[r] = "none" /\ step[r] = "idle"
      BY <1>o, <2>1 DEF Stage, Drained
    <2>3. Stage(r)' /\ Drained(r)'
      <3>1. CASE StartTurn(r, names[r]) /\ inv' = [inv EXCEPT ![r] = "turn"] /\
                 tx' = [tx EXCEPT ![r] = TRUE] /\ drain' = [drain EXCEPT ![r] = "open"]
        <4>1. inv'[r] = "turn" /\ tx'[r] /\ drain'[r] = "open" /\ step'[r] = "load"
          BY <1>t, <1>k, <3>1 DEF StartTurn
        <4> QED
          BY <4>1 DEF Stage, Drained
      <3>2. CASE inv' = [inv EXCEPT ![r] = "over"] /\ UNCHANGED <<runnerVars, tx, drain>>
        <4>1. inv'[r] = "over" /\ drain' = drain /\ step' = step
          BY <1>t, <1>k, <3>2 DEF runnerVars
        <4> QED
          BY <2>2, <4>1 DEF Stage, Drained
      <3> QED
        BY <1>2, <3>1, <3>2 DEF Ack
    <2> QED
      BY <1>s, <1>q, <2>1, <2>3 DEF InvocationOK
  <1>3. CASE Forward(r)
    <2>1. /\ UNCHANGED <<runnerVars, sink, inv, tx>> /\ Posts(r, "stream")
          /\ drain[r] \in {"open", "gone"} /\ drain'[r] \in {"open", "gone"}
      BY <1>t, <1>3 DEF Forward, PostOk, PostGone, PostErr, Posts
    <2>2. step' = step
      BY <2>1 DEF runnerVars
    <2>3. inv[r] \in {"turn", "drain"}
      BY <1>o, <2>1 DEF Stage
    <2>4. Stage(r)' /\ Drained(r)'
      BY <1>o, <2>1, <2>2, <2>3 DEF Stage, Drained
    <2> QED
      BY <1>s, <1>q, <2>1, <2>3, <2>4 DEF InvocationOK
  <1>4. CASE DrainEnds(r)
    <2>1. /\ UNCHANGED <<runnerVars, sink, inv, tx, taken, wire>>
          /\ drain[r] \in {"open", "gone"} /\ drain'[r] = "ended"
          /\ taken[r] = Len(sink[r]) /\ ~tx[r] /\ ~translator[r]
      BY <1>t, <1>4 DEF DrainEnds
    <2>2. step' = step /\ translator' = translator
      BY <2>1 DEF runnerVars
    <2>3. inv[r] = "drain"
      BY <1>o, <2>1 DEF Stage
    <2>4. Stage(r)' /\ Drained(r)'
      BY <1>o, <2>1, <2>2, <2>3 DEF Stage, Drained
    <2> QED
      BY <1>s, <1>w, <2>1, <2>3, <2>4 DEF InvocationOK
  <1>5. CASE DropSender(r)
    <2>1. /\ UNCHANGED <<runnerVars, sink, drain, taken, wire>>
          /\ inv[r] = "turn" /\ inv'[r] = "drain" /\ ~tx'[r] /\ step[r] \in {"ok", "err"}
      BY <1>t, <1>k, <1>5 DEF DropSender
    <2>2. step' = step /\ translator' = translator
      BY <2>1 DEF runnerVars
    <2>3. Stage(r)' /\ Drained(r)'
      BY <1>o, <2>1, <2>2 DEF Stage, Drained
    <2> QED
      BY <1>s, <1>w, <2>1, <2>3 DEF InvocationOK
  <1>6. CASE TurnStep(r)
    <2>1. RunnerStep(r) /\ UNCHANGED <<inv, tx, drain, taken, wire>>
      BY <1>6 DEF TurnStep, lambdaVars
    <2>2. inv[r] \in {"turn", "drain"} /\ drain[r] \in {"open", "gone"}
      BY <2>1, TurnsRunInInvocations
    <2>3. \/ step'[r] = step[r]
          \/ /\ step[r] \in {"load", "inbound", "run", "join", "outbound"}
             /\ step'[r] \in {"inbound", "run", "join", "outbound", "ok", "err"}
      BY <1>t, <2>1, RunnerEffects
    <2>4. Stage(r)' /\ Drained(r)'
      BY <1>o, <2>1, <2>2, <2>3 DEF Stage, Drained
    <2>5. OwnEvents(r)'
      <3>1. CASE sink' = sink
        BY <1>s, <3>1
      <3>2. CASE Send(SinkOf[r], Frame(r, "stream"))
        <4>1. sink' = [sink EXCEPT ![r] = Append(@, Frame(r, "stream"))]
          BY <3>2, InvocationKinds DEF Send
        <4>2. sink[r] \in Seq([req : Turns, type : {"stream"}])
          BY <1>t
        <4>3. sink'[r] = Append(sink[r], Frame(r, "stream"))
          BY <1>t, <4>1
        <4>4. /\ Len(sink'[r]) = Len(sink[r]) + 1 /\ Len(sink[r]) \in Nat
              /\ sink'[r][Len(sink[r]) + 1] = Frame(r, "stream")
              /\ \A i \in 1..Len(sink[r]) : sink'[r][i] = sink[r][i]
          BY <4>2, <4>3
        <4>5. \A i \in 1..Len(sink'[r]) : i \in 1..Len(sink[r]) \/ i = Len(sink[r]) + 1
          BY <4>4
        <4>6. \A i \in 1..Len(sink'[r]) : sink'[r][i] = Frame(r, "stream")
          BY <1>o, <4>4, <4>5 DEF OwnEvents
        <4> QED
          BY <4>6 DEF OwnEvents, Frame
      <3> QED
        BY <1>t, <2>1, <3>1, <3>2, RunnerEffects
    <2> QED
      BY <1>w, <2>1, <2>2, <2>4, <2>5 DEF InvocationOK
  <1>7. CASE Die(r)
    <2>1. /\ UNCHANGED <<sink, taken, wire>> /\ inv[r] # "over" /\ inv'[r] = "over"
          /\ step'[r] = "over" /\ ~translator'[r] /\ drain'[r] = "ended"
      BY <1>t, <1>k, <1>7 DEF Die
    <2>2. Stage(r)' /\ Drained(r)'
      BY <2>1 DEF Stage, Drained
    <2> QED
      BY <1>s, <1>w, <2>1, <2>2 DEF InvocationOK
  <1> QED
    BY <1>1, <1>2, <1>3, <1>4, <1>5, <1>6, <1>7

\* The invocation's last post: an early answer, or the end of its turn, whose
\* every event has been taken from the channel by then.
LEMMA LastInvocation ==
    ASSUME LambdaInv, NEW r \in Turns, InvocationOK(r), Answered(r) \/ PostTerminal(r)
    PROVE  InvocationOK(r)'
  <1>o. OwnEvents(r) /\ Stage(r) /\ Drained(r) /\ TypeOK /\ TurnInv(r)
    BY DEF InvocationOK, LambdaInv, RunnerInv
  <1>1. CASE Answered(r)
    <2>1. PICK t \in Terminal \ {"final", "agent_error"} : Replied(r, t) /\ inv[r] = "new"
      BY <1>1 DEF Answered
    <2>2. drain[r] = "none" /\ step[r] = "idle"
      BY <1>o, <2>1 DEF Stage, Drained
    <2> QED
      BY <1>o, <2>1, <2>2, LastPost
  <1>2. CASE PostTerminal(r)
    <2>1. /\ inv[r] = "drain" /\ drain[r] = "ended"
          /\ Replied(r, IF step[r] = "ok" THEN "final" ELSE "agent_error")
      BY <1>2 DEF PostTerminal, Replied
    <2>2. step[r] \in {"ok", "err"} /\ taken[r] = Len(sink[r])
      BY <1>o, <2>1 DEF Stage, Drained
    <2>3. CASE step[r] = "ok"
      <3>1. Len(sink[r]) \in Nat /\ SinkOf[r] = r
        BY <1>o, LambdaTypes, InvocationKinds
      <3>2. Streamed(r) = 1..Len(sink[r])
        BY <1>o, <3>1 DEF Streamed, OwnEvents
      <3>3. Cardinality(1..Len(sink[r])) = Len(sink[r])
        <4>1. \A n \in Nat : Cardinality(1..n) = n
          BY FS_Interval
        <4> QED
          BY <3>1, <4>1
      <3>4. Cardinality(Streamed(r)) = emitted[r]
        BY <1>o, <2>3 DEF TurnInv, NothingLost
      <3>5. taken[r] = emitted[r]
        BY <2>2, <3>2, <3>3, <3>4
      <3>6. \E q \in Stored(r, "inbound") :
              reply[r] = "text" => \E a \in Stored(r, "outbound") : q < a
        BY <1>o, <2>3 DEF TurnInv, Persisted
      <3>7. Replied(r, "final") /\ "final" \in Terminal
        BY <2>1, <2>3, TerminalIsEvent
      <3> QED
        BY <1>o, <2>1, <2>3, <3>5, <3>6, <3>7, LastPost
    <2>4. CASE step[r] = "err"
      <3>1. Replied(r, "agent_error") /\ "agent_error" \in Terminal /\ "agent_error" # "final"
        BY <2>1, <2>4 DEF Terminal, Errors
      <3> QED
        BY <1>o, <2>1, <2>4, <3>1, LastPost
    <2> QED
      BY <2>2, <2>3, <2>4
  <1> QED
    BY <1>1, <1>2

-----------------------------------------------------------------------------
(* Sessions *)

\* The rows stored at each step of a create invocation, value by value.
LEMMA RowsAtSteps ==
    /\ RowsAt["conversation"] = {}
    /\ RowsAt["session"] \cup {"session"} = Rows
    /\ \A x \in Rows : NextCreate[x] \in Rows =>
                          /\ x # "session"
                          /\ RowsAt[NextCreate[x]] \subseteq RowsAt[x] \cup {x}
  BY DEF RowsAt, Rows, NextCreate

\* Every step keeps the session row the last one of its session.
LEMMA NextCreates ==
    ASSUME LambdaInv, [Next]_vars, NEW s \in Creates
    PROVE  CreateOK(s)'
  <1>t. /\ inv \in [Requests -> Rows \cup {"new", "created", "ack", "turn", "drain", "over"}]
        /\ rows \in [Creates -> SUBSET Rows]
    BY LambdaTypes DEF LambdaInv
  <1>k. s \in Requests /\ s \notin Turns
    BY InvocationKinds
  <1>o. CreateOK(s)
    BY DEF LambdaInv
  <1>u. ASSUME rows' = rows, inv'[s] = inv[s] \/ inv'[s] \notin Rows \/ inv'[s] = "conversation"
        PROVE  CreateOK(s)'
    BY <1>u, <1>o, RowsAtSteps DEF CreateOK
  <1>1. ASSUME NEW c \in Clients, Connect(c) \/ Disconnect(c)
        PROVE  CreateOK(s)'
    BY <1>u, <1>1 DEF Connect, Disconnect
  <1>2. ASSUME NEW q \in Requests, Answered(q) \/ Die(q)
        PROVE  CreateOK(s)'
    <2>1. rows' = rows /\ inv' = [inv EXCEPT ![q] = "over"]
      BY <1>2, ReplyEffects DEF Answered, Replied, Die
    <2>2. inv'[s] = inv[s] \/ inv'[s] \notin Rows
      BY <1>t, <1>k, <2>1 DEF Rows
    <2> QED
      BY <1>u, <2>1, <2>2
  <1>3. ASSUME NEW q \in Creates, Entered(q, "conversation")
        PROVE  CreateOK(s)'
    <2>1. rows' = rows /\ inv' = [inv EXCEPT ![q] = "conversation"]
      BY <1>3 DEF Entered
    <2>2. inv'[s] = inv[s] \/ inv'[s] = "conversation"
      BY <1>t, <1>k, <2>1
    <2> QED
      BY <1>u, <2>1, <2>2
  <1>4. ASSUME NEW q \in Creates, PersistRow(q)
        PROVE  CreateOK(s)'
    <2>1. /\ inv[q] \in Rows /\ rows' = [rows EXCEPT ![q] = @ \cup {inv[q]}]
          /\ inv' = [inv EXCEPT ![q] = NextCreate[inv[q]]] /\ q \in Requests
      BY <1>4, InvocationKinds DEF PersistRow
    <2>2. CASE s # q
      <3>1. rows'[s] = rows[s] /\ inv'[s] = inv[s]
        BY <1>t, <1>k, <2>1, <2>2
      <3> QED
        BY <1>o, <3>1 DEF CreateOK
    <2>3. CASE s = q
      <3>1. rows'[s] = rows[s] \cup {inv[s]} /\ inv'[s] = NextCreate[inv[s]] /\ inv[s] \in Rows
        BY <1>t, <1>k, <2>1, <2>3
      <3>2. RowsAt[inv[s]] \subseteq rows[s] /\ rows[s] \subseteq Rows
        BY <1>t, <1>o, <3>1 DEF CreateOK
      <3>3. inv'[s] \in Rows => RowsAt[inv'[s]] \subseteq rows'[s]
        <4>1. inv'[s] \in Rows => RowsAt[inv'[s]] \subseteq RowsAt[inv[s]] \cup {inv[s]}
          <5>1. \A x \in Rows : NextCreate[x] \in Rows =>
                                 RowsAt[NextCreate[x]] \subseteq RowsAt[x] \cup {x}
            BY RowsAtSteps
          <5> QED
            BY <3>1, <5>1, Zenon
        <4> QED
          BY <3>1, <3>2, <4>1
      <3>4. "session" \in rows'[s] => rows'[s] = Rows
        <4>1. CASE inv[s] = "session"
          BY <3>1, <3>2, <4>1, RowsAtSteps
        <4>2. CASE inv[s] # "session"
          BY <1>o, <3>1, <3>2, <4>2 DEF CreateOK
        <4> QED
          BY <4>1, <4>2
      <3> QED
        BY <3>3, <3>4 DEF CreateOK
    <2> QED
      BY <2>2, <2>3
  <1>5. ASSUME NEW q \in Turns, \/ Entered(q, "ack") \/ Ack(q) \/ TurnStep(q) \/ Forward(q)
                                \/ DrainEnds(q) \/ DropSender(q) \/ PostTerminal(q)
        PROVE  CreateOK(s)'
    <2>1. rows' = rows
      BY <1>5 DEF Entered, Ack, TurnStep, Forward, DrainEnds, DropSender, PostTerminal, lambdaVars
    <2>2. inv'[s] = inv[s]
      BY <1>t, <1>k, <1>5
         DEF Entered, Ack, TurnStep, Forward, DrainEnds, DropSender, PostTerminal, Reply, lambdaVars
    <2> QED
      BY <1>u, <2>1, <2>2
  <1>6. CASE UNCHANGED vars
    BY <1>u, <1>6 DEF vars, lambdaVars
  <1> QED
    BY <1>1, <1>2, <1>3, <1>4, <1>5, <1>6, StepKinds

-----------------------------------------------------------------------------
(* Theorems *)

\* Every step keeps each invocation's invariant.
LEMMA NextInvocation ==
    ASSUME LambdaInv, [Next]_vars, NEW r \in Turns
    PROVE  InvocationOK(r)'
  <1>o. InvocationOK(r) /\ \A q \in Turns \cup Creates : q \in Requests
    BY InvocationKinds DEF LambdaInv
  <1>1. ASSUME NEW c \in Clients, Connect(c) \/ Disconnect(c)
        PROVE  InvocationOK(r)'
    <2>1. UNCHANGED <<runnerVars, sink, inv, tx, drain, taken, wire>>
      BY <1>1 DEF Connect, Disconnect
    <2> QED
      BY <1>o, <2>1, SameWire, SameRunner, InvocationUntouched
  <1>2. ASSUME NEW q \in Requests, Answered(q) \/ Die(q)
        PROVE  InvocationOK(r)'
    BY <1>o, <1>2, OtherInvocations, LastInvocation, OwnInvocation
  <1>3. ASSUME NEW q \in Creates, Entered(q, "conversation") \/ PersistRow(q)
        PROVE  InvocationOK(r)'
    BY <1>o, <1>3, OtherInvocations, InvocationKinds
  <1>4. ASSUME NEW q \in Turns, \/ Entered(q, "ack") \/ Ack(q) \/ TurnStep(q) \/ Forward(q)
                                \/ DrainEnds(q) \/ DropSender(q)
        PROVE  InvocationOK(r)'
    BY <1>o, <1>4, OtherInvocations, OwnInvocation
  <1>5. ASSUME NEW q \in Turns, PostTerminal(q)
        PROVE  InvocationOK(r)'
    BY <1>o, <1>5, OtherInvocations, LastInvocation
  <1>6. CASE UNCHANGED vars
    <2>1. UNCHANGED <<runnerVars, sink, inv, tx, drain, taken, wire>>
      BY <1>6 DEF vars, lambdaVars
    <2> QED
      BY <1>o, <2>1, SameWire, SameRunner, InvocationUntouched
  <1> QED
    BY <1>1, <1>2, <1>3, <1>4, <1>5, <1>6, StepKinds

\* The invariant holds at the start.
LEMMA InitLambda ==
    ASSUME Init
    PROVE  LambdaInv
  <1>1. TypeOK
    BY InitType
  <1>2. \A k \in Sinks : sink[k] = <<>>
    BY LambdaAssumption DEF Init
  <1>3. RunnerInv
    BY <1>2, RunnerStartsWell DEF Init
  <1>4. \A r \in Requests : \A types : At(r, types) = {}
    BY InvocationKinds DEF Init, At
  <1>5. \A r \in Turns : /\ step[r] = "idle" /\ inv[r] = "new" /\ drain[r] = "none"
                          /\ sink[r] = <<>>
    BY InvocationKinds DEF Init, RunnerInit
  <1>6. \A s \in Creates : inv[s] = "new" /\ rows[s] = {}
    BY InvocationKinds DEF Init
  <1>7. \A r \in Turns : InvocationOK(r)
    BY <1>4, <1>5, InvocationKinds DEF InvocationOK, OwnEvents, Stage, Drained, Ended, Complete
  <1>8. \A s \in Creates : CreateOK(s)
    BY <1>6 DEF CreateOK, Rows
  <1> QED
    BY <1>1, <1>3, <1>7, <1>8 DEF LambdaInv

\* The handler's invariant: however invocations overlap, fail to post and are
\* killed, sender, translator, drain and the last post stay in order.
THEOREM LambdaInvHolds == Spec => []LambdaInv
  <1>1. Init => LambdaInv
    BY InitLambda
  <1>2. LambdaInv /\ [Next]_vars => LambdaInv'
    <2> SUFFICES ASSUME LambdaInv, [Next]_vars
                 PROVE  LambdaInv'
      OBVIOUS
    <2>1. TypeOK'
      BY NextType DEF LambdaInv
    <2>2. RunnerInv' /\ (\A r \in Turns : InvocationOK(r)') /\ \A s \in Creates : CreateOK(s)'
      BY NextRunner, NextInvocation, NextCreates
    <2> QED
      BY <2>1, <2>2 DEF LambdaInv
  <1> QED
    BY <1>1, <1>2, PTL DEF Spec

\* For any number of concurrent invocations, a turn's terminal event is posted
\* once and after all its other events.
THEOREM TerminalsAreLast == Spec => []TerminalIsLast
  <1>1. LambdaInv => TerminalIsLast
    BY DEF LambdaInv, InvocationOK, Ended, TerminalIsLast
  <1> QED
    BY <1>1, LambdaInvHolds, PTL

\* For any number of concurrent or killed invocations, eventual_response is
\* posted when the turn is stored and all its events were handed on, and a
\* session that a turn can find has all its rows.
THEOREM FinalsAreComplete == Spec => []FinalIsComplete
  <1>1. LambdaInv => FinalIsComplete
    BY DEF LambdaInv, InvocationOK, Complete, CreateOK, FinalIsComplete
  <1> QED
    BY <1>1, LambdaInvHolds, PTL
=============================================================================
