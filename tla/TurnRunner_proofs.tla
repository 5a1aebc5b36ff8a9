-------------------------- MODULE TurnRunner_proofs --------------------------
(***************************************************************************)
(* What the turn runner keeps, whoever calls it: lemmas for the server and *)
(* the Lambda handler, for any number of turns, conversations and events.  *)
(***************************************************************************)
EXTENDS TurnRunner, FiniteSetTheorems, TLAPS

-----------------------------------------------------------------------------
(* The inductive invariant of a turn *)

\* The events of a channel that the translator will re-emit.
Shown(q) == {i \in 1..Len(q) : q[i] = "shown"}

\* Where in its sink the re-emitted events of turn r sit.
Streamed(r) ==
    {i \in 1..Len(sink[SinkOf[r]]) : sink[SinkOf[r]][i] = Frame(r, "stream")}

\* Nothing of the turn has gone out before the engine runs.
QuietBeforeRun(r) ==
    step[r] \in {"idle", "load", "inbound"} =>
        ~translator[r] /\ emitted[r] = 0 /\ Streamed(r) = {}

\* What the engine emitted is in the sink or still in the channel, and once the
\* translator has been joined it is all in the sink.
NothingLost(r) ==
    /\ ~translator[r] => rx[r] = <<>>
    /\ step[r] = "run" => translator[r]
    /\ step[r] \in {"run", "join"} =>
         Cardinality(Streamed(r)) + Cardinality(Shown(rx[r])) = emitted[r]
    /\ step[r] \in {"outbound", "ok"} =>
         ~translator[r] /\ Cardinality(Streamed(r)) = emitted[r]

\* The question is persisted before the engine runs, the reply after it.
Persisted(r) ==
    /\ step[r] \in {"run", "join", "outbound", "ok"} => Stored(r, "inbound") # {}
    /\ step[r] = "ok" /\ reply[r] = "text" =>
         \E q \in Stored(r, "inbound") : \E a \in Stored(r, "outbound") : q < a

TurnInv(r) == QuietBeforeRun(r) /\ NothingLost(r) /\ Persisted(r)

\* The steps at which a turn cannot have stored its message of direction d yet.
Before(d) == IF d = "inbound" THEN {"idle", "load", "inbound"}
             ELSE {"idle", "load", "inbound", "run", "join", "outbound"}

\* A message is in the logs at most once, and not before its turn stores it.
LoggedOnce ==
    \A k \in Conversations :
        /\ \A i \in 1..Len(log[k]) : step[log[k][i].turn] \notin Before(log[k][i].direction)
        /\ \A i, j \in 1..Len(log[k]) : log[k][i] = log[k][j] => i = j

RunnerInv == LoggedOnce /\ \A r \in Turns : TurnInv(r)

-----------------------------------------------------------------------------
(* Sequences and sinks *)

\* The positions of a channel and of a sink are finitely many.
LEMMA PositionsAreFinite ==
    ASSUME NEW n \in Nat, NEW A \in SUBSET (1..n)
    PROVE  IsFiniteSet(A) /\ Cardinality(A) \in Nat
  <1>1. IsFiniteSet(1..n)
    BY FS_Interval
  <1>2. IsFiniteSet(A)
    BY <1>1, FS_Subset
  <1> QED
    BY <1>2, FS_CardinalityType

\* An event pushed into the channel adds itself to the shown ones, or not.
LEMMA ShownAppend ==
    ASSUME NEW q \in Seq(AgentEvent), NEW e \in AgentEvent
    PROVE  Cardinality(Shown(Append(q, e))) =
             Cardinality(Shown(q)) + (IF e = "shown" THEN 1 ELSE 0)
  <1>1. Len(q) \in Nat /\ Len(Append(q, e)) = Len(q) + 1
    OBVIOUS
  <1>2. /\ \A i \in 1..Len(q) : Append(q, e)[i] = q[i]
        /\ Append(q, e)[Len(q) + 1] = e
    OBVIOUS
  <1>3. IsFiniteSet(Shown(q)) /\ Cardinality(Shown(q)) \in Nat
    BY <1>1, PositionsAreFinite DEF Shown
  <1>4. CASE e = "shown"
    <2>1. Shown(Append(q, e)) = Shown(q) \cup {Len(q) + 1}
      BY <1>1, <1>2, <1>4 DEF Shown
    <2>2. Len(q) + 1 \notin Shown(q)
      BY <1>1 DEF Shown
    <2> QED
      BY <1>3, <1>4, <2>1, <2>2, FS_AddElement
  <1>5. CASE e # "shown"
    <2>1. Shown(Append(q, e)) = Shown(q)
      BY <1>1, <1>2, <1>5 DEF Shown
    <2> QED
      BY <1>3, <1>5, <2>1
  <1> QED
    BY <1>4, <1>5

\* Taking the head of the channel removes it from the shown ones, if it is one.
LEMMA ShownTail ==
    ASSUME NEW q \in Seq(AgentEvent), q # <<>>
    PROVE  Cardinality(Shown(q)) =
             Cardinality(Shown(Tail(q))) + (IF Head(q) = "shown" THEN 1 ELSE 0)
  <1> DEFINE T == Shown(Tail(q))
             U == Shown(q) \ {1}
             f == [i \in T |-> i + 1]
  <1>1. /\ Len(q) \in Nat \ {0} /\ Len(Tail(q)) = Len(q) - 1
        /\ Tail(q) \in Seq(AgentEvent) /\ Head(q) = q[1]
        /\ \A i \in 1..Len(Tail(q)) : Tail(q)[i] = q[i + 1]
    OBVIOUS
  <1>2. IsFiniteSet(T) /\ Cardinality(T) \in Nat
    <2>1. T \subseteq 1..Len(Tail(q)) /\ Len(Tail(q)) \in Nat
      BY <1>1 DEF Shown
    <2> HIDE DEF T
    <2> QED
      BY <2>1, PositionsAreFinite
  <1>3. IsFiniteSet(Shown(q)) /\ Cardinality(Shown(q)) \in Nat
    BY <1>1, PositionsAreFinite DEF Shown
  <1>4. f \in Bijection(T, U)
    <2>1. \A i \in T : i \in Nat /\ i + 1 \in U
      BY <1>1 DEF Shown
    <2>2. \A i \in U : i - 1 \in T /\ f[i - 1] = i
      BY <1>1 DEF Shown
    <2>3. f \in [T -> U]
      BY <2>1
    <2>4. \A i, j \in T : f[i] = f[j] => i = j
      BY <2>1
    <2>5. \A i \in U : \E j \in T : f[j] = i
      BY <2>2
    <2> HIDE DEF f, T, U
    <2> QED
      BY <2>3, <2>4, <2>5 DEF Bijection, Injection, Surjection, IsInjective
  <1>5. Cardinality(U) = Cardinality(T)
    BY <1>2, <1>4, FS_Bijection DEF ExistsBijection
  <1>6. 1 \in Shown(q) <=> Head(q) = "shown"
    BY <1>1 DEF Shown
  <1>7. Cardinality(U) = IF 1 \in Shown(q) THEN Cardinality(Shown(q)) - 1
                         ELSE Cardinality(Shown(q))
    BY <1>3, FS_RemoveElement
  <1> QED
    BY <1>2, <1>3, <1>5, <1>6, <1>7

\* An event sent for turn q streams for q, and only if it is a stream event.
LEMMA SendStreams ==
    ASSUME NEW S, sink \in [Sinks -> Seq(S)],
           NEW q, SinkOf[q] \in Sinks, NEW t, Frame(q, t) \in S,
           Send(SinkOf[q], Frame(q, t)), NEW r \in Turns
    PROVE  /\ sink' \in [Sinks -> Seq(S)]
           /\ Streamed(r)' = IF r = q /\ t = "stream"
                             THEN Streamed(r) \cup {Len(sink[SinkOf[r]]) + 1}
                             ELSE Streamed(r)
           /\ IsFiniteSet(Streamed(r)) /\ Cardinality(Streamed(r)) \in Nat
           /\ Len(sink[SinkOf[r]]) + 1 \notin Streamed(r)
  <1> DEFINE k == SinkOf[q]
             h == SinkOf[r]
             s == sink[k]
  <1>0. h \in Sinks /\ sink[h] \in Seq(S) /\ s \in Seq(S)
    BY TurnRunnerAssumption
  <1>1. sink' = [sink EXCEPT ![k] = Append(s, Frame(q, t))]
    BY DEF Send
  <1>2. Append(s, Frame(q, t)) \in Seq(S)
    BY <1>0
  <1>3. sink' \in [Sinks -> Seq(S)]
    BY <1>1, <1>2
  <1>4. Len(sink[h]) \in Nat /\ Len(s) \in Nat
    BY <1>0
  <1>5. Streamed(r) \subseteq 1..Len(sink[h])
    BY DEF Streamed
  <1>6. IsFiniteSet(Streamed(r)) /\ Cardinality(Streamed(r)) \in Nat
    BY <1>4, <1>5, PositionsAreFinite
  <1>7. Len(sink[h]) + 1 \notin Streamed(r)
    BY <1>4, <1>5
  <1>8. Streamed(r)' = {i \in 1..Len(sink'[h]) : sink'[h][i] = Frame(r, "stream")}
    BY DEF Streamed, Frame
  <1>9. CASE h # k
    <2>1. sink'[h] = sink[h] /\ r # q
      BY <1>0, <1>1, <1>9
    <2> QED
      BY <1>3, <1>6, <1>7, <1>8, <2>1 DEF Streamed
  <1>10. CASE h = k
    <2>1. sink'[h] = Append(s, Frame(q, t))
      BY <1>0, <1>1, <1>10
    <2>2. /\ Len(sink'[h]) = Len(s) + 1
          /\ sink'[h][Len(s) + 1] = Frame(q, t)
          /\ \A i \in 1..Len(s) : sink'[h][i] = s[i]
      BY <1>0, <2>1
    <2>3. Frame(q, t) = Frame(r, "stream") <=> (r = q /\ t = "stream")
      BY DEF Frame
    <2>4. \A i : i \in 1..(Len(s) + 1) <=> (i \in 1..Len(s) \/ i = Len(s) + 1)
      BY <1>4
    <2>5. Streamed(r)' = IF r = q /\ t = "stream"
                         THEN Streamed(r) \cup {Len(s) + 1} ELSE Streamed(r)
      BY <1>8, <1>10, <2>2, <2>3, <2>4 DEF Streamed
    <2> QED
      BY <1>3, <1>6, <1>7, <1>10, <2>5
  <1> QED
    BY <1>9, <1>10

\* A turn of which a step changes nothing keeps its invariant, though others
\* may have written to its conversation.
LEMMA TurnUntouched ==
    ASSUME NEW r \in Turns, TurnInv(r),
           step'[r] = step[r], translator'[r] = translator[r],
           emitted'[r] = emitted[r], rx'[r] = rx[r], reply'[r] = reply[r],
           Streamed(r)' = Streamed(r),
           \A d \in {"inbound", "outbound"} : Stored(r, d) \subseteq Stored(r, d)'
    PROVE  TurnInv(r)'
  <1>1. QuietBeforeRun(r)'
    BY DEF TurnInv, QuietBeforeRun
  <1>2. NothingLost(r)'
    <2>1. Shown(rx[r])' = Shown(rx[r])
      BY DEF Shown
    <2> QED
      BY <2>1 DEF TurnInv, NothingLost
  <1>3. Persisted(r)'
    BY DEF TurnInv, Persisted
  <1> QED
    BY <1>1, <1>2, <1>3 DEF TurnInv

\* A message appended to a conversation is found there, and hides no other.
LEMMA AppendStores ==
    ASSUME log \in [Conversations -> Seq(Message)], NEW k \in Conversations,
           NEW m \in Message, log' = [log EXCEPT ![k] = Append(@, m)],
           NEW r \in Turns, conv[r] \in Conversations, conv'[r] = conv[r],
           NEW d \in {"inbound", "outbound"}
    PROVE  /\ Stored(r, d) \subseteq Stored(r, d)'
           /\ conv[r] = k /\ m = [turn |-> r, direction |-> d] =>
                Len(log[k]) + 1 \in Stored(r, d)'
           /\ m # [turn |-> r, direction |-> d] => Stored(r, d)' = Stored(r, d)
           /\ Stored(r, d) \subseteq 1..Len(log[conv[r]])
           /\ Len(log[conv[r]]) \in Nat
  <1> DEFINE c == conv[r]
  <1>1. log[c] \in Seq(Message) /\ log[k] \in Seq(Message)
    OBVIOUS
  <1>2. Stored(r, d)' = {i \in 1..Len(log'[c]) : log'[c][i] = [turn |-> r, direction |-> d]}
    BY DEF Stored
  <1>3. CASE c # k
    <2>1. log'[c] = log[c]
      BY <1>3
    <2> QED
      BY <1>1, <1>2, <1>3, <2>1 DEF Stored
  <1>4. CASE c = k
    <2>1. log'[c] = Append(log[k], m)
      BY <1>4
    <2>2. /\ Len(log'[c]) = Len(log[k]) + 1 /\ Len(log[k]) \in Nat
          /\ log'[c][Len(log[k]) + 1] = m
          /\ \A i \in 1..Len(log[k]) : log'[c][i] = log[k][i]
      BY <1>1, <2>1
    <2> QED
      BY <1>2, <1>4, <2>2 DEF Stored
  <1> QED
    BY <1>3, <1>4

\* An unchanged log (of the turn's unchanged conversation) stores the same.
LEMMA SameStores ==
    ASSUME NEW r \in Turns, conv'[r] = conv[r], log'[conv[r]] = log[conv[r]], NEW d
    PROVE  Stored(r, d)' = Stored(r, d)
  BY DEF Stored

-----------------------------------------------------------------------------
(* Steps of the runner *)

\* The shape of a message, by its fields.
LEMMA MessageShape ==
    /\ \A r \in Turns : \A d \in {"inbound", "outbound"} :
         /\ [turn |-> r, direction |-> d] \in Message
         /\ [turn |-> r, direction |-> d].turn = r
         /\ [turn |-> r, direction |-> d].direction = d
    /\ \A m \in Message : m.turn \in Turns /\ m.direction \in {"inbound", "outbound"}
  BY DEF Message

\* What a step of the runner may do to what its callers rely on.
LEMMA RunnerEffects ==
    ASSUME RunnerTypeOK, NEW q \in Turns, RunnerStep(q)
    PROVE  /\ conv' = conv
           /\ \/ step' = step
              \/ /\ step[q] \in {"load", "inbound", "run", "join", "outbound"}
                 /\ \E v \in {"inbound", "run", "join", "outbound", "ok", "err"} :
                      step' = [step EXCEPT ![q] = v]
           /\ \/ sink' = sink
              \/ translator[q] /\ Send(SinkOf[q], Frame(q, "stream"))
           /\ \/ translator' = translator
              \/ translator' = [translator EXCEPT ![q] = FALSE]
              \/ step[q] = "inbound" /\ translator' = [translator EXCEPT ![q] = TRUE]
  <1>1. CASE LoadPrior(q)
    BY <1>1 DEF LoadPrior
  <1>2. CASE PersistInbound(q)
    BY <1>2 DEF PersistInbound
  <1>3. CASE PersistOutbound(q)
    BY <1>3 DEF PersistOutbound
  <1>4. CASE StorageFails(q)
    BY <1>4 DEF StorageFails
  <1>5. CASE \E event \in AgentEvent : EngineEmits(q, event)
    BY <1>5 DEF EngineEmits
  <1>6. CASE \E content \in {"empty", "text"} : EngineReturns(q, content)
    BY <1>6 DEF EngineReturns
  <1>7. CASE EngineFails(q)
    BY <1>7 DEF EngineFails
  <1>8. CASE JoinTranslator(q)
    BY <1>8 DEF JoinTranslator
  <1>9. CASE Translate(q)
    BY <1>9 DEF Translate
  <1>10. CASE TranslatorEnds(q)
    BY <1>10 DEF TranslatorEnds
  <1> QED
    BY <1>1, <1>2, <1>3, <1>4, <1>5, <1>6, <1>7, <1>8, <1>9, <1>10 DEF RunnerStep

\* The logs only grow: a message of the turn is appended at its step, or nothing.
LEMMA RunnerLogs ==
    ASSUME RunnerTypeOK, NEW q \in Turns, RunnerStep(q)
    PROVE  \/ log' = log
           \/ \E d \in {"inbound", "outbound"} :
                /\ log' = [log EXCEPT ![conv[q]] =
                             Append(@, [turn |-> q, direction |-> d])]
                /\ step[q] = d
                /\ step' = [step EXCEPT ![q] = IF d = "inbound" THEN "run" ELSE "ok"]
  <1>1. CASE PersistInbound(q)
    BY <1>1 DEF PersistInbound
  <1>2. CASE PersistOutbound(q)
    BY <1>2 DEF PersistOutbound
  <1>3. CASE ~(PersistInbound(q) \/ PersistOutbound(q))
    BY <1>3 DEF RunnerStep, LoadPrior, StorageFails, EngineEmits, EngineReturns,
               EngineFails, JoinTranslator, Translate, TranslatorEnds
  <1> QED
    BY <1>1, <1>2, <1>3

\* A page of a log is made of its first messages.
LEMMA PageOfMessages ==
    ASSUME NEW s \in Seq(Message), NEW n \in Nat
    PROVE  /\ FirstPage(s, n) \in Seq(Message)
           /\ Len(FirstPage(s, n)) = Smaller(Len(s), n)
           /\ \A i \in 1..Smaller(Len(s), n) : FirstPage(s, n)[i] = s[i]
  <1>1. Smaller(Len(s), n) \in 0..Len(s)
    BY DEF Smaller
  <1> QED
    BY <1>1 DEF FirstPage

\* What a listing sees of a log are messages of that log; if it sees all, in place.
LEMMA ViewsOfLog ==
    ASSUME NEW s \in Seq(Message), NEW seen \in Views(s)
    PROVE  /\ seen \in Seq(Message)
           /\ \A i \in 1..Len(seen) : \E j \in 1..Len(s) : seen[i] = s[j]
           /\ ConsistentReads => seen = s
  <1>1. CASE ConsistentReads
    BY <1>1 DEF Views
  <1>2. CASE ~ConsistentReads
    <2>p. PICK n \in 0..Len(s) :
            seen \in {[i \in 1..n |-> s[at[i]]] : at \in Picks(n, Len(s))}
      BY <1>2 DEF Views
    <2>1. PICK at \in [1..n -> 1..Len(s)] : seen = [i \in 1..n |-> s[at[i]]]
      BY <2>p DEF Picks
    <2>2. n \in Nat /\ \A i \in 1..n : at[i] \in 1..Len(s) /\ s[at[i]] \in Message
      BY <2>1
    <2>3. seen \in Seq(Message) /\ Len(seen) = n
      BY <2>1, <2>2
    <2> QED
      BY <1>2, <2>1, <2>2, <2>3
  <1> QED
    BY <1>1, <1>2

\* What a turn replays are messages of its conversation; if the listing sees all
\* of them, the first ones.
LEMMA LoadsPage ==
    ASSUME RunnerTypeOK, NEW q \in Turns, LoadPrior(q)
    PROVE  /\ \E page \in Seq(Message) : prior' = [prior EXCEPT ![q] = page]
           /\ \A i \in 1..Len(prior'[q]) :
                \E j \in 1..Len(log[conv[q]]) : prior'[q][i] = log[conv[q]][j]
           /\ ConsistentReads =>
                \A p \in 1..Len(log[conv[q]]) : p <= MaxPriorMessages =>
                  p \in 1..Len(prior'[q]) /\ prior'[q][p] = log[conv[q]][p]
  <1>t. /\ log[conv[q]] \in Seq(Message) /\ prior \in [Turns -> Seq(Message)]
        /\ MaxPriorMessages \in Nat
    BY TurnRunnerAssumption DEF RunnerTypeOK
  <1>1. PICK seen \in Views(log[conv[q]]) :
          prior' = [prior EXCEPT ![q] = FirstPage(seen, MaxPriorMessages)]
    BY DEF LoadPrior
  <1> DEFINE page == FirstPage(seen, MaxPriorMessages)
             n == Smaller(Len(seen), MaxPriorMessages)
  <1>2. seen \in Seq(Message) /\ prior'[q] = page
    BY <1>t, <1>1, ViewsOfLog
  <1>3. page \in Seq(Message) /\ Len(page) = n /\ \A i \in 1..n : page[i] = seen[i]
    BY <1>t, <1>2, PageOfMessages
  <1>4. n <= Len(seen) /\ \A p \in 1..Len(seen) : p <= MaxPriorMessages => p <= n
    BY <1>t, <1>2 DEF Smaller
  <1>5. \A i \in 1..n : \E j \in 1..Len(log[conv[q]]) : page[i] = log[conv[q]][j]
    <2>1. \A i \in 1..Len(seen) : \E j \in 1..Len(log[conv[q]]) : seen[i] = log[conv[q]][j]
      BY <1>t, <1>1, ViewsOfLog
    <2>2. Len(seen) \in Nat /\ n \in Nat
      BY <1>t, <1>2 DEF Smaller
    <2> SUFFICES ASSUME NEW i \in 1..n
                 PROVE  \E j \in 1..Len(log[conv[q]]) : page[i] = log[conv[q]][j]
      OBVIOUS
    <2>3. i \in 1..Len(seen)
      BY <1>4, <2>2
    <2> HIDE DEF page, n
    <2>4. page[i] = seen[i]
      BY <1>3
    <2> QED
      BY <2>1, <2>3, <2>4
  <1>6. ConsistentReads => seen = log[conv[q]]
    BY <1>t, <1>1, ViewsOfLog
  <1>7. ConsistentReads =>
          \A p \in 1..Len(log[conv[q]]) : p <= MaxPriorMessages =>
            p \in 1..Len(page) /\ page[p] = log[conv[q]][p]
    <2>1. n \in Nat /\ Len(seen) \in Nat
      BY <1>t, <1>2 DEF Smaller
    <2> HIDE DEF page, n
    <2> QED
      BY <1>3, <1>4, <1>6, <2>1
  <1> HIDE DEF page, n
  <1>8. page \in Seq(Message) /\ prior' = [prior EXCEPT ![q] = page]
    BY <1>1, <1>3 DEF page
  <1> QED
    BY <1>2, <1>3, <1>5, <1>7, <1>8

\* The runner's variables keep their shape in every step of a turn.
LEMMA RunnerTypeKept ==
    ASSUME RunnerTypeOK, NEW q \in Turns, RunnerStep(q)
    PROVE  RunnerTypeOK'
  <1>t. /\ step \in [Turns -> Steps] /\ conv \in [Turns -> Conversations]
        /\ prior \in [Turns -> Seq(Message)] /\ log \in [Conversations -> Seq(Message)]
        /\ emitted \in [Turns -> Nat] /\ rx \in [Turns -> Seq(AgentEvent)]
        /\ translator \in [Turns -> BOOLEAN]
        /\ reply \in [Turns -> {"none", "empty", "text"}]
    BY DEF RunnerTypeOK
  <1>1. step' \in [Turns -> Steps] /\ conv' \in [Turns -> Conversations]
    <2>1. /\ conv' = conv
          /\ \/ step' = step
             \/ \E v \in {"inbound", "run", "join", "outbound", "ok", "err"} :
                  step' = [step EXCEPT ![q] = v]
      BY RunnerEffects
    <2> QED
      BY <1>t, <2>1 DEF Steps
  <1>2. log' \in [Conversations -> Seq(Message)]
    <2>1. ASSUME NEW d \in {"inbound", "outbound"},
                 log' = [log EXCEPT ![conv[q]] = Append(@, [turn |-> q, direction |-> d])]
          PROVE  log' \in [Conversations -> Seq(Message)]
      <3>1. log[conv[q]] \in Seq(Message) /\ [turn |-> q, direction |-> d] \in Message
        BY <1>t, MessageShape
      <3>2. Append(log[conv[q]], [turn |-> q, direction |-> d]) \in Seq(Message)
        BY <3>1
      <3> QED
        BY <1>t, <2>1, <3>2
    <2> QED
      BY <1>t, <2>1, RunnerLogs
  <1>3. prior' \in [Turns -> Seq(Message)]
    <2>1. CASE LoadPrior(q)
      BY <1>t, <2>1, LoadsPage
    <2>2. CASE ~LoadPrior(q)
      BY <1>t, <2>2 DEF RunnerStep, PersistInbound, PersistOutbound, StorageFails,
         EngineEmits, EngineReturns, EngineFails, JoinTranslator, Translate, TranslatorEnds
    <2> QED
      BY <2>1, <2>2
  <1>4. /\ emitted' \in [Turns -> Nat] /\ rx' \in [Turns -> Seq(AgentEvent)]
        /\ reply' \in [Turns -> {"none", "empty", "text"}]
    <2>1. CASE \E event \in AgentEvent : EngineEmits(q, event)
      <3>1. PICK event \in AgentEvent : EngineEmits(q, event)
        BY <2>1
      <3>2. Append(rx[q], event) \in Seq(AgentEvent)
        BY <1>t
      <3> QED
        BY <1>t, <3>1, <3>2 DEF EngineEmits
    <2>2. CASE Translate(q)
      <3>1. Tail(rx[q]) \in Seq(AgentEvent)
        BY <1>t, <2>2 DEF Translate
      <3> QED
        BY <1>t, <2>2, <3>1 DEF Translate
    <2>3. CASE \E content \in {"empty", "text"} : EngineReturns(q, content)
      BY <1>t, <2>3 DEF EngineReturns
    <2>4. CASE \/ LoadPrior(q) \/ PersistInbound(q) \/ PersistOutbound(q) \/ StorageFails(q)
               \/ EngineFails(q) \/ JoinTranslator(q) \/ TranslatorEnds(q)
      BY <1>t, <2>4 DEF LoadPrior, PersistInbound, PersistOutbound, StorageFails,
         EngineFails, JoinTranslator, TranslatorEnds
    <2> QED
      BY <2>1, <2>2, <2>3, <2>4 DEF RunnerStep
  <1>5. translator' \in [Turns -> BOOLEAN]
    BY <1>t, RunnerEffects
  <1> QED
    BY <1>1, <1>2, <1>3, <1>4, <1>5 DEF RunnerTypeOK

\* A step of a turn stores no message twice, and none before its time.
LEMMA RunnerLogsOnce ==
    ASSUME RunnerTypeOK, LoggedOnce, NEW q \in Turns, RunnerStep(q)
    PROVE  LoggedOnce'
  <1>t. /\ step \in [Turns -> Steps] /\ conv \in [Turns -> Conversations]
        /\ log \in [Conversations -> Seq(Message)]
    BY DEF RunnerTypeOK
  <1>1. ASSUME NEW r \in Turns, NEW d \in {"inbound", "outbound"}, step[r] \notin Before(d)
        PROVE  step'[r] \notin Before(d)
    <2>1. step[r] \in Before("inbound") \/ step[r] \notin Before("inbound")
      OBVIOUS
    <2>2. CASE step' = step
      BY <1>1, <2>2
    <2>3. CASE step' # step
      BY <1>t, <1>1, <2>3 DEF Before, RunnerStep, LoadPrior, PersistInbound, PersistOutbound,
         StorageFails, EngineEmits, EngineReturns, EngineFails, JoinTranslator, Translate,
         TranslatorEnds
    <2> QED
      BY <2>2, <2>3
  <1>m. ASSUME NEW k \in Conversations, NEW i \in 1..Len(log[k])
        PROVE  step'[log[k][i].turn] \notin Before(log[k][i].direction)
    <2>1. log[k][i] \in Message
      BY <1>t
    <2>2. log[k][i].turn \in Turns /\ log[k][i].direction \in {"inbound", "outbound"}
      BY <2>1, MessageShape
    <2>3. step[log[k][i].turn] \notin Before(log[k][i].direction)
      BY DEF LoggedOnce
    <2> QED
      BY <1>1, <2>2, <2>3
  <1>2. CASE log' = log
    <2>1. \A k \in Conversations : \A i, j \in 1..Len(log[k]) : log[k][i] = log[k][j] => i = j
      BY DEF LoggedOnce
    <2> QED
      BY <1>2, <1>m, <2>1 DEF LoggedOnce, Before
  <1>3. ASSUME NEW d \in {"inbound", "outbound"},
               log' = [log EXCEPT ![conv[q]] = Append(@, [turn |-> q, direction |-> d])],
               step[q] = d,
               step' = [step EXCEPT ![q] = IF d = "inbound" THEN "run" ELSE "ok"]
        PROVE  LoggedOnce'
    <2> DEFINE m == [turn |-> q, direction |-> d]
               c == conv[q]
    <2>1. m \in Message /\ m.turn = q /\ m.direction = d
      BY MessageShape
    <2>2. step[q] \in Before(d) /\ step'[q] \notin Before(d)
      BY <1>t, <1>3 DEF Before
    <2>3. \A i \in 1..Len(log[c]) : log[c][i] # m
      BY <1>t, <2>1, <2>2 DEF LoggedOnce
    <2>4. SUFFICES ASSUME NEW k \in Conversations
          PROVE  /\ \A i \in 1..Len(log'[k]) :
                       step'[log'[k][i].turn] \notin Before(log'[k][i].direction)
                 /\ \A i, j \in 1..Len(log'[k]) : log'[k][i] = log'[k][j] => i = j
      BY DEF LoggedOnce, Before
    <2>5. CASE k # c
      <3>1. log'[k] = log[k] /\ log[k] \in Seq(Message)
        BY <1>t, <1>3, <2>5
      <3> QED
        BY <1>m, <3>1 DEF LoggedOnce
    <2>6. CASE k = c
      <3>1. log'[k] = Append(log[k], m) /\ log[k] \in Seq(Message)
        BY <1>t, <1>3, <2>6
      <3> HIDE DEF m
      <3>2. /\ Len(log'[k]) = Len(log[k]) + 1 /\ Len(log[k]) \in Nat
            /\ log'[k][Len(log[k]) + 1] = m
            /\ \A i \in 1..Len(log[k]) : log'[k][i] = log[k][i] /\ log[k][i] \in Message
        BY <2>1, <3>1
      <3>3. ASSUME NEW i \in 1..Len(log'[k])
            PROVE  step'[log'[k][i].turn] \notin Before(log'[k][i].direction)
        <4>1. CASE i = Len(log[k]) + 1
          BY <2>1, <2>2, <3>2, <4>1
        <4>2. CASE i \in 1..Len(log[k])
          BY <1>m, <3>2, <4>2
        <4> QED
          BY <3>2, <4>1, <4>2
      <3>4. ASSUME NEW i \in 1..Len(log'[k]), NEW j \in 1..Len(log'[k]),
                   log'[k][i] = log'[k][j]
            PROVE  i = j
        <4>1. i \in 1..Len(log[k]) \/ i = Len(log[k]) + 1
          BY <3>2
        <4>2. j \in 1..Len(log[k]) \/ j = Len(log[k]) + 1
          BY <3>2
        <4>3. \A x \in 1..Len(log[k]) : log'[k][x] # m
          BY <2>3, <2>6, <3>2
        <4>4. \A x, y \in 1..Len(log[k]) : log[k][x] = log[k][y] => x = y
          BY DEF LoggedOnce
        <4> QED
          BY <3>2, <3>4, <4>1, <4>2, <4>3, <4>4
      <3> QED
        BY <3>3, <3>4
    <2> QED
      BY <2>5, <2>6
  <1> QED
    BY <1>2, <1>3, RunnerLogs

\* Storage calls of a turn: what they persist is there for the rest of the turn.
LEMMA StorageKeepsTurn ==
    ASSUME RunnerTypeOK, NEW q \in Turns, TurnInv(q),
           \/ LoadPrior(q) \/ PersistInbound(q) \/ PersistOutbound(q) \/ StorageFails(q)
    PROVE  TurnInv(q)'
  <1>t. /\ step \in [Turns -> Steps] /\ conv \in [Turns -> Conversations]
        /\ log \in [Conversations -> Seq(Message)]
        /\ translator \in [Turns -> BOOLEAN]
        /\ reply \in [Turns -> {"none", "empty", "text"}]
    BY DEF RunnerTypeOK
  <1>1. CASE LoadPrior(q) \/ StorageFails(q)
    <2>1. /\ sink' = sink /\ emitted' = emitted /\ rx' = rx /\ translator' = translator
          /\ \/ step[q] = "load" /\ step'[q] = "inbound"
             \/ step[q] \in {"load", "inbound", "outbound"} /\ step'[q] = "err"
      BY <1>t, <1>1 DEF LoadPrior, StorageFails
    <2>2. Streamed(q)' = Streamed(q)
      BY <2>1 DEF Streamed, Frame
    <2>3. QuietBeforeRun(q)' /\ NothingLost(q)' /\ Persisted(q)'
      BY <2>1, <2>2 DEF TurnInv, QuietBeforeRun, NothingLost, Persisted
    <2> QED
      BY <2>3 DEF TurnInv
  <1>2. CASE PersistInbound(q)
    <2>1. /\ sink' = sink /\ emitted' = emitted /\ rx' = rx /\ conv' = conv
          /\ step[q] = "inbound" /\ step'[q] = "run" /\ translator'[q] = TRUE
          /\ log' = [log EXCEPT ![conv[q]] = Append(@, [turn |-> q, direction |-> "inbound"])]
      BY <1>t, <1>2 DEF PersistInbound
    <2>2. Streamed(q)' = {} /\ rx'[q] = <<>> /\ emitted'[q] = 0
      BY <2>1 DEF Streamed, Frame, TurnInv, QuietBeforeRun, NothingLost
    <2>3. Shown(rx'[q]) = {}
      BY <2>2 DEF Shown
    <2>4. Cardinality(Streamed(q)') + Cardinality(Shown(rx'[q])) = emitted'[q]
      BY <2>2, <2>3, FS_EmptySet
    <2>5. Len(log[conv[q]]) + 1 \in Stored(q, "inbound")'
      <3>1. [turn |-> q, direction |-> "inbound"] \in Message
        BY MessageShape
      <3> QED
        BY <1>t, <2>1, <3>1, AppendStores
    <2>6. NothingLost(q)'
      BY <2>1, <2>4 DEF NothingLost, Shown
    <2>7. QuietBeforeRun(q)' /\ Persisted(q)'
      BY <2>1, <2>5 DEF QuietBeforeRun, Persisted
    <2> QED
      BY <2>6, <2>7 DEF TurnInv
  <1>3. CASE PersistOutbound(q)
    <2>1. /\ sink' = sink /\ emitted' = emitted /\ rx' = rx /\ conv' = conv
          /\ translator' = translator /\ reply' = reply
          /\ step[q] = "outbound" /\ step'[q] = "ok"
      BY <1>t, <1>3 DEF PersistOutbound
    <2>2. Streamed(q)' = Streamed(q)
      BY <2>1 DEF Streamed, Frame
    <2>3. QuietBeforeRun(q)' /\ NothingLost(q)'
      BY <2>1, <2>2 DEF TurnInv, QuietBeforeRun, NothingLost
    <2>4. Persisted(q)'
      <3>1. CASE reply[q] = "empty"
        <4>1. log' = log
          BY <1>3, <3>1 DEF PersistOutbound
        <4>2. Stored(q, "inbound")' = Stored(q, "inbound")
          BY <2>1, <4>1, SameStores
        <4> QED
          BY <2>1, <3>1, <4>2 DEF TurnInv, Persisted
      <3>2. CASE reply[q] # "empty"
        <4>1. log' = [log EXCEPT ![conv[q]] =
                        Append(@, [turn |-> q, direction |-> "outbound"])]
          BY <1>3, <3>2 DEF PersistOutbound
        <4>2. [turn |-> q, direction |-> "outbound"] \in Message
          BY MessageShape
        <4>3. /\ Stored(q, "inbound") \subseteq Stored(q, "inbound")'
              /\ Stored(q, "inbound") \subseteq 1..Len(log[conv[q]])
              /\ Len(log[conv[q]]) \in Nat
          BY <1>t, <2>1, <4>1, <4>2, AppendStores
        <4>4. Len(log[conv[q]]) + 1 \in Stored(q, "outbound")'
          BY <1>t, <2>1, <4>1, <4>2, AppendStores
        <4>5. PICK i \in Stored(q, "inbound") : TRUE
          BY <2>1 DEF TurnInv, Persisted
        <4>6. i \in Stored(q, "inbound")' /\ i < Len(log[conv[q]]) + 1
          BY <4>3, <4>5
        <4> QED
          BY <4>4, <4>6 DEF Persisted
      <3> QED
        BY <3>1, <3>2
    <2> QED
      BY <2>3, <2>4 DEF TurnInv
  <1> QED
    BY <1>1, <1>2, <1>3

\* Engine and translator: events move from the engine to the channel to the sink
\* and none is lost, until the channel is closed and the translator joined.
LEMMA EngineKeepsTurn ==
    ASSUME RunnerTypeOK, NEW S, sink \in [Sinks -> Seq(S)],
           NEW q \in Turns, Frame(q, "stream") \in S, TurnInv(q),
           \/ \E event \in AgentEvent : EngineEmits(q, event)
           \/ \E content \in {"empty", "text"} : EngineReturns(q, content)
           \/ EngineFails(q) \/ JoinTranslator(q) \/ Translate(q) \/ TranslatorEnds(q)
    PROVE  TurnInv(q)'
  <1>t. /\ step \in [Turns -> Steps] /\ emitted \in [Turns -> Nat]
        /\ rx \in [Turns -> Seq(AgentEvent)] /\ translator \in [Turns -> BOOLEAN]
        /\ reply \in [Turns -> {"none", "empty", "text"}] /\ rx[q] \in Seq(AgentEvent)
    BY DEF RunnerTypeOK
  <1>c. conv' = conv /\ log' = log
    BY DEF EngineEmits, EngineReturns, EngineFails, JoinTranslator, Translate, TranslatorEnds
  <1>s. /\ Stored(q, "inbound")' = Stored(q, "inbound")
        /\ Stored(q, "outbound")' = Stored(q, "outbound")
    BY <1>c, SameStores
  <1>n. Cardinality(Streamed(q)) \in Nat /\ IsFiniteSet(Streamed(q))
    <2>1. Len(sink[SinkOf[q]]) \in Nat
      BY TurnRunnerAssumption
    <2>2. Streamed(q) \subseteq 1..Len(sink[SinkOf[q]])
      BY DEF Streamed
    <2> QED
      BY <2>1, <2>2, PositionsAreFinite
  <1>x. Cardinality(Shown(rx[q])) \in Nat
    <2>1. Len(rx[q]) \in Nat
      BY <1>t
    <2>2. Shown(rx[q]) \subseteq 1..Len(rx[q])
      BY DEF Shown
    <2> QED
      BY <2>1, <2>2, PositionsAreFinite
  <1>1. ASSUME NEW event \in AgentEvent, EngineEmits(q, event)
        PROVE  TurnInv(q)'
    <2>1. /\ sink' = sink /\ step' = step /\ translator' = translator /\ reply' = reply
          /\ step[q] = "run" /\ rx'[q] = Append(rx[q], event)
          /\ emitted'[q] = IF event = "shown" THEN emitted[q] + 1 ELSE emitted[q]
      BY <1>t, <1>1 DEF EngineEmits
    <2>2. Streamed(q)' = Streamed(q)
      BY <2>1 DEF Streamed, Frame
    <2>3. /\ Cardinality(Streamed(q)) + Cardinality(Shown(rx[q])) = emitted[q]
          /\ translator[q]
      BY <2>1 DEF TurnInv, NothingLost
    <2>4. Cardinality(Shown(rx'[q])) =
            Cardinality(Shown(rx[q])) + (IF event = "shown" THEN 1 ELSE 0)
      BY <1>t, <2>1, ShownAppend
    <2>5. Cardinality(Streamed(q)) + Cardinality(Shown(rx'[q])) = emitted'[q]
      BY <1>n, <1>x, <2>1, <2>3, <2>4
    <2>6. NothingLost(q)'
      BY <2>1, <2>2, <2>3, <2>5 DEF NothingLost, Shown
    <2>7. QuietBeforeRun(q)' /\ Persisted(q)'
      BY <1>s, <2>1 DEF TurnInv, QuietBeforeRun, Persisted
    <2> QED
      BY <2>6, <2>7 DEF TurnInv
  <1>2. CASE Translate(q)
    <2>1. /\ step' = step /\ translator' = translator /\ reply' = reply /\ emitted' = emitted
          /\ translator[q] /\ rx[q] # <<>> /\ rx'[q] = Tail(rx[q])
      BY <1>t, <1>2 DEF Translate
    <2>2. Cardinality(Shown(rx[q])) =
            Cardinality(Shown(rx'[q])) + (IF Head(rx[q]) = "shown" THEN 1 ELSE 0)
      BY <1>t, <2>1, ShownTail
    <2>3. Cardinality(Shown(rx'[q])) \in Nat
      <3>1. Len(rx'[q]) \in Nat
        BY <1>t, <2>1
      <3>2. Shown(rx'[q]) \subseteq 1..Len(rx'[q])
        BY DEF Shown
      <3> QED
        BY <3>1, <3>2, PositionsAreFinite
    <2>4. Cardinality(Streamed(q)') =
            Cardinality(Streamed(q)) + (IF Head(rx[q]) = "shown" THEN 1 ELSE 0)
      <3>1. CASE Head(rx[q]) = "shown"
        <4>1. Send(SinkOf[q], Frame(q, "stream"))
          BY <1>2, <3>1 DEF Translate
        <4>2. SinkOf[q] \in Sinks
          BY TurnRunnerAssumption
        <4>3. /\ Streamed(q)' = Streamed(q) \cup {Len(sink[SinkOf[q]]) + 1}
              /\ Len(sink[SinkOf[q]]) + 1 \notin Streamed(q)
          BY <4>1, <4>2, SendStreams
        <4> QED
          BY <1>n, <3>1, <4>3, FS_AddElement
      <3>2. CASE Head(rx[q]) # "shown"
        <4>1. sink' = sink
          BY <1>2, <3>2 DEF Translate
        <4>2. Streamed(q)' = Streamed(q)
          BY <4>1 DEF Streamed, Frame
        <4> QED
          BY <1>n, <3>2, <4>2
      <3> QED
        BY <3>1, <3>2
    <2>5. step[q] \in {"run", "join"} =>
            Cardinality(Streamed(q)') + Cardinality(Shown(rx'[q])) = emitted[q]
      BY <1>n, <1>x, <2>2, <2>3, <2>4 DEF TurnInv, NothingLost
    <2>6. step[q] \notin {"idle", "load", "inbound", "outbound", "ok"}
      BY <2>1 DEF TurnInv, NothingLost, QuietBeforeRun
    <2>7. NothingLost(q)'
      BY <2>1, <2>5, <2>6 DEF NothingLost, Shown
    <2>8. QuietBeforeRun(q)' /\ Persisted(q)'
      BY <1>s, <2>1, <2>6 DEF TurnInv, QuietBeforeRun, Persisted
    <2> QED
      BY <2>7, <2>8 DEF TurnInv
  <1>3. CASE \/ \E content \in {"empty", "text"} : EngineReturns(q, content)
             \/ EngineFails(q) \/ JoinTranslator(q) \/ TranslatorEnds(q)
    <2>1. /\ sink' = sink /\ emitted' = emitted /\ rx' = rx
          /\ \/ step[q] = "run" /\ step'[q] \in {"join", "err"} /\ translator'[q] = translator[q]
             \/ /\ step[q] = "join" /\ step'[q] = "outbound"
                /\ ~translator[q] /\ ~translator'[q]
             \/ /\ translator[q] /\ ~translator'[q] /\ rx[q] = <<>> /\ step[q] # "run"
                /\ step'[q] = step[q] /\ reply'[q] = reply[q]
      BY <1>t, <1>3 DEF EngineReturns, EngineFails, JoinTranslator, TranslatorEnds
    <2>2. Streamed(q)' = Streamed(q) /\ Shown(rx[q])' = Shown(rx[q])
      BY <2>1 DEF Streamed, Frame, Shown
    <2>3. rx[q] = <<>> => Cardinality(Shown(rx[q])) = 0
      <3>1. rx[q] = <<>> => Shown(rx[q]) = {}
        BY DEF Shown
      <3> QED
        BY <3>1, FS_EmptySet
    <2>4. NothingLost(q)'
      BY <1>n, <2>1, <2>2, <2>3 DEF TurnInv, NothingLost, QuietBeforeRun
    <2>5. QuietBeforeRun(q)' /\ Persisted(q)'
      BY <1>s, <2>1, <2>2 DEF TurnInv, QuietBeforeRun, Persisted
    <2> QED
      BY <2>4, <2>5 DEF TurnInv
  <1> QED
    BY <1>1, <1>2, <1>3

\* What a step of turn q leaves of any other turn: its variables, and what it
\* has stored.
LEMMA OthersUntouched ==
    ASSUME RunnerTypeOK, NEW q \in Turns, RunnerStep(q), NEW r \in Turns, r # q
    PROVE  /\ step'[r] = step[r] /\ translator'[r] = translator[r] /\ reply'[r] = reply[r]
           /\ emitted'[r] = emitted[r] /\ rx'[r] = rx[r] /\ prior'[r] = prior[r]
           /\ \A d \in {"inbound", "outbound"} : Stored(r, d)' = Stored(r, d)
  <1>t. /\ step \in [Turns -> Steps] /\ conv \in [Turns -> Conversations]
        /\ prior \in [Turns -> Seq(Message)]
        /\ log \in [Conversations -> Seq(Message)] /\ emitted \in [Turns -> Nat]
        /\ rx \in [Turns -> Seq(AgentEvent)] /\ translator \in [Turns -> BOOLEAN]
        /\ reply \in [Turns -> {"none", "empty", "text"}]
    BY DEF RunnerTypeOK
  <1>1. /\ step'[r] = step[r] /\ translator'[r] = translator[r] /\ reply'[r] = reply[r]
        /\ emitted'[r] = emitted[r] /\ rx'[r] = rx[r] /\ prior'[r] = prior[r]
    BY <1>t DEF RunnerStep, LoadPrior, PersistInbound, PersistOutbound, StorageFails,
       EngineEmits, EngineReturns, EngineFails, JoinTranslator, Translate, TranslatorEnds
  <1>2. conv' = conv
    BY RunnerEffects
  <1>3. CASE log' = log
    BY <1>1, <1>2, <1>3, SameStores
  <1>4. ASSUME NEW e \in {"inbound", "outbound"},
               log' = [log EXCEPT ![conv[q]] = Append(@, [turn |-> q, direction |-> e])],
               NEW d \in {"inbound", "outbound"}
        PROVE  Stored(r, d)' = Stored(r, d)
    <2>1. /\ [turn |-> q, direction |-> e] \in Message
          /\ [turn |-> q, direction |-> e] # [turn |-> r, direction |-> d]
      BY MessageShape
    <2>2. conv[q] \in Conversations /\ conv[r] \in Conversations /\ conv'[r] = conv[r]
      BY <1>t, <1>2
    <2> QED
      BY <1>t, <1>4, <2>1, <2>2, AppendStores
  <1> QED
    BY <1>1, <1>3, <1>4, RunnerLogs

\* No other turn's invariant is disturbed by a step of turn q.
LEMMA OthersKeepTurn ==
    ASSUME RunnerTypeOK, NEW S, sink \in [Sinks -> Seq(S)],
           NEW q \in Turns, Frame(q, "stream") \in S, RunnerStep(q),
           NEW r \in Turns, r # q, TurnInv(r)
    PROVE  TurnInv(r)'
  <1>1. /\ step'[r] = step[r] /\ translator'[r] = translator[r] /\ reply'[r] = reply[r]
        /\ emitted'[r] = emitted[r] /\ rx'[r] = rx[r]
        /\ \A d \in {"inbound", "outbound"} : Stored(r, d)' = Stored(r, d)
    BY OthersUntouched
  <1>2. Streamed(r)' = Streamed(r)
    <2>1. CASE sink' = sink
      BY <2>1 DEF Streamed, Frame
    <2>2. CASE Send(SinkOf[q], Frame(q, "stream"))
      <3>1. SinkOf[q] \in Sinks
        BY TurnRunnerAssumption
      <3> QED
        BY <2>2, <3>1, SendStreams
    <2> QED
      BY <2>1, <2>2, RunnerEffects
  <1> QED
    BY <1>1, <1>2, TurnUntouched

\* Every step of a turn keeps the runner's invariant.
LEMMA RunnerInvKept ==
    ASSUME RunnerTypeOK, NEW S, sink \in [Sinks -> Seq(S)],
           NEW q \in Turns, Frame(q, "stream") \in S, RunnerStep(q), RunnerInv
    PROVE  RunnerInv'
  <1>1. LoggedOnce'
    BY RunnerLogsOnce DEF RunnerInv
  <1>2. ASSUME NEW r \in Turns
        PROVE  TurnInv(r)'
    <2>1. CASE r # q
      BY <2>1, OthersKeepTurn DEF RunnerInv
    <2>2. TurnInv(q)'
      BY StorageKeepsTurn, EngineKeepsTurn DEF RunnerStep, RunnerInv
    <2> QED
      BY <2>1, <2>2
  <1> QED
    BY <1>1, <1>2 DEF RunnerInv

-----------------------------------------------------------------------------
(* Steps of the runner's callers *)

\* The runner's invariant holds before any turn has started.
LEMMA RunnerStartsWell ==
    ASSUME RunnerInit, \A k \in Sinks : sink[k] = <<>>
    PROVE  RunnerTypeOK /\ RunnerInv
  <1>1. RunnerTypeOK
    <2>1. (CHOOSE k \in Conversations : TRUE) \in Conversations
      BY TurnRunnerAssumption
    <2> QED
      BY <2>1 DEF RunnerInit, RunnerTypeOK, Steps
  <1>2. LoggedOnce
    BY DEF RunnerInit, LoggedOnce
  <1>3. ASSUME NEW r \in Turns
        PROVE  TurnInv(r)
    <2>1. SinkOf[r] \in Sinks
      BY TurnRunnerAssumption
    <2>2. Streamed(r) = {}
      BY <2>1 DEF Streamed
    <2>3. step[r] = "idle" /\ ~translator[r] /\ emitted[r] = 0 /\ rx[r] = <<>>
      BY DEF RunnerInit
    <2> QED
      BY <2>2, <2>3 DEF TurnInv, QuietBeforeRun, NothingLost, Persisted
  <1> QED
    BY <1>1, <1>2, <1>3 DEF RunnerInv

\* A caller that starts a turn which has not run keeps the runner's invariant.
LEMMA StartKeepsRunner ==
    ASSUME RunnerTypeOK, RunnerInv, NEW q \in Turns, step[q] = "idle",
           NEW k \in Conversations, StartTurn(q, k),
           \A r \in Turns : Streamed(r)' = Streamed(r)
    PROVE  RunnerTypeOK' /\ RunnerInv'
  <1>t. /\ step \in [Turns -> Steps] /\ conv \in [Turns -> Conversations]
        /\ log \in [Conversations -> Seq(Message)]
    BY DEF RunnerTypeOK
  <1>s. /\ step' = [step EXCEPT ![q] = "load"] /\ conv' = [conv EXCEPT ![q] = k]
        /\ prior' = prior /\ log' = log /\ emitted' = emitted /\ rx' = rx
        /\ translator' = translator /\ reply' = reply
    BY DEF StartTurn
  <1>1. RunnerTypeOK'
    <2>1. step' \in [Turns -> Steps] /\ conv' \in [Turns -> Conversations]
      BY <1>t, <1>s DEF Steps
    <2> QED
      BY <1>s, <2>1 DEF RunnerTypeOK
  <1>2. LoggedOnce'
    <2>1. \A x \in Conversations : \A i \in 1..Len(log[x]) :
              step'[log[x][i].turn] \notin Before(log[x][i].direction)
      <3> SUFFICES ASSUME NEW x \in Conversations, NEW i \in 1..Len(log[x])
                   PROVE  step'[log[x][i].turn] \notin Before(log[x][i].direction)
        OBVIOUS
      <3>1. log[x][i] \in Message
        BY <1>t
      <3>2. log[x][i].turn \in Turns /\ log[x][i].direction \in {"inbound", "outbound"}
        BY <3>1, MessageShape
      <3>3. step[log[x][i].turn] \notin Before(log[x][i].direction)
        BY DEF RunnerInv, LoggedOnce
      <3>4. log[x][i].turn # q
        BY <3>2, <3>3 DEF Before
      <3> QED
        BY <1>t, <1>s, <3>2, <3>3, <3>4
    <2> QED
      BY <1>s, <2>1 DEF RunnerInv, LoggedOnce, Before
  <1>3. ASSUME NEW r \in Turns
        PROVE  TurnInv(r)'
    <2>0. TurnInv(r)
      BY DEF RunnerInv
    <2>1. CASE r # q
      <3>1. step'[r] = step[r] /\ conv'[r] = conv[r]
        BY <1>t, <1>s, <2>1
      <3>2. \A d \in {"inbound", "outbound"} : Stored(r, d)' = Stored(r, d)
        BY <1>s, <3>1, SameStores
      <3> QED
        BY <1>s, <2>0, <3>1, <3>2, TurnUntouched
    <2>2. CASE r = q
      <3>1. step'[r] = "load" /\ step[r] = "idle"
        BY <1>t, <1>s, <2>2
      <3>2. QuietBeforeRun(r)' /\ NothingLost(r)' /\ Persisted(r)'
        BY <1>s, <2>0, <3>1 DEF TurnInv, QuietBeforeRun, NothingLost, Persisted
      <3> QED
        BY <3>2 DEF TurnInv
    <2> QED
      BY <2>1, <2>2
  <1> QED
    BY <1>1, <1>2, <1>3 DEF RunnerInv

\* A turn that its caller ends, or that dies, leaves nothing half said of it.
LEMMA EndKeepsRunner ==
    ASSUME RunnerTypeOK, RunnerInv, UNCHANGED <<conv, log, emitted, reply>>,
           step' \in [Turns -> Steps],
           \A r \in Turns :
              /\ Streamed(r)' = Streamed(r)
              /\ step'[r] = step[r] \/ step'[r] = "over"
              /\ \/ translator'[r] = translator[r] /\ rx'[r] = rx[r]
                 \/ ~translator'[r] /\ rx'[r] = <<>> /\ step'[r] \in {"idle", "over"}
    PROVE  RunnerInv'
  <1>t. log \in [Conversations -> Seq(Message)]
    BY DEF RunnerTypeOK
  <1>1. LoggedOnce'
    <2>1. \A x \in Conversations : \A i \in 1..Len(log[x]) :
              step'[log[x][i].turn] \notin Before(log[x][i].direction)
      <3> SUFFICES ASSUME NEW x \in Conversations, NEW i \in 1..Len(log[x])
                   PROVE  step'[log[x][i].turn] \notin Before(log[x][i].direction)
        OBVIOUS
      <3>1. log[x][i] \in Message
        BY <1>t
      <3>2. log[x][i].turn \in Turns
        BY <3>1, MessageShape
      <3>3. step[log[x][i].turn] \notin Before(log[x][i].direction)
        BY DEF RunnerInv, LoggedOnce
      <3> QED
        BY <3>2, <3>3 DEF Before
    <2> QED
      BY <2>1 DEF RunnerInv, LoggedOnce, Before
  <1>2. ASSUME NEW r \in Turns
        PROVE  TurnInv(r)'
    <2>0. TurnInv(r)
      BY DEF RunnerInv
    <2>1. \A d : Stored(r, d)' = Stored(r, d)
      BY SameStores
    <2>2. CASE step'[r] = step[r] /\ translator'[r] = translator[r] /\ rx'[r] = rx[r]
      BY <2>0, <2>1, <2>2, TurnUntouched
    <2>3. CASE step'[r] = "over"
      <3>1. QuietBeforeRun(r)' /\ Persisted(r)'
        BY <2>3 DEF QuietBeforeRun, Persisted
      <3>2. NothingLost(r)'
        BY <2>0, <2>3 DEF TurnInv, NothingLost
      <3> QED
        BY <3>1, <3>2 DEF TurnInv
    <2>4. CASE step[r] = "idle" /\ step'[r] = "idle" /\ ~translator'[r] /\ rx'[r] = <<>>
      <3>1. QuietBeforeRun(r)' /\ Persisted(r)' /\ NothingLost(r)'
        BY <2>0, <2>1, <2>4 DEF TurnInv, QuietBeforeRun, Persisted, NothingLost
      <3> QED
        BY <3>1 DEF TurnInv
    <2> QED
      BY <2>2, <2>3, <2>4
  <1> QED
    BY <1>1, <1>2 DEF RunnerInv
=============================================================================
