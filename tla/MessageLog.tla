----------------------------- MODULE MessageLog -----------------------------
(***************************************************************************)
(* The message log of one conversation in the three storage adapters:      *)
(* append_message, and list_messages_by_conversation called page after     *)
(* page with the cursor of the page before.  In memory an append is one    *)
(* critical section; Postgres and DynamoDB draw a sequence number first    *)
(* and make the message visible later.                                     *)
(***************************************************************************)
EXTENDS StorageBackend, Sequences, SequencesExt

CONSTANTS
    MsgIds,         \* messages, each appended at most once
    Walkers,        \* readers that page through the log
    Limit,          \* MessageQuery::limit
    MaxDraws        \* bound: sequence numbers drawn

ASSUME LogAssumption == Limit \in Nat \ {0} /\ MaxDraws \in Nat

VARIABLES
    seqOf,          \* the sequence number of each stored message, 0: not stored
    counter,        \* the last number drawn (length, BIGSERIAL, counter item)
    msgSettled,     \* the messages every replica and the index have
    append,         \* the append each caller is in: message and number drawn
    earlier,        \* history: the appends that had returned when this one began
    walk            \* the page walk of each walker

logVars == <<seqOf, counter, msgSettled, append, earlier, walk>>

Stored == {m \in MsgIds : seqOf[m] > 0}
NoAppend == [msg |-> Nil, seq |-> 0]

\* A cursor that names no message, as a client may send one.
Bogus == "bogus"

\* Ids are told apart from the absent cursor and from one that names nothing.
ASSUME CursorAssumption == {Nil, Bogus} \cap MsgIds = {} /\ Nil # Bogus

\* A walk: the direction, the cursor of the next page, the messages read so
\* far, and (history) the messages visible to every read when it began.
NoWalk == [state |-> "idle", descending |-> FALSE, cursor |-> Nil,
           read |-> <<>>, due |-> {}]

LogInit ==
    /\ seqOf = [m \in MsgIds |-> 0]
    /\ counter = 0
    /\ msgSettled = {}
    /\ append = [c \in Callers |-> NoAppend]
    /\ earlier = [m \in MsgIds |-> {}]
    /\ walk = [w \in Walkers |-> NoWalk]

-----------------------------------------------------------------------------
(* append_message *)

Unused(m) ==
    /\ seqOf[m] = 0
    /\ counter < MaxDraws
    /\ \A c \in Callers : append[c].msg # m

\* In memory: the id is pushed onto the order and the message inserted.
AppendInMemory(c, m) ==
    /\ backend = "memory" /\ Unused(m)
    /\ counter' = counter + 1
    /\ seqOf' = [seqOf EXCEPT ![m] = counter + 1]
    /\ earlier' = [earlier EXCEPT ![m] = Stored]
    /\ UNCHANGED <<msgSettled, append, walk>>

\* Mutant: the number is one more than the messages a count query sees.
DrawWithoutAdding(c, m) ==
    /\ Remote /\ append[c] = NoAppend /\ Unused(m)
    /\ \E seen \in IF backend = "dynamo" THEN {msgSettled} ELSE {Stored} :
         append' = [append EXCEPT ![c] = [msg |-> m, seq |-> Cardinality(seen) + 1]]
    /\ earlier' = [earlier EXCEPT ![m] = Stored]
    /\ UNCHANGED <<seqOf, counter, msgSettled, walk>>

\* DynamoDB adds one to the counter item and gets the new value, Postgres takes
\* the next value of the sequence.
AppendDraw(c, m) ==
    /\ Remote /\ append[c] = NoAppend /\ Unused(m)
    /\ counter' = counter + 1
    /\ append' = [append EXCEPT ![c] = [msg |-> m, seq |-> counter + 1]]
    /\ earlier' = [earlier EXCEPT ![m] = Stored]
    /\ UNCHANGED <<seqOf, msgSettled, walk>>

\* The message is put (DynamoDB) or the insert commits (Postgres).
AppendStore(c) ==
    /\ append[c] # NoAppend
    /\ seqOf' = [seqOf EXCEPT ![append[c].msg] = append[c].seq]
    /\ append' = [append EXCEPT ![c] = NoAppend]
    /\ UNCHANGED <<counter, msgSettled, earlier, walk>>

\* The append fails after the number was drawn: the number stays unused.
AppendFails(c) ==
    /\ append[c] # NoAppend
    /\ append' = [append EXCEPT ![c] = NoAppend]
    /\ UNCHANGED <<seqOf, counter, msgSettled, earlier, walk>>

MsgSettle(m) ==
    /\ backend = "dynamo" /\ m \in Stored \ msgSettled
    /\ msgSettled' = msgSettled \cup {m}
    /\ UNCHANGED <<seqOf, counter, append, earlier, walk>>

-----------------------------------------------------------------------------
(* list_messages_by_conversation *)

\* The sets of messages a read may see: in DynamoDB those that have settled and
\* any of the others.
Visible ==
    IF backend = "dynamo"
    THEN {msgSettled \cup some : some \in SUBSET (Stored \ msgSettled)}
    ELSE {Stored}

\* The sort key MSG#<padded seq>#<id>, seq DESC or ASC, and the reversed order:
\* messages by sequence number in the direction of the query.
Precedes(a, b, descending) ==
    IF descending THEN seqOf[a] > seqOf[b] ELSE seqOf[a] < seqOf[b]

\* The rows of a set as such a query lists them.
Ordered(S, descending) ==
    CHOOSE s \in [1 .. Cardinality(S) -> S] :
        /\ ToSet(s) = S
        /\ \A i, j \in 1 .. Cardinality(S) : i < j => ~Precedes(s[j], s[i], descending)

Beyond(S, cursor, descending) == {m \in S : Precedes(cursor, m, descending)}

NoError == "ok"
Page(items, more) ==
    [status |-> NoError, items |-> items,
     next |-> IF more THEN Last(items) ELSE Nil]
CursorError == [status |-> "error", items |-> <<>>, next |-> Nil]

Prefix(s, n) == SubSeq(s, 1, IF n < Len(s) THEN n ELSE Len(s))

\* Mutant: the probe row is taken off before it is looked at.
ProbedShort(rows) == Page(Prefix(rows, Limit), Len(Prefix(rows, Limit)) > Limit)

\* A page read with limit + 1 rows as the probe for more.
Probed(rows) == Page(Prefix(rows, Limit), Len(rows) > Limit)

\* In memory and in Postgres: from after the cursor, or from the start when
\* there is no such message.
ListByPosition(S, cursor, descending) ==
    Probed(Prefix(
        IF cursor \in MsgIds
        THEN Ordered(Beyond(S, cursor, descending), descending)
        ELSE Ordered(S, descending), Limit + 1))

\* DynamoDB: the cursor is resolved through the index and must be there.  A
\* descending query has the cursor as its inclusive upper end; the cursor is
\* dropped from the limit + 1 items that were read.
ListBySortKey(index, S, cursor, descending) ==
    CASE cursor = Nil -> Probed(Prefix(Ordered(S, descending), Limit + 1))
      [] cursor # Nil /\ cursor \notin index -> CursorError
      [] cursor \in index /\ ~descending ->
           Probed(Prefix(Ordered(Beyond(S, cursor, FALSE), FALSE), Limit + 1))
      [] cursor \in index /\ descending ->
           LET band == Beyond(S, cursor, TRUE) \cup ({cursor} \cap S)
               rows == Prefix(Ordered(band, TRUE), Limit + 1)
           IN Probed(Ordered(ToSet(rows) \ {cursor}, TRUE))

\* What the index shows and what the table shows are two reads.
ListMessages(index, S, cursor, descending) ==
    IF backend = "dynamo" THEN ListBySortKey(index, S, cursor, descending)
                          ELSE ListByPosition(S, cursor, descending)

\* A reader starts to page, with no cursor or with one that names nothing.
WalkStart(w, descending, cursor) ==
    /\ walk[w].state = "idle"
    /\ walk' = [walk EXCEPT ![w] =
          [state |-> "on", descending |-> descending, cursor |-> cursor,
           read |-> <<>>,
           due |-> IF backend = "dynamo" THEN msgSettled ELSE Stored]]
    /\ UNCHANGED <<seqOf, counter, msgSettled, append, earlier>>

\* It reads the next page and stops when next_cursor is None, or on an error.
WalkPage(w) ==
    /\ walk[w].state = "on"
    /\ \E index, S \in Visible :
         LET page == ListMessages(index, S, walk[w].cursor, walk[w].descending)
         IN walk' = [walk EXCEPT
              ![w].read = @ \o page.items,
              ![w].cursor = page.next,
              ![w].state = CASE page.status # NoError -> "error"
                             [] page.status = NoError /\ page.next = Nil -> "over"
                             [] OTHER -> "on"]
    /\ UNCHANGED <<seqOf, counter, msgSettled, append, earlier>>

LogNext ==
    \/ \E c \in Callers, m \in MsgIds : AppendInMemory(c, m) \/ AppendDraw(c, m)
    \/ \E c \in Callers : AppendStore(c) \/ AppendFails(c)
    \/ \E m \in MsgIds : MsgSettle(m)
    \/ \E w \in Walkers, descending \in BOOLEAN, cursor \in {Nil, Bogus} :
         WalkStart(w, descending, cursor)
    \/ \E w \in Walkers : WalkPage(w)

-----------------------------------------------------------------------------
(* Properties *)

LogTypeOK ==
    /\ seqOf \in [MsgIds -> 0 .. MaxDraws]
    /\ counter \in 0 .. MaxDraws
    /\ msgSettled \subseteq Stored
    /\ \A c \in Callers : append[c] = NoAppend
          \/ (append[c].msg \in MsgIds /\ append[c].seq \in 1 .. counter)
    /\ earlier \in [MsgIds -> SUBSET MsgIds]
    /\ \A w \in Walkers : walk[w].state \in {"idle", "on", "over", "error"}

\* An append that began after another had returned comes later in the log, in
\* every adapter: the sequence number is handed out by one atomic step, though
\* messages become visible in another order and numbers of failed appends are
\* left out.
AppendsInOrder ==
    \A m \in Stored : \A e \in earlier[m] : seqOf[e] < seqOf[m]

\* No message twice and none out of order.
InOrder(w) ==
    \A i, j \in DOMAIN walk[w].read :
        i < j => Precedes(walk[w].read[i], walk[w].read[j], walk[w].descending)

Complete(w) ==
    walk[w].state = "over" => walk[w].due \subseteq ToSet(walk[w].read)

\* A page walk never returns a message twice nor out of order, whatever is
\* appended between two pages, and one that ends without an error has returned
\* every message that was visible when it began; the DynamoDB adapter
\* guarantees the latter for ascending walks.
WalkIsComplete ==
    \A w \in Walkers :
        /\ InOrder(w)
        /\ ~(backend = "dynamo" /\ walk[w].descending) => Complete(w)

\* The same of descending walks in every adapter: next_cursor is None only when
\* the log is exhausted (MessagePage, adapter.rs).
DescendingWalkIsComplete ==
    \A w \in Walkers : walk[w].descending => Complete(w)
=============================================================================
