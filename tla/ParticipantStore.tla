-------------------------- MODULE ParticipantStore --------------------------
(***************************************************************************)
(* The participants of conversations in the storage adapters.  In memory   *)
(* they are a map by id and in Postgres a table; in DynamoDB an item under *)
(* the conversation's key, with an entry in the index for the participants *)
(* that carry an external id.                                              *)
(***************************************************************************)
EXTENDS StorageBackend

CONSTANTS
    PartIds,        \* participant ids, numbers in the order the keys sort
    PartConvs,      \* conversations
    ExternalIds,    \* external ids
    MaxCreated      \* bound: created_at, which the caller gives

ASSUME ParticipantAssumption == PartIds \subseteq Nat /\ MaxCreated \in Nat

VARIABLES
    parts,          \* the stored participants
    partSettled,    \* those every replica and the index have
    partRead        \* the last read and its result

partVars == <<parts, partSettled, partRead>>

Participant ==
    [id : PartIds, conv : PartConvs, external_id : ExternalIds \cup {Nil},
     created_at : 1 .. MaxCreated]

NoRead == [op |-> "none", conv |-> Nil, key |-> Nil, result |-> {}]

PartInit ==
    /\ parts = {}
    /\ partSettled = {}
    /\ partRead = NoRead

\* What a read works on: DynamoDB may lack participants that were just added.
PartViews ==
    IF backend = "dynamo" THEN {partSettled \cup s : s \in SUBSET (parts \ partSettled)}
    ELSE {parts}

\* add_participant, whose id is a fresh uuid.
AddParticipant(p) ==
    /\ \A q \in parts : q.id # p.id
    /\ parts' = parts \cup {p}
    /\ UNCHANGED <<partSettled, partRead>>

\* get_participant: DynamoDB scans one page of the table for the sort key, and
\* misses an item that lies beyond it.
GetParticipant(id) ==
    /\ \E view \in PartViews, beyond \in IF backend = "dynamo" THEN BOOLEAN ELSE {FALSE} :
         partRead' = [op |-> "get", conv |-> Nil, key |-> id,
                      result |-> IF beyond THEN {} ELSE {p \in view : p.id = id}]
    /\ UNCHANGED <<parts, partSettled>>

\* list_participants_by_conversation, oldest first.
ListParticipants(conv) ==
    /\ \E view \in PartViews :
         partRead' = [op |-> "list", conv |-> conv, key |-> Nil,
                      result |-> {p \in view : p.conv = conv}]
    /\ UNCHANGED <<parts, partSettled>>

\* Mutant: the index key has the external id only.
MatchByExternalId(view, conv, ext) == {p \in view : p.external_id = ext}

\* The participants of a conversation with an external id (an index key in
\* DynamoDB, a WHERE clause or a test else).
MatchExternal(view, conv, ext) == {p \in view : p.conv = conv /\ p.external_id = ext}

\* Which of several matches an adapter returns: any in memory (a hash map's
\* first), one of the oldest in Postgres, the smallest id in DynamoDB.
Picks(S) ==
    CASE backend = "memory" -> S
      [] backend = "postgres" -> {p \in S : \A q \in S : p.created_at <= q.created_at}
      [] backend = "dynamo" -> {p \in S : \A q \in S : p.id <= q.id}

\* resolve_participant_by_external_id.
ResolveParticipant(conv, ext) ==
    /\ \E view \in PartViews :
         LET found == MatchExternal(view, conv, ext)
         IN \E result \in IF found = {} THEN {{}} ELSE {{p} : p \in Picks(found)} :
              partRead' = [op |-> "resolve", conv |-> conv, key |-> ext,
                           result |-> result]
    /\ UNCHANGED <<parts, partSettled>>

PartSettle ==
    /\ backend = "dynamo" /\ partSettled # parts
    /\ partSettled' = parts
    /\ UNCHANGED <<parts, partRead>>

\* A read leaves no state behind: a behaviour ends with the first one.
PartNext ==
    /\ partRead = NoRead
    /\ \/ \E p \in Participant : AddParticipant(p)
       \/ \E id \in PartIds : GetParticipant(id)
       \/ \E conv \in PartConvs :
            ListParticipants(conv) \/ \E ext \in ExternalIds : ResolveParticipant(conv, ext)
       \/ PartSettle

-----------------------------------------------------------------------------
(* Properties *)

PartTypeOK == parts \subseteq Participant /\ partSettled \subseteq parts

\* Resolving an external id finds a participant of that very conversation that
\* carries it, although the same visitor takes part in other conversations and
\* two callers may have added it twice; and it fails to find one that was added
\* only in DynamoDB, before the index has it.
ResolvesWithinConversation ==
    partRead.op = "resolve" =>
        /\ \A p \in partRead.result :
             p.conv = partRead.conv /\ p.external_id = partRead.key
        /\ backend # "dynamo" /\ partRead.result = {} =>
             ~\E p \in parts : p.conv = partRead.conv /\ p.external_id = partRead.key
=============================================================================
