-------------------------- MODULE ConversationStore -------------------------
(***************************************************************************)
(* The conversations slice of the three storage adapters: create, which    *)
(* must be idempotent per (organization, idempotency key), and update.     *)
(* In memory a call is one critical section.  Postgres inserts and then    *)
(* selects.  DynamoDB claims the key with a conditional put, writes the    *)
(* conversation, and rewrites both on an update.                           *)
(***************************************************************************)
EXTENDS StorageBackend

CONSTANTS
    Keys,           \* pairs of an organization and an idempotency key
    ConvIds,        \* ids of conversations, fresh for each create
    Names           \* values of the fields an update may set

VARIABLES
    conv,           \* the conversation rows (DynamoDB: PK ORG#, SK CONV#id)
    convSettled,    \* the rows as every replica has them
    claim,          \* DynamoDB: the claim items (PK ORG#, SK IDEM#key)
    claimSettled,
    convCall,       \* the call each caller is in
    created         \* history: the conversations create_conversation returned

convVars == <<conv, convSettled, claim, claimSettled, convCall, created>>

Conversation == [id : ConvIds, key : Keys, name : Names]
ASSUME ConversationAssumption == Nil \notin Conversation

ConvSteps == {"idle", "select", "resolve", "canonical", "read", "rewrite", "sync"}

\* A call: the step it is at, the conversation it creates or writes (Nil until
\* an update has read it) and, for an update, the target and the new name.
ConvIdle == [step |-> "idle", body |-> Nil, id |-> Nil, name |-> Nil]

InCall(c, step) == convCall[c].step = step
GoTo(c, step, body) ==
    convCall' = [convCall EXCEPT ![c].step = step, ![c].body = body]
Return(c) == convCall' = [convCall EXCEPT ![c] = ConvIdle]

\* The rows that own a key.
Owners(k) == {i \in ConvIds : conv[i] # Nil /\ conv[i].key = k}

\* A fresh id: no row, no claim and no call uses it.
Fresh(i) ==
    /\ conv[i] = Nil
    /\ \A k \in Keys : claim[k] # Nil => claim[k].id # i
    /\ \A c \in Callers : convCall[c].body # Nil => convCall[c].body.id # i

\* get_conversation: what a lookup by id may return.
GetConversation(i) == Reads(conv[i], convSettled[i])

ConvInit ==
    /\ conv = [i \in ConvIds |-> Nil]
    /\ convSettled = [i \in ConvIds |-> Nil]
    /\ claim = [k \in Keys |-> Nil]
    /\ claimSettled = [k \in Keys |-> Nil]
    /\ convCall = [c \in Callers |-> ConvIdle]
    /\ created = {}

-----------------------------------------------------------------------------
(* create_conversation *)

\* In memory: the row that has the key, or a new one.
CreateInMemory(c, b) ==
    /\ backend = "memory" /\ InCall(c, "idle") /\ Fresh(b.id)
    /\ IF Owners(b.key) # {}
       THEN /\ \E i \in Owners(b.key) : created' = created \cup {conv[i]}
            /\ UNCHANGED conv
       ELSE /\ conv' = [conv EXCEPT ![b.id] = b]
            /\ created' = created \cup {b}
    /\ UNCHANGED <<convSettled, claim, claimSettled, convCall>>

\* Postgres: INSERT ... ON CONFLICT (organization, key) DO NOTHING.
CreateInsert(c, b) ==
    /\ backend = "postgres" /\ InCall(c, "idle") /\ Fresh(b.id)
    /\ conv' = IF Owners(b.key) = {} THEN [conv EXCEPT ![b.id] = b] ELSE conv
    /\ GoTo(c, "select", b)
    /\ UNCHANGED <<convSettled, claim, claimSettled, created>>

\* Postgres: the row that owns the key is read back.
CreateSelect(c) ==
    /\ InCall(c, "select")
    /\ \E i \in Owners(convCall[c].body.key) : created' = created \cup {conv[i]}
    /\ Return(c)
    /\ UNCHANGED <<conv, convSettled, claim, claimSettled>>

\* Mutant: the claim is put without the condition.
ClaimAnyway(c, b) ==
    /\ backend = "dynamo" /\ InCall(c, "idle") /\ Fresh(b.id)
    /\ claim' = [claim EXCEPT ![b.key] = b]
    /\ GoTo(c, "canonical", b)
    /\ UNCHANGED <<conv, convSettled, claimSettled, created>>

\* DynamoDB: the conditional put of the claim.  When the client library repeats
\* a put whose answer was lost, the condition fails on the caller's own claim.
CreateClaim(c, b) ==
    /\ backend = "dynamo" /\ InCall(c, "idle") /\ Fresh(b.id)
    /\ IF claim[b.key] # Nil
       THEN GoTo(c, "resolve", b) /\ UNCHANGED claim
       ELSE /\ claim' = [claim EXCEPT ![b.key] = b]
            /\ \E step \in {"canonical", "resolve"} : GoTo(c, step, b)
    /\ UNCHANGED <<conv, convSettled, claimSettled, created>>

\* DynamoDB: the key is taken; the claim holds the conversation.  A read that
\* does not find the claim yet makes the call fail.
CreateResolve(c) ==
    /\ InCall(c, "resolve")
    /\ LET k == convCall[c].body.key
       IN \E found \in Reads(claim[k], claimSettled[k]) :
            created' = created \cup ({found} \ {Nil})
    /\ Return(c)
    /\ UNCHANGED <<conv, convSettled, claim, claimSettled>>

\* DynamoDB: the claim is won, the conversation itself is put.
CreateCanonical(c) ==
    /\ InCall(c, "canonical")
    /\ conv' = [conv EXCEPT ![convCall[c].body.id] = convCall[c].body]
    /\ created' = created \cup {convCall[c].body}
    /\ Return(c)
    /\ UNCHANGED <<convSettled, claim, claimSettled>>

-----------------------------------------------------------------------------
(* update_conversation *)

\* In memory and in Postgres: one critical section, one statement.
UpdateAtOnce(c, i, n) ==
    /\ backend # "dynamo" /\ InCall(c, "idle") /\ conv[i] # Nil
    /\ conv' = [conv EXCEPT ![i].name = n]
    /\ UNCHANGED <<convSettled, claim, claimSettled, convCall, created>>

\* DynamoDB: the row is read through the index,
UpdateStart(c, i, n) ==
    /\ backend = "dynamo" /\ InCall(c, "idle")
    /\ convCall' = [convCall EXCEPT ![c] =
            [step |-> "read", body |-> Nil, id |-> i, name |-> n]]
    /\ UNCHANGED <<conv, convSettled, claim, claimSettled, created>>

UpdateRead(c) ==
    /\ InCall(c, "read")
    /\ \E found \in GetConversation(convCall[c].id) :
         IF found = Nil
         THEN Return(c)
         ELSE GoTo(c, "rewrite", [found EXCEPT !.name = convCall[c].name])
    /\ UNCHANGED <<conv, convSettled, claim, claimSettled, created>>

\* it is put back as a whole,
UpdateRewrite(c) ==
    /\ InCall(c, "rewrite")
    /\ conv' = [conv EXCEPT ![convCall[c].body.id] = convCall[c].body]
    /\ GoTo(c, "sync", convCall[c].body)
    /\ UNCHANGED <<convSettled, claim, claimSettled, created>>

\* and so is the copy in the claim.
UpdateSync(c) ==
    /\ InCall(c, "sync")
    /\ claim' = [claim EXCEPT ![convCall[c].body.key] = convCall[c].body]
    /\ Return(c)
    /\ UNCHANGED <<conv, convSettled, claimSettled, created>>

-----------------------------------------------------------------------------
(* The environment *)

\* A call of a remote adapter fails (or its caller is dropped) between two steps.
ConvCallFails(c) ==
    /\ Remote /\ ~InCall(c, "idle")
    /\ Return(c)
    /\ UNCHANGED <<conv, convSettled, claim, claimSettled, created>>

ConvSettle(i) ==
    /\ backend = "dynamo" /\ convSettled[i] # conv[i]
    /\ convSettled' = [convSettled EXCEPT ![i] = conv[i]]
    /\ UNCHANGED <<conv, claim, claimSettled, convCall, created>>

ClaimSettle(k) ==
    /\ backend = "dynamo" /\ claimSettled[k] # claim[k]
    /\ claimSettled' = [claimSettled EXCEPT ![k] = claim[k]]
    /\ UNCHANGED <<conv, convSettled, claim, convCall, created>>

ConvNext ==
    \/ \E c \in Callers, b \in Conversation :
         CreateInMemory(c, b) \/ CreateInsert(c, b) \/ CreateClaim(c, b)
    \/ \E c \in Callers : CreateSelect(c) \/ CreateResolve(c) \/ CreateCanonical(c)
    \/ \E c \in Callers, i \in ConvIds, n \in Names :
         UpdateAtOnce(c, i, n) \/ UpdateStart(c, i, n)
    \/ \E c \in Callers : UpdateRead(c) \/ UpdateRewrite(c) \/ UpdateSync(c)
    \/ \E c \in Callers : ConvCallFails(c)
    \/ \E i \in ConvIds : ConvSettle(i)
    \/ \E k \in Keys : ClaimSettle(k)

-----------------------------------------------------------------------------
(* Properties *)

ConvTypeOK ==
    /\ conv \in [ConvIds -> Conversation \cup {Nil}]
    /\ convSettled \in [ConvIds -> Conversation \cup {Nil}]
    /\ claim \in [Keys -> Conversation \cup {Nil}]
    /\ claimSettled \in [Keys -> Conversation \cup {Nil}]
    /\ convCall \in [Callers -> [step : ConvSteps, body : Conversation \cup {Nil},
                                 id : ConvIds \cup {Nil}, name : Names \cup {Nil}]]
    /\ created \subseteq Conversation

\* create_conversation is idempotent in all three adapters: whatever calls
\* overlap, fail half way, are repeated by the client library or read an item
\* that has not reached every replica, all conversations that were returned or
\* stored for one (organization, key) have one id.  In memory and in Postgres a
\* conversation that create returned is a row that get_conversation finds;
\* DynamoDB does not promise it: a claim whose put of the conversation failed is
\* returned by the retry and has no row.
OneConversationPerKey ==
    LET rows == created \cup {conv[i] : i \in ConvIds} \cup {claim[k] : k \in Keys}
    IN /\ \A a, b \in rows \ {Nil} : a.key = b.key => a.id = b.id
       /\ backend # "dynamo" => \A b \in created : conv[b.id] # Nil
=============================================================================
