--------------------------- MODULE Storage_proofs ---------------------------
(***************************************************************************)
(* Proofs about the storage adapters, for any set of callers, keys, ids,   *)
(* messages, participants and checkpoints, and any choice of adapters.     *)
(***************************************************************************)
EXTENDS Storage, FiniteSetTheorems, WellFoundedInduction, TLAPS

-----------------------------------------------------------------------------
(* Conversations *)

\* What a caller holds at each step of a call, and which adapters have it.
CallsWellFormed ==
    \A c \in Callers :
        /\ convCall[c].step = "read" =>
             convCall[c].id \in ConvIds /\ convCall[c].name \in Names
        /\ convCall[c].step \in {"select", "resolve", "canonical", "rewrite", "sync"} =>
             convCall[c].body \in Conversation
        /\ backend = "dynamo" => convCall[c].step # "select"
        /\ backend # "dynamo" => convCall[c].step \in {"idle", "select"}

\* The claim of k exists and carries the id of conversation b, which has key k.
Claimed(b) == claim[b.key] # Nil /\ claim[b.key].id = b.id

\* DynamoDB: whatever copy of a conversation there is (a row, a replica's row, a
\* returned one, the body of a call that is past its claim) agrees with the
\* claim of its key.
DynamoClaims ==
    /\ \A k \in Keys : claim[k] # Nil => claim[k].key = k
    /\ \A k \in Keys : claimSettled[k] # Nil => Claimed(claimSettled[k])
    /\ \A i \in ConvIds : conv[i] # Nil => Claimed(conv[i])
    /\ \A i \in ConvIds : convSettled[i] # Nil => Claimed(convSettled[i])
    /\ \A b \in created : Claimed(b)
    /\ \A c \in Callers : convCall[c].step \in {"canonical", "rewrite", "sync"} =>
         Claimed(convCall[c].body)

\* In memory and in Postgres: a key has one row, and what was returned is one.
OneRowPerKey ==
    /\ \A k \in Keys : claim[k] = Nil
    /\ \A i \in ConvIds : conv[i] # Nil => conv[i].id = i
    /\ \A i, j \in ConvIds :
         (conv[i] # Nil /\ conv[j] # Nil /\ conv[i].key = conv[j].key) => i = j
    /\ \A b \in created : conv[b.id] # Nil /\ conv[b.id].key = b.key

ConvInv ==
    /\ ConvTypeOK
    /\ CallsWellFormed
    /\ backend = "dynamo" => DynamoClaims
    /\ backend # "dynamo" => OneRowPerKey


\* A caller that starts or continues a call holds what the step needs.
LEMMA GoToShape ==
    ASSUME ConvTypeOK, NEW c \in Callers, NEW step \in ConvSteps, NEW body \in Conversation,
           GoTo(c, step, body)
    PROVE  /\ convCall' \in [Callers -> [step : ConvSteps, body : Conversation \cup {Nil},
                                         id : ConvIds \cup {Nil}, name : Names \cup {Nil}]]
           /\ convCall'[c].step = step /\ convCall'[c].body = body
           /\ convCall'[c].id = convCall[c].id /\ convCall'[c].name = convCall[c].name
           /\ \A d \in Callers : d # c => convCall'[d] = convCall[d]
BY DEF ConvTypeOK, GoTo

\* A caller that returns is idle.
LEMMA ReturnShape ==
    ASSUME ConvTypeOK, NEW c \in Callers, Return(c)
    PROVE  /\ convCall' \in [Callers -> [step : ConvSteps, body : Conversation \cup {Nil},
                                         id : ConvIds \cup {Nil}, name : Names \cup {Nil}]]
           /\ convCall'[c].step = "idle"
           /\ \A d \in Callers : d # c => convCall'[d] = convCall[d]
<1>1. ConvIdle \in [step : ConvSteps, body : Conversation \cup {Nil},
                    id : ConvIds \cup {Nil}, name : Names \cup {Nil}]
  BY DEF ConvIdle, ConvSteps
<1> QED BY <1>1 DEF ConvTypeOK, Return, ConvIdle

\* In memory and in Postgres a new row for a key that no row owns keeps keys unique.
LEMMA InsertKeepsOneRow ==
    ASSUME ConvTypeOK, OneRowPerKey, NEW b \in Conversation, conv[b.id] = Nil, Owners(b.key) = {},
           conv' = [conv EXCEPT ![b.id] = b], claim' = claim,
           created' = created \/ created' = created \cup {b}
    PROVE  OneRowPerKey'
<1>1. b.id \in ConvIds /\ b.key \in Keys /\ b # Nil
  BY ConversationAssumption DEF Conversation
<1>2. \A i \in ConvIds : conv'[i] = IF i = b.id THEN b ELSE conv[i]
  BY <1>1 DEF ConvTypeOK
<1>3. \A i \in ConvIds : conv[i] # Nil => conv[i].key # b.key
  BY DEF Owners
<1>4. \A a \in created : a.id \in ConvIds /\ a.id # b.id
  BY DEF ConvTypeOK, Conversation, OneRowPerKey
<1>5. \A i \in ConvIds : conv'[i] # Nil => conv'[i].id = i
  BY <1>2 DEF OneRowPerKey
<1>6. \A i, j \in ConvIds :
         (conv'[i] # Nil /\ conv'[j] # Nil /\ conv'[i].key = conv'[j].key) => i = j
  BY <1>2, <1>3 DEF OneRowPerKey
<1>7. \A a \in created' : conv'[a.id] # Nil /\ conv'[a.id].key = a.key
  BY <1>1, <1>2, <1>4 DEF OneRowPerKey
<1> QED BY <1>5, <1>6, <1>7 DEF OneRowPerKey

\* The create calls keep the invariant of the conversations.
LEMMA CreateKeepsConvInv ==
    ASSUME ConvInv, UNCHANGED backend, NEW c \in Callers, NEW b \in Conversation,
           CreateInMemory(c, b) \/ CreateInsert(c, b) \/ CreateClaim(c, b)
    PROVE  ConvInv'
<1>t. /\ ConvTypeOK /\ CallsWellFormed
      /\ b.id \in ConvIds /\ b.key \in Keys /\ b # Nil
  BY ConversationAssumption DEF ConvInv, Conversation
<1>1. CASE CreateInMemory(c, b)
  <2>1. backend # "dynamo" /\ OneRowPerKey /\ conv[b.id] = Nil /\ UNCHANGED <<convSettled, claim, claimSettled, convCall>>
    BY <1>1 DEF CreateInMemory, ConvInv, Fresh
  <2>2. CASE Owners(b.key) # {}
    <3>1. PICK i \in Owners(b.key) : created' = created \cup {conv[i]} /\ conv' = conv
      BY <1>1, <2>2 DEF CreateInMemory
    <3>2. i \in ConvIds /\ conv[i] # Nil /\ conv[i] \in Conversation
      BY <1>t DEF Owners, ConvTypeOK
    <3>3. ConvTypeOK' /\ CallsWellFormed'
      BY <1>t, <2>1, <3>1, <3>2 DEF ConvTypeOK, CallsWellFormed
    <3>4. OneRowPerKey'
      BY <2>1, <3>1, <3>2 DEF OneRowPerKey
    <3> QED BY <2>1, <3>3, <3>4 DEF ConvInv
  <2>3. CASE Owners(b.key) = {}
    <3>1. conv' = [conv EXCEPT ![b.id] = b] /\ created' = created \cup {b}
      BY <1>1, <2>3 DEF CreateInMemory
    <3>2. ConvTypeOK' /\ CallsWellFormed'
      BY <1>t, <2>1, <3>1 DEF ConvTypeOK, CallsWellFormed
    <3> QED BY <1>t, <2>1, <2>3, <3>1, <3>2, InsertKeepsOneRow DEF ConvInv
  <2> QED BY <2>2, <2>3
<1>2. CASE CreateInsert(c, b)
  <2>1. backend # "dynamo" /\ OneRowPerKey /\ conv[b.id] = Nil /\ UNCHANGED <<convSettled, claim, claimSettled, created>>
        /\ GoTo(c, "select", b)
    BY <1>2 DEF CreateInsert, ConvInv, Fresh
  <2>2. conv' = IF Owners(b.key) = {} THEN [conv EXCEPT ![b.id] = b] ELSE conv
    BY <1>2 DEF CreateInsert
  <2>3. "select" \in ConvSteps
    BY DEF ConvSteps
  <2>4. ConvTypeOK' /\ CallsWellFormed'
    BY <1>t, <2>1, <2>2, <2>3, GoToShape DEF ConvTypeOK, CallsWellFormed
  <2>5. OneRowPerKey'
    <3>1. CASE Owners(b.key) = {}
      BY <1>t, <2>1, <2>2, <3>1, InsertKeepsOneRow
    <3>2. CASE Owners(b.key) # {}
      BY <2>1, <2>2, <3>2 DEF OneRowPerKey
    <3> QED BY <3>1, <3>2
  <2> QED BY <2>1, <2>4, <2>5 DEF ConvInv
<1>3. CASE CreateClaim(c, b)
  <2>1. backend = "dynamo" /\ DynamoClaims /\ UNCHANGED <<conv, convSettled, claimSettled, created>>
    BY <1>3 DEF CreateClaim, ConvInv
  <2>2. PICK step \in {"canonical", "resolve"} : GoTo(c, step, b)
    BY <1>3 DEF CreateClaim
  <2>3. step \in ConvSteps
    BY DEF ConvSteps
  <2>4. claim' \in [Keys -> Conversation \cup {Nil}]
    BY <1>t, <1>3 DEF CreateClaim, ConvTypeOK
  <2>5. ConvTypeOK' /\ CallsWellFormed'
    BY <1>t, <2>1, <2>2, <2>3, <2>4, GoToShape DEF ConvTypeOK, CallsWellFormed
  <2>6. \A k \in Keys : claim[k] # Nil => claim'[k] = claim[k]
    BY <1>t, <1>3 DEF CreateClaim, ConvTypeOK
  <2>7. /\ \A k \in Keys : claim'[k] # Nil => claim'[k].key = k
        /\ claim[b.key] = Nil => claim'[b.key] = b
    BY <1>t, <1>3, <2>1 DEF CreateClaim, ConvTypeOK, DynamoClaims
  <2>8. ASSUME NEW a \in Conversation, Claimed(a) PROVE Claimed(a)'
    BY <2>6, <2>8 DEF Claimed, Conversation
  <2>9. step = "canonical" => Claimed(b)'
    <3>1. step = "canonical" => claim[b.key] = Nil
      <4> SUFFICES ASSUME claim[b.key] # Nil PROVE step # "canonical"
        OBVIOUS
      <4>1. GoTo(c, "resolve", b)
        BY <1>3 DEF CreateClaim
      <4>2. "resolve" \in ConvSteps
        BY DEF ConvSteps
      <4>3. convCall'[c].step = "resolve"
        BY <1>t, <4>1, <4>2, GoToShape
      <4>4. convCall'[c].step = step
        BY <1>t, <2>2, <2>3, GoToShape
      <4> QED BY <4>3, <4>4
    <3> QED BY <1>t, <2>7, <3>1 DEF Claimed
  <2>10. DynamoClaims'
    <3>1. \A d \in Callers : convCall'[d].step \in {"canonical", "rewrite", "sync"} => Claimed(convCall[d].body)'
      <4> SUFFICES ASSUME NEW d \in Callers, convCall'[d].step \in {"canonical", "rewrite", "sync"}
                   PROVE  Claimed(convCall[d].body)'
        OBVIOUS
      <4>1. CASE d = c
        <5>1. convCall'[d].step = step /\ convCall'[d].body = b
          BY <1>t, <2>2, <2>3, <4>1, GoToShape
        <5> QED BY <2>9, <5>1 DEF Claimed
      <4>2. CASE d # c
        <5>1. convCall'[d] = convCall[d]
          BY <1>t, <2>2, <2>3, <4>2, GoToShape
        <5>2. Claimed(convCall[d].body) /\ convCall[d].body \in Conversation
          BY <1>t, <2>1, <5>1 DEF DynamoClaims, CallsWellFormed
        <5>3. claim'[convCall[d].body.key] = claim[convCall[d].body.key]
          BY <2>6, <5>2 DEF Claimed, Conversation
        <5> QED BY <5>1, <5>2, <5>3 DEF Claimed
      <4> QED BY <4>1, <4>2
    <3>2. /\ \A k \in Keys : claimSettled[k] # Nil => claimSettled[k] \in Conversation
          /\ \A i \in ConvIds : conv[i] # Nil => conv[i] \in Conversation
          /\ \A i \in ConvIds : convSettled[i] # Nil => convSettled[i] \in Conversation
          /\ created \subseteq Conversation
      BY <1>t DEF ConvTypeOK
    <3>3. \A a \in Conversation : Claimed(a) => claim'[a.key] # Nil /\ claim'[a.key].id = a.id
      BY <2>8 DEF Claimed
    <3> QED BY <2>1, <2>7, <3>1, <3>2, <3>3 DEF DynamoClaims, Claimed
  <2> QED BY <2>1, <2>5, <2>10 DEF ConvInv
<1> QED BY <1>1, <1>2, <1>3

\* DynamoDB: a step after which every copy of a conversation was claimed before
\* it, and which changes no claim's id, keeps the invariant.
LEMMA CopyKeepsClaims ==
    ASSUME ConvTypeOK, DynamoClaims, ConvTypeOK', CallsWellFormed',
           \A k \in Keys : claim[k] # Nil => claim'[k] # Nil /\ claim'[k].id = claim[k].id,
           \A k \in Keys : claim'[k] # Nil => claim'[k].key = k,
           \A k \in Keys : claimSettled'[k] # Nil => Claimed(claimSettled'[k]),
           \A i \in ConvIds : conv'[i] # Nil => Claimed(conv'[i]),
           \A i \in ConvIds : convSettled'[i] # Nil => Claimed(convSettled'[i]),
           \A b \in created' : Claimed(b),
           \A c \in Callers : convCall'[c].step \in {"canonical", "rewrite", "sync"} =>
             Claimed(convCall'[c].body)
    PROVE  DynamoClaims'
<1>1. ASSUME NEW b \in Conversation, Claimed(b) PROVE claim'[b.key] # Nil /\ claim'[b.key].id = b.id
  BY <1>1 DEF Claimed, Conversation
<1>2. /\ \A k \in Keys : claimSettled'[k] # Nil => claimSettled'[k] \in Conversation
      /\ \A i \in ConvIds : conv'[i] # Nil => conv'[i] \in Conversation
      /\ \A i \in ConvIds : convSettled'[i] # Nil => convSettled'[i] \in Conversation
      /\ created' \subseteq Conversation
  BY DEF ConvTypeOK
<1>3. \A c \in Callers : convCall'[c].step \in {"canonical", "rewrite", "sync"} =>
        convCall'[c].body \in Conversation
  BY DEF CallsWellFormed
<1> QED BY <1>1, <1>2, <1>3 DEF DynamoClaims, Claimed

\* The other steps of create, the updates, the failures and the replication.
LEMMA ConvStepKeepsConvInv ==
    ASSUME ConvInv, UNCHANGED backend, ConvNext
    PROVE  ConvInv'
<1>t. ConvTypeOK /\ CallsWellFormed
  BY DEF ConvInv
<1>c. ASSUME NEW i \in ConvIds, conv[i] # Nil PROVE conv[i] \in Conversation
  BY <1>t, <1>c DEF ConvTypeOK
<1>1. ASSUME NEW c \in Callers, NEW b \in Conversation,
             CreateInMemory(c, b) \/ CreateInsert(c, b) \/ CreateClaim(c, b)
      PROVE  ConvInv'
  BY <1>1, CreateKeepsConvInv
<1>2. ASSUME NEW c \in Callers, CreateSelect(c) PROVE ConvInv'
  <2>1. backend # "dynamo" /\ OneRowPerKey /\ UNCHANGED <<conv, convSettled, claim, claimSettled>> /\ Return(c)
    BY <1>t, <1>2 DEF CreateSelect, InCall, CallsWellFormed, ConvInv
  <2>2. PICK i \in Owners(convCall[c].body.key) : created' = created \cup {conv[i]}
    BY <1>2 DEF CreateSelect
  <2>3. i \in ConvIds /\ conv[i] # Nil /\ conv[i] \in Conversation
    BY <1>c DEF Owners
  <2>4. ConvTypeOK' /\ CallsWellFormed'
    BY <1>t, <2>1, <2>2, <2>3, ReturnShape DEF ConvTypeOK, CallsWellFormed
  <2>5. OneRowPerKey'
    BY <2>1, <2>2, <2>3 DEF OneRowPerKey
  <2> QED BY <2>1, <2>4, <2>5 DEF ConvInv
<1>3. ASSUME NEW c \in Callers, CreateResolve(c) PROVE ConvInv'
  <2> DEFINE k == convCall[c].body.key
  <2>1. backend = "dynamo" /\ DynamoClaims /\ UNCHANGED <<conv, convSettled, claim, claimSettled>> /\ Return(c)
    BY <1>t, <1>3 DEF CreateResolve, InCall, CallsWellFormed, ConvInv
  <2>2. PICK found \in {claim[k], claimSettled[k]} : created' = created \cup ({found} \ {Nil})
    BY <1>3, <2>1 DEF CreateResolve, Reads
  <2>3. k \in Keys
    BY <1>t, <1>3 DEF CreateResolve, InCall, CallsWellFormed, Conversation
  <2>4. found # Nil => found \in Conversation /\ Claimed(found)
    BY <1>t, <2>1, <2>3 DEF ConvTypeOK, DynamoClaims, Claimed
  <2>5. ConvTypeOK' /\ CallsWellFormed'
    BY <1>t, <2>1, <2>2, <2>4, ReturnShape DEF ConvTypeOK, CallsWellFormed
  <2>6. \A d \in Callers : convCall'[d].step \in {"canonical", "rewrite", "sync"} => convCall'[d] = convCall[d]
    BY <1>t, <2>1, ReturnShape
  <2>7. \A b \in created' : Claimed(b)
    BY <2>1, <2>2, <2>4 DEF DynamoClaims
  <2>8. DynamoClaims'
    BY <1>t, <2>1, <2>5, <2>6, <2>7, CopyKeepsClaims DEF DynamoClaims
  <2> QED BY <2>1, <2>5, <2>8 DEF ConvInv
<1>4. ASSUME NEW c \in Callers, CreateCanonical(c) PROVE ConvInv'
  <2> DEFINE b == convCall[c].body
  <2>1. /\ backend = "dynamo" /\ DynamoClaims /\ UNCHANGED <<convSettled, claim, claimSettled>> /\ Return(c)
        /\ conv' = [conv EXCEPT ![b.id] = b] /\ created' = created \cup {b}
    BY <1>t, <1>4 DEF CreateCanonical, InCall, CallsWellFormed, ConvInv
  <2>2. b \in Conversation /\ Claimed(b)
    BY <1>t, <1>4, <2>1 DEF CreateCanonical, InCall, CallsWellFormed, DynamoClaims
  <2>3. ConvTypeOK' /\ CallsWellFormed'
    <3>1. conv' \in [ConvIds -> Conversation \cup {Nil}]
      BY <1>t, <2>1, <2>2 DEF ConvTypeOK
    <3>2. ConvTypeOK'
      BY <1>t, <2>1, <2>2, <3>1, ReturnShape DEF ConvTypeOK
    <3>3. \A d \in Callers : convCall'[d] = convCall[d] \/ convCall'[d].step = "idle"
      BY <1>t, <2>1, ReturnShape
    <3>4. CallsWellFormed'
      BY <1>t, <2>1, <3>3 DEF CallsWellFormed
    <3> QED BY <3>2, <3>4
  <2>4. \A d \in Callers : convCall'[d].step \in {"canonical", "rewrite", "sync"} => convCall'[d] = convCall[d]
    BY <1>t, <2>1, ReturnShape
  <2>5. \A i \in ConvIds : conv'[i] # Nil => Claimed(conv'[i])
    BY <1>t, <2>1, <2>2 DEF ConvTypeOK, DynamoClaims
  <2>6. DynamoClaims'
    BY <1>t, <2>1, <2>2, <2>3, <2>4, <2>5, CopyKeepsClaims DEF DynamoClaims
  <2> QED BY <2>1, <2>3, <2>6 DEF ConvInv
<1>5. ASSUME NEW c \in Callers, NEW i \in ConvIds, NEW n \in Names, UpdateAtOnce(c, i, n) PROVE ConvInv'
  <2>1. /\ backend # "dynamo" /\ OneRowPerKey /\ conv[i] # Nil
        /\ UNCHANGED <<convSettled, claim, claimSettled, convCall, created>>
        /\ conv' = [conv EXCEPT ![i].name = n]
    BY <1>5 DEF UpdateAtOnce, ConvInv
  <2>2. conv[i] \in Conversation
    BY <1>c, <2>1
  <2>3. /\ conv'[i] = [conv[i] EXCEPT !.name = n]
        /\ \A j \in ConvIds : j # i => conv'[j] = conv[j]
        /\ DOMAIN conv' = ConvIds
    BY <1>t, <2>1 DEF ConvTypeOK
  <2>4. conv'[i] \in Conversation /\ conv'[i].id = conv[i].id /\ conv'[i].key = conv[i].key
    BY <2>2, <2>3 DEF Conversation
  <2>5. conv' \in [ConvIds -> Conversation \cup {Nil}]
    BY <1>t, <2>1, <2>3, <2>4 DEF ConvTypeOK
  <2>6. ConvTypeOK' /\ CallsWellFormed'
    BY <1>t, <2>1, <2>5 DEF ConvTypeOK, CallsWellFormed
  <2>7. conv'[i] # Nil
    BY <2>4, ConversationAssumption
  <2>8. \A b \in created : b.id \in ConvIds
    BY <1>t DEF ConvTypeOK, Conversation
  <2>9. OneRowPerKey'
    BY <2>1, <2>3, <2>4, <2>7, <2>8 DEF OneRowPerKey
  <2> QED BY <2>1, <2>6, <2>9 DEF ConvInv
<1>6. ASSUME NEW c \in Callers, NEW i \in ConvIds, NEW n \in Names, UpdateStart(c, i, n) PROVE ConvInv'
  <2>1. /\ backend = "dynamo" /\ DynamoClaims
        /\ UNCHANGED <<conv, convSettled, claim, claimSettled, created>>
        /\ convCall' = [convCall EXCEPT ![c] = [step |-> "read", body |-> Nil, id |-> i, name |-> n]]
    BY <1>6 DEF UpdateStart, ConvInv
  <2>2. ConvTypeOK' /\ CallsWellFormed'
    BY <1>t, <2>1 DEF ConvTypeOK, CallsWellFormed, ConvSteps
  <2>3. \A d \in Callers : convCall'[d].step \in {"canonical", "rewrite", "sync"} => convCall'[d] = convCall[d]
    BY <1>t, <2>1 DEF ConvTypeOK
  <2>4. DynamoClaims'
    BY <1>t, <2>1, <2>2, <2>3, CopyKeepsClaims DEF DynamoClaims
  <2> QED BY <2>1, <2>2, <2>4 DEF ConvInv
<1>7. ASSUME NEW c \in Callers, Return(c), UNCHANGED <<conv, convSettled, claim, claimSettled, created>>
      PROVE  ConvInv'
  <2>1. ConvTypeOK' /\ CallsWellFormed'
    BY <1>t, <1>7, ReturnShape DEF ConvTypeOK, CallsWellFormed
  <2>2. \A d \in Callers : convCall'[d].step \in {"canonical", "rewrite", "sync"} => convCall'[d] = convCall[d]
    BY <1>t, <1>7, ReturnShape
  <2>3. ASSUME DynamoClaims PROVE DynamoClaims'
    BY <1>t, <1>7, <2>1, <2>2, <2>3, CopyKeepsClaims DEF DynamoClaims
  <2>4. ASSUME OneRowPerKey PROVE OneRowPerKey'
    BY <1>7, <2>4 DEF OneRowPerKey
  <2> QED BY <2>1, <2>3, <2>4 DEF ConvInv
<1>8. ASSUME NEW c \in Callers, UpdateRead(c) PROVE ConvInv'
  <2> DEFINE i == convCall[c].id
             n == convCall[c].name
  <2>1. /\ backend = "dynamo" /\ DynamoClaims /\ i \in ConvIds /\ n \in Names
        /\ UNCHANGED <<conv, convSettled, claim, claimSettled, created>>
    BY <1>t, <1>8 DEF UpdateRead, InCall, CallsWellFormed, ConvInv
  <2>2. PICK found \in {conv[i], convSettled[i]} :
          IF found = Nil THEN Return(c) ELSE GoTo(c, "rewrite", [found EXCEPT !.name = n])
    BY <1>8, <2>1 DEF UpdateRead, GetConversation, Reads
  <2>3. CASE found = Nil
    BY <1>7, <2>1, <2>2, <2>3
  <2>4. CASE found # Nil
    <3> DEFINE b == [found EXCEPT !.name = n]
    <3>1. found \in Conversation /\ Claimed(found)
      BY <1>t, <2>1, <2>4 DEF ConvTypeOK, DynamoClaims
    <3>2. b \in Conversation /\ b.key = found.key /\ b.id = found.id
      BY <2>1, <3>1 DEF Conversation
    <3>3. Claimed(b)
      BY <3>1, <3>2 DEF Claimed
    <3>4. GoTo(c, "rewrite", b) /\ "rewrite" \in ConvSteps
      BY <2>2, <2>4 DEF ConvSteps
    <3> HIDE DEF b
    <3>5. ConvTypeOK' /\ CallsWellFormed'
      <4>1. ConvTypeOK'
        BY <1>t, <2>1, <3>2, <3>4, GoToShape DEF ConvTypeOK
      <4>2. \A d \in Callers : \/ convCall'[d] = convCall[d]
                               \/ convCall'[d].step = "rewrite" /\ convCall'[d].body \in Conversation
        BY <1>t, <3>2, <3>4, GoToShape
      <4>3. CallsWellFormed'
        BY <1>t, <2>1, <4>2 DEF CallsWellFormed
      <4> QED BY <4>1, <4>3
    <3>6. \A d \in Callers : \/ convCall'[d] = convCall[d]
                             \/ convCall'[d].body = b
      BY <1>t, <3>2, <3>4, GoToShape
    <3>7. DynamoClaims'
      BY <1>t, <2>1, <3>3, <3>5, <3>6, CopyKeepsClaims DEF DynamoClaims
    <3> QED BY <2>1, <3>5, <3>7 DEF ConvInv
  <2> QED BY <2>3, <2>4
<1>9. ASSUME NEW c \in Callers, UpdateRewrite(c) PROVE ConvInv'
  <2> DEFINE b == convCall[c].body
  <2>1. /\ backend = "dynamo" /\ DynamoClaims /\ UNCHANGED <<convSettled, claim, claimSettled, created>>
        /\ conv' = [conv EXCEPT ![b.id] = b] /\ GoTo(c, "sync", b)
    BY <1>t, <1>9 DEF UpdateRewrite, InCall, CallsWellFormed, ConvInv
  <2>2. b \in Conversation /\ Claimed(b) /\ "sync" \in ConvSteps
    BY <1>t, <1>9, <2>1 DEF UpdateRewrite, InCall, CallsWellFormed, DynamoClaims, ConvSteps
  <2>3. ConvTypeOK' /\ CallsWellFormed'
    <3>1. conv' \in [ConvIds -> Conversation \cup {Nil}]
      BY <1>t, <2>1, <2>2 DEF ConvTypeOK
    <3>2. ConvTypeOK'
      BY <1>t, <2>1, <2>2, <3>1, GoToShape DEF ConvTypeOK
    <3>3. \A d \in Callers : \/ convCall'[d] = convCall[d]
                             \/ convCall'[d].step = "sync" /\ convCall'[d].body \in Conversation
      BY <1>t, <2>1, <2>2, GoToShape
    <3>4. CallsWellFormed'
      BY <1>t, <2>1, <3>3 DEF CallsWellFormed
    <3> QED BY <3>2, <3>4
  <2>4. \A d \in Callers : convCall'[d] = convCall[d] \/ convCall'[d].body = b
    BY <1>t, <2>1, <2>2, GoToShape
  <2>5. \A i \in ConvIds : conv'[i] # Nil => Claimed(conv'[i])
    BY <1>t, <2>1, <2>2 DEF ConvTypeOK, DynamoClaims
  <2>6. DynamoClaims'
    BY <1>t, <2>1, <2>2, <2>3, <2>4, <2>5, CopyKeepsClaims DEF DynamoClaims
  <2> QED BY <2>1, <2>3, <2>6 DEF ConvInv
<1>10. ASSUME NEW c \in Callers, UpdateSync(c) PROVE ConvInv'
  <2> DEFINE b == convCall[c].body
  <2>1. /\ backend = "dynamo" /\ DynamoClaims /\ UNCHANGED <<conv, convSettled, claimSettled, created>>
        /\ claim' = [claim EXCEPT ![b.key] = b] /\ Return(c)
    BY <1>t, <1>10 DEF UpdateSync, InCall, CallsWellFormed, ConvInv
  <2>2. b \in Conversation /\ b.key \in Keys /\ Claimed(b) /\ b # Nil
    BY <1>t, <1>10, <2>1, ConversationAssumption
       DEF UpdateSync, InCall, CallsWellFormed, DynamoClaims, Conversation
  <2>3. ConvTypeOK' /\ CallsWellFormed'
    BY <1>t, <2>1, <2>2, ReturnShape DEF ConvTypeOK, CallsWellFormed
  <2>4. \A d \in Callers : convCall'[d].step \in {"canonical", "rewrite", "sync"} => convCall'[d] = convCall[d]
    BY <1>t, <2>1, ReturnShape
  <2>5. /\ \A k \in Keys : claim[k] # Nil => claim'[k] # Nil /\ claim'[k].id = claim[k].id
        /\ \A k \in Keys : claim'[k] # Nil => claim'[k].key = k
    BY <1>t, <2>1, <2>2 DEF ConvTypeOK, DynamoClaims, Claimed
  <2>6. DynamoClaims'
    BY <1>t, <2>1, <2>3, <2>4, <2>5, CopyKeepsClaims DEF DynamoClaims
  <2> QED BY <2>1, <2>3, <2>6 DEF ConvInv
<1>11. ASSUME NEW c \in Callers, ConvCallFails(c) PROVE ConvInv'
  BY <1>7, <1>11 DEF ConvCallFails
<1>12. ASSUME NEW i \in ConvIds, ConvSettle(i) PROVE ConvInv'
  <2>1. /\ backend = "dynamo" /\ DynamoClaims /\ UNCHANGED <<conv, claim, claimSettled, convCall, created>>
        /\ convSettled' = [convSettled EXCEPT ![i] = conv[i]]
    BY <1>12 DEF ConvSettle, ConvInv
  <2>2. ConvTypeOK' /\ CallsWellFormed'
    BY <1>t, <2>1 DEF ConvTypeOK, CallsWellFormed
  <2>3. \A j \in ConvIds : convSettled'[j] # Nil => Claimed(convSettled'[j])
    BY <1>t, <2>1 DEF ConvTypeOK, DynamoClaims
  <2>4. DynamoClaims'
    BY <1>t, <2>1, <2>2, <2>3, CopyKeepsClaims DEF DynamoClaims
  <2> QED BY <2>1, <2>2, <2>4 DEF ConvInv
<1>13. ASSUME NEW k \in Keys, ClaimSettle(k) PROVE ConvInv'
  <2>1. /\ backend = "dynamo" /\ DynamoClaims /\ UNCHANGED <<conv, convSettled, claim, convCall, created>>
        /\ claimSettled' = [claimSettled EXCEPT ![k] = claim[k]]
    BY <1>13 DEF ClaimSettle, ConvInv
  <2>2. ConvTypeOK' /\ CallsWellFormed'
    BY <1>t, <2>1 DEF ConvTypeOK, CallsWellFormed
  <2>3. \A j \in Keys : claimSettled'[j] # Nil => Claimed(claimSettled'[j])
    BY <1>t, <2>1 DEF ConvTypeOK, DynamoClaims, Claimed
  <2>4. DynamoClaims'
    BY <1>t, <2>1, <2>2, <2>3, CopyKeepsClaims DEF DynamoClaims
  <2> QED BY <2>1, <2>2, <2>4 DEF ConvInv
<1> QED BY <1>1, <1>2, <1>3, <1>4, <1>5, <1>6, <1>8, <1>9, <1>10, <1>11, <1>12, <1>13 DEF ConvNext

\* The invariant of the conversations gives what the run checks.
LEMMA ConvInvGivesOneConversation == ConvInv => OneConversationPerKey
<1> SUFFICES ASSUME ConvInv PROVE OneConversationPerKey
  OBVIOUS
<1> DEFINE rows == created \cup {conv[i] : i \in ConvIds} \cup {claim[k] : k \in Keys}
<1>1. CASE backend = "dynamo"
  <2>1. ConvTypeOK /\ DynamoClaims
    BY <1>1 DEF ConvInv
  <2>2. \A a \in rows \ {Nil} : Claimed(a)
    BY <2>1 DEF ConvTypeOK, DynamoClaims, Claimed
  <2>3. \A a, b \in rows \ {Nil} : a.key = b.key => a.id = b.id
    BY <2>2 DEF Claimed
  <2> QED BY <1>1, <2>3 DEF OneConversationPerKey
<1>2. CASE backend # "dynamo"
  <2>1. ConvTypeOK /\ OneRowPerKey
    BY <1>2 DEF ConvInv
  <2>2. \A a \in rows \ {Nil} : a.id \in ConvIds /\ conv[a.id] # Nil /\ conv[a.id].key = a.key
    <3> SUFFICES ASSUME NEW a \in rows, a # Nil
                 PROVE  a.id \in ConvIds /\ conv[a.id] # Nil /\ conv[a.id].key = a.key
      OBVIOUS
    <3>1. CASE a \in created
      BY <2>1, <3>1 DEF ConvTypeOK, Conversation, OneRowPerKey
    <3>2. CASE a \in {conv[i] : i \in ConvIds}
      BY <2>1, <3>2 DEF OneRowPerKey
    <3>3. CASE a \in {claim[k] : k \in Keys}
      BY <2>1, <3>3 DEF OneRowPerKey
    <3> QED BY <3>1, <3>2, <3>3
  <2>3. \A a, b \in rows \ {Nil} : a.key = b.key => a.id = b.id
    BY <2>1, <2>2 DEF OneRowPerKey
  <2>4. \A b \in created : conv[b.id] # Nil
    BY <2>1 DEF OneRowPerKey
  <2> QED BY <2>3, <2>4 DEF OneConversationPerKey
<1> QED BY <1>1, <1>2

-----------------------------------------------------------------------------
(* Messages *)

WalkFields == {"state", "descending", "cursor", "read", "due"}

\* The shape of the log, and of the appends that have drawn a number.
LogShape ==
    /\ LogTypeOK
    /\ DOMAIN append = Callers
    /\ DOMAIN walk = Walkers
    /\ \A w \in Walkers : walk[w] = [f \in WalkFields |-> walk[w][f]]
    /\ \A c \in Callers : append[c] # NoAppend => append[c] \in [msg : MsgIds, seq : 1 .. counter]

\* A message is appended once; what had returned before it began is stored.
OneAppendPerMessage ==
    /\ \A c \in Callers : append[c] # NoAppend => seqOf[append[c].msg] = 0
    /\ \A c, d \in Callers :
         (c # d /\ append[c] # NoAppend /\ append[d] # NoAppend) => append[c].msg # append[d].msg

EarlierAreStored == \A m \in MsgIds : earlier[m] \subseteq Stored

\* The number drawn is later than those of all the messages stored before.
DrawnInOrder ==
    \A c \in Callers : append[c] # NoAppend =>
        \A e \in earlier[append[c].msg] : seqOf[e] < append[c].seq

NumbersAreDrawn == \A m \in MsgIds : seqOf[m] <= counter

LogInv ==
    /\ LogShape
    /\ OneAppendPerMessage
    /\ EarlierAreStored
    /\ DrawnInOrder
    /\ NumbersAreDrawn
    /\ AppendsInOrder


\* A number is drawn for a message that has none: it is greater than those of
\* all messages stored so far.
LEMMA DrawKeepsLogInv ==
    ASSUME LogInv, NEW c \in Callers, NEW m \in MsgIds, AppendDraw(c, m)
    PROVE  LogInv'
<1> USE LogAssumption
<1>t. LogShape /\ LogTypeOK /\ OneAppendPerMessage /\ EarlierAreStored /\ DrawnInOrder /\ NumbersAreDrawn /\ AppendsInOrder
  BY DEF LogInv, LogShape
<1>1. /\ append[c] = NoAppend /\ seqOf[m] = 0 /\ counter < MaxDraws
      /\ \A d \in Callers : append[d].msg # m
      /\ counter' = counter + 1
      /\ append' = [append EXCEPT ![c] = [msg |-> m, seq |-> counter + 1]]
      /\ earlier' = [earlier EXCEPT ![m] = Stored]
      /\ UNCHANGED <<seqOf, msgSettled, walk>>
  BY DEF AppendDraw, Unused
<1>2. /\ append'[c] = [msg |-> m, seq |-> counter + 1]
      /\ \A d \in Callers : d # c => append'[d] = append[d]
      /\ DOMAIN append' = Callers
  BY <1>t, <1>1 DEF LogShape
<1>3. /\ counter \in Nat /\ counter' \in 1 .. MaxDraws /\ Stored' = Stored /\ Stored \subseteq MsgIds
      /\ \A x \in MsgIds : seqOf[x] \in Nat /\ seqOf[x] <= counter
  BY <1>t, <1>1 DEF LogTypeOK, NumbersAreDrawn, Stored
<1>4. /\ earlier'[m] = Stored /\ \A x \in MsgIds : x # m => earlier'[x] = earlier[x]
      /\ earlier' \in [MsgIds -> SUBSET MsgIds]
  BY <1>t, <1>1, <1>3 DEF LogTypeOK
<1>5. append'[c] # NoAppend /\ append'[c] \in [msg : MsgIds, seq : 1 .. counter']
  BY <1>1, <1>2, <1>3 DEF NoAppend
<1>6. \A d \in Callers : append'[d] # NoAppend => append'[d] \in [msg : MsgIds, seq : 1 .. counter']
  <2>1. 1 .. counter \subseteq 1 .. counter'
    BY <1>1, <1>3
  <2> QED BY <1>t, <1>2, <1>5, <2>1 DEF LogShape
<1>7. LogTypeOK'
  <2>1. \A d \in Callers : append'[d] = NoAppend \/ (append'[d].msg \in MsgIds /\ append'[d].seq \in 1 .. counter')
    BY <1>6
  <2>2. counter' \in 0 .. MaxDraws /\ seqOf' \in [MsgIds -> 0 .. MaxDraws] /\ msgSettled' \subseteq Stored'
    BY <1>t, <1>1, <1>3 DEF LogTypeOK
  <2> QED BY <1>t, <1>1, <1>4, <2>1, <2>2 DEF LogTypeOK, NoAppend
<1>8. LogShape'
  BY <1>t, <1>1, <1>2, <1>6, <1>7 DEF LogShape, NoAppend, WalkFields
<1>9. OneAppendPerMessage'
  <2>1. \A d \in Callers : append'[d] # NoAppend => seqOf'[append'[d].msg] = 0
    BY <1>t, <1>1, <1>2 DEF OneAppendPerMessage
  <2>2. \A d \in Callers : d # c => append'[d].msg # append'[c].msg
    BY <1>1, <1>2
  <2> QED BY <1>t, <1>2, <2>1, <2>2 DEF OneAppendPerMessage, NoAppend
<1>10. EarlierAreStored'
  BY <1>t, <1>3, <1>4 DEF EarlierAreStored
<1>11. DrawnInOrder'
  <2> SUFFICES ASSUME NEW d \in Callers, append'[d] # NoAppend, NEW e \in earlier'[append'[d].msg]
               PROVE  seqOf[e] < append'[d].seq
    BY <1>1 DEF DrawnInOrder, NoAppend
  <2>1. CASE d = c
    BY <1>2, <1>3, <1>4, <2>1
  <2>2. CASE d # c
    <3>1. append'[d] = append[d] /\ append[d].msg # m /\ append[d].msg \in MsgIds
      BY <1>t, <1>1, <1>2, <2>2 DEF LogShape
    <3> QED BY <1>t, <1>4, <3>1 DEF DrawnInOrder
  <2> QED BY <2>1, <2>2
<1>12. NumbersAreDrawn'
  BY <1>1, <1>3 DEF NumbersAreDrawn
<1>13. AppendsInOrder'
  <2>1. \A x \in Stored : x # m /\ x \in MsgIds
    BY <1>1 DEF Stored
  <2> QED BY <1>t, <1>1, <1>3, <1>4, <2>1 DEF AppendsInOrder
<1> QED BY <1>8, <1>9, <1>10, <1>11, <1>12, <1>13 DEF LogInv

\* In memory the number is drawn and the message stored in one step.
LEMMA AppendInMemoryKeepsLogInv ==
    ASSUME LogInv, NEW c \in Callers, NEW m \in MsgIds, AppendInMemory(c, m)
    PROVE  LogInv'
<1> USE LogAssumption
<1>t. LogShape /\ LogTypeOK /\ OneAppendPerMessage /\ EarlierAreStored /\ DrawnInOrder /\ NumbersAreDrawn /\ AppendsInOrder
  BY DEF LogInv, LogShape
<1>1. /\ seqOf[m] = 0 /\ counter < MaxDraws
      /\ \A d \in Callers : append[d].msg # m
      /\ counter' = counter + 1
      /\ seqOf' = [seqOf EXCEPT ![m] = counter + 1]
      /\ earlier' = [earlier EXCEPT ![m] = Stored]
      /\ UNCHANGED <<msgSettled, append, walk>>
  BY DEF AppendInMemory, Unused
<1>2. /\ counter \in Nat /\ counter' \in 1 .. MaxDraws /\ Stored \subseteq MsgIds /\ m \notin Stored
      /\ \A x \in MsgIds : seqOf[x] \in Nat /\ seqOf[x] <= counter
      /\ seqOf'[m] = counter + 1 /\ \A x \in MsgIds : x # m => seqOf'[x] = seqOf[x]
  BY <1>t, <1>1 DEF LogTypeOK, NumbersAreDrawn, Stored
<1>3. Stored' = Stored \cup {m}
  BY <1>2 DEF Stored
<1>4. /\ earlier'[m] = Stored /\ \A x \in MsgIds : x # m => earlier'[x] = earlier[x]
      /\ earlier' \in [MsgIds -> SUBSET MsgIds]
  BY <1>t, <1>1, <1>2 DEF LogTypeOK
<1>5. \A d \in Callers : append[d] # NoAppend => append[d] \in [msg : MsgIds, seq : 1 .. counter']
  <2>1. 1 .. counter \subseteq 1 .. counter'
    BY <1>1, <1>2
  <2> QED BY <1>t, <2>1 DEF LogShape
<1>6. LogTypeOK'
  <2>1. \A d \in Callers : append'[d] = NoAppend \/ (append'[d].msg \in MsgIds /\ append'[d].seq \in 1 .. counter')
    BY <1>1, <1>5
  <2>2. counter' \in 0 .. MaxDraws /\ seqOf' \in [MsgIds -> 0 .. MaxDraws] /\ msgSettled' \subseteq Stored'
    BY <1>t, <1>1, <1>2, <1>3 DEF LogTypeOK
  <2> QED BY <1>t, <1>1, <1>4, <2>1, <2>2 DEF LogTypeOK, NoAppend
<1>7. LogShape'
  BY <1>t, <1>1, <1>5, <1>6 DEF LogShape, NoAppend, WalkFields
<1>8. OneAppendPerMessage'
  BY <1>t, <1>1, <1>2 DEF OneAppendPerMessage, NoAppend, LogShape
<1>9. EarlierAreStored'
  BY <1>t, <1>3, <1>4 DEF EarlierAreStored
<1>10. DrawnInOrder'
  <2> SUFFICES ASSUME NEW d \in Callers, append[d] # NoAppend, NEW e \in earlier'[append[d].msg]
               PROVE  seqOf'[e] < append[d].seq
    BY <1>1 DEF DrawnInOrder, NoAppend
  <2>1. append[d].msg # m /\ append[d].msg \in MsgIds
    BY <1>t, <1>1 DEF LogShape
  <2>2. e \in earlier[append[d].msg] /\ e \in Stored
    BY <1>t, <1>4, <2>1 DEF EarlierAreStored
  <2> QED BY <1>t, <1>2, <2>1, <2>2 DEF DrawnInOrder
<1>11. NumbersAreDrawn'
  BY <1>1, <1>2 DEF NumbersAreDrawn
<1>12. AppendsInOrder'
  <2> SUFFICES ASSUME NEW x \in Stored', NEW e \in earlier'[x] PROVE seqOf'[e] < seqOf'[x]
    BY DEF AppendsInOrder
  <2>1. CASE x = m
    BY <1>2, <1>4, <2>1
  <2>2. CASE x # m
    <3>1. x \in Stored /\ x \in MsgIds /\ e \in earlier[x] /\ e \in Stored
      BY <1>t, <1>2, <1>3, <1>4, <2>2 DEF EarlierAreStored
    <3> QED BY <1>t, <1>2, <2>2, <3>1 DEF AppendsInOrder
  <2> QED BY <2>1, <2>2
<1> QED BY <1>7, <1>8, <1>9, <1>10, <1>11, <1>12 DEF LogInv

\* The message of a drawn number becomes visible: whatever became visible in
\* the meantime is not among the appends that had returned before.
LEMMA StoreKeepsLogInv ==
    ASSUME LogInv, NEW c \in Callers, AppendStore(c)
    PROVE  LogInv'
<1> USE LogAssumption
<1> DEFINE m == append[c].msg
<1>t. LogShape /\ LogTypeOK /\ OneAppendPerMessage /\ EarlierAreStored /\ DrawnInOrder /\ NumbersAreDrawn /\ AppendsInOrder
  BY DEF LogInv, LogShape
<1>1. /\ append[c] # NoAppend
      /\ seqOf' = [seqOf EXCEPT ![m] = append[c].seq]
      /\ append' = [append EXCEPT ![c] = NoAppend]
      /\ UNCHANGED <<counter, msgSettled, earlier, walk>>
  BY DEF AppendStore
<1>2. m \in MsgIds /\ append[c].seq \in 1 .. counter /\ seqOf[m] = 0 /\ counter \in 0 .. MaxDraws
  BY <1>t, <1>1 DEF LogShape, OneAppendPerMessage, LogTypeOK
<1>3. /\ seqOf'[m] = append[c].seq /\ \A x \in MsgIds : x # m => seqOf'[x] = seqOf[x]
      /\ \A x \in MsgIds : seqOf[x] \in Nat /\ seqOf[x] <= counter
      /\ Stored \subseteq MsgIds /\ m \notin Stored
  BY <1>t, <1>1, <1>2 DEF LogTypeOK, NumbersAreDrawn, Stored
<1>4. Stored' = Stored \cup {m}
  BY <1>2, <1>3 DEF Stored
<1>5. append'[c] = NoAppend /\ \A d \in Callers : d # c => append'[d] = append[d] /\ DOMAIN append' = Callers
  BY <1>t, <1>1 DEF LogShape
<1>6. LogTypeOK'
  <2>1. seqOf' \in [MsgIds -> 0 .. MaxDraws]
    BY <1>t, <1>1, <1>2 DEF LogTypeOK
  <2>2. \A d \in Callers : append'[d] = NoAppend \/ (append'[d].msg \in MsgIds /\ append'[d].seq \in 1 .. counter')
    BY <1>t, <1>1, <1>5 DEF LogTypeOK
  <2> QED BY <1>t, <1>1, <1>4, <2>1, <2>2 DEF LogTypeOK, NoAppend
<1>7. LogShape'
  <2>1. \A d \in Callers : append'[d] # NoAppend => append'[d] \in [msg : MsgIds, seq : 1 .. counter']
    BY <1>t, <1>1, <1>5 DEF LogShape
  <2>2. DOMAIN append' = Callers
    BY <1>t, <1>1 DEF LogShape
  <2> QED BY <1>t, <1>1, <1>6, <2>1, <2>2 DEF LogShape, NoAppend, WalkFields
<1>8. OneAppendPerMessage'
  <2>1. ASSUME NEW d \in Callers, append'[d] # NoAppend PROVE append'[d] = append[d] /\ d # c
    BY <1>5, <2>1
  <2>2. ASSUME NEW d \in Callers, append'[d] # NoAppend PROVE seqOf'[append'[d].msg] = 0
    <3>1. append'[d] = append[d] /\ d # c
      BY <2>1, <2>2
    <3>2. append[d].msg # m /\ append[d].msg \in MsgIds /\ seqOf[append[d].msg] = 0
      BY <1>t, <1>1, <2>2, <3>1 DEF OneAppendPerMessage, LogShape
    <3> QED BY <1>3, <3>1, <3>2
  <2> QED BY <1>t, <2>1, <2>2 DEF OneAppendPerMessage, NoAppend
<1>9. EarlierAreStored'
  BY <1>t, <1>1, <1>4 DEF EarlierAreStored
<1>10. DrawnInOrder'
  <2> SUFFICES ASSUME NEW d \in Callers, append'[d] # NoAppend, NEW e \in earlier[append'[d].msg]
               PROVE  seqOf'[e] < append'[d].seq
    BY <1>1 DEF DrawnInOrder, NoAppend
  <2>1. append'[d] = append[d] /\ append[d].msg \in MsgIds
    BY <1>t, <1>5 DEF LogShape
  <2>2. e \in Stored /\ seqOf[e] < append[d].seq
    BY <1>t, <2>1 DEF EarlierAreStored, DrawnInOrder
  <2> QED BY <1>3, <2>1, <2>2
<1>11. NumbersAreDrawn'
  BY <1>1, <1>2, <1>3 DEF NumbersAreDrawn
<1>12. AppendsInOrder'
  <2> SUFFICES ASSUME NEW x \in Stored', NEW e \in earlier[x] PROVE seqOf'[e] < seqOf'[x]
    BY <1>1 DEF AppendsInOrder
  <2>1. x \in MsgIds /\ e \in Stored /\ e # m
    BY <1>t, <1>2, <1>3, <1>4 DEF EarlierAreStored
  <2>2. CASE x = m
    BY <1>t, <1>1, <1>3, <2>1, <2>2 DEF DrawnInOrder
  <2>3. CASE x # m
    BY <1>t, <1>3, <1>4, <2>1, <2>3 DEF AppendsInOrder
  <2> QED BY <2>2, <2>3
<1> QED BY <1>7, <1>8, <1>9, <1>10, <1>11, <1>12 DEF LogInv

\* Every step of the message slice keeps the invariant of the log.
LEMMA LogStepKeepsLogInv ==
    ASSUME LogInv, LogNext
    PROVE  LogInv'
<1>t. LogShape /\ LogTypeOK /\ OneAppendPerMessage /\ EarlierAreStored /\ DrawnInOrder /\ NumbersAreDrawn /\ AppendsInOrder
  BY DEF LogInv, LogShape
<1>1. ASSUME NEW c \in Callers, NEW m \in MsgIds, AppendInMemory(c, m) \/ AppendDraw(c, m) PROVE LogInv'
  BY <1>1, AppendInMemoryKeepsLogInv, DrawKeepsLogInv
<1>2. ASSUME NEW c \in Callers, AppendStore(c) PROVE LogInv'
  BY <1>2, StoreKeepsLogInv
<1>3. ASSUME NEW c \in Callers, AppendFails(c) PROVE LogInv'
  <2>1. /\ append' = [append EXCEPT ![c] = NoAppend] /\ UNCHANGED <<seqOf, counter, msgSettled, earlier, walk>>
        /\ Stored' = Stored
    BY <1>3 DEF AppendFails, Stored
  <2>2. /\ DOMAIN append' = Callers
        /\ \A d \in Callers : append'[d] # NoAppend => append'[d] = append[d]
    BY <1>t, <2>1 DEF LogShape
  <2>3. LogTypeOK'
    BY <1>t, <2>1, <2>2 DEF LogTypeOK, NoAppend
  <2>4. LogShape'
    BY <1>t, <2>1, <2>2, <2>3 DEF LogShape, NoAppend, WalkFields
  <2>5. OneAppendPerMessage' /\ DrawnInOrder'
    BY <1>t, <2>1, <2>2 DEF OneAppendPerMessage, DrawnInOrder, NoAppend
  <2>6. EarlierAreStored' /\ NumbersAreDrawn' /\ AppendsInOrder'
    BY <1>t, <2>1 DEF EarlierAreStored, NumbersAreDrawn, AppendsInOrder
  <2> QED BY <2>4, <2>5, <2>6 DEF LogInv
<1>4. ASSUME UNCHANGED <<seqOf, counter, append, earlier>>, msgSettled' \subseteq Stored,
             DOMAIN walk' = Walkers, \A w \in Walkers : walk'[w] = [f \in WalkFields |-> walk'[w][f]],
             \A w \in Walkers : walk'[w].state \in {"idle", "on", "over", "error"}
      PROVE  LogInv'
  <2>1. Stored' = Stored
    BY <1>4 DEF Stored
  <2>2. LogTypeOK'
    BY <1>t, <1>4, <2>1 DEF LogTypeOK, NoAppend
  <2>3. LogShape'
    BY <1>t, <1>4, <2>2 DEF LogShape, NoAppend, WalkFields
  <2>4. OneAppendPerMessage' /\ DrawnInOrder' /\ EarlierAreStored' /\ NumbersAreDrawn' /\ AppendsInOrder'
    BY <1>t, <1>4, <2>1 DEF OneAppendPerMessage, DrawnInOrder, NoAppend, EarlierAreStored, NumbersAreDrawn, AppendsInOrder
  <2> QED BY <2>3, <2>4 DEF LogInv
<1>5. ASSUME NEW m \in MsgIds, MsgSettle(m) PROVE LogInv'
  <2>1. UNCHANGED <<seqOf, counter, append, earlier, walk>> /\ msgSettled' \subseteq Stored
    BY <1>t, <1>5 DEF MsgSettle, LogTypeOK
  <2> QED BY <1>t, <1>4, <2>1 DEF LogShape, LogTypeOK
<1>6. ASSUME NEW w \in Walkers, NEW descending \in BOOLEAN, NEW cursor, WalkStart(w, descending, cursor) PROVE LogInv'
  <2> DEFINE started == [state |-> "on", descending |-> descending, cursor |-> cursor, read |-> <<>>,
                         due |-> IF backend = "dynamo" THEN msgSettled ELSE Stored]
  <2>1. UNCHANGED <<seqOf, counter, append, earlier, msgSettled>> /\ walk' = [walk EXCEPT ![w] = started]
    BY <1>6 DEF WalkStart
  <2>2. started = [f \in WalkFields |-> started[f]] /\ started.state = "on"
    BY DEF WalkFields
  <2> HIDE DEF started
  <2>3. DOMAIN walk' = Walkers /\ walk'[w] = started /\ \A v \in Walkers : v # w => walk'[v] = walk[v]
    BY <1>t, <2>1 DEF LogShape
  <2> QED BY <1>t, <1>4, <2>1, <2>2, <2>3 DEF LogShape, LogTypeOK
<1>7. ASSUME NEW w \in Walkers, WalkPage(w) PROVE LogInv'
  <2>1. PICK index, S \in Visible :
           LET page == ListMessages(index, S, walk[w].cursor, walk[w].descending)
           IN walk' = [walk EXCEPT
                ![w].read = @ \o page.items,
                ![w].cursor = page.next,
                ![w].state = CASE page.status # NoError -> "error"
                               [] page.status = NoError /\ page.next = Nil -> "over"
                               [] OTHER -> "on"]
    BY <1>7 DEF WalkPage
  <2> DEFINE page == ListMessages(index, S, walk[w].cursor, walk[w].descending)
             state == CASE page.status # NoError -> "error"
                        [] page.status = NoError /\ page.next = Nil -> "over"
                        [] OTHER -> "on"
             row == [walk[w] EXCEPT !.read = @ \o page.items, !.cursor = page.next, !.state = state]
  <2>2. /\ DOMAIN walk' = Walkers /\ \A v \in Walkers : v # w => walk'[v] = walk[v]
        /\ walk'[w] = [f \in WalkFields |-> walk'[w][f]]
        /\ walk'[w].state \in {"idle", "on", "over", "error"}
    <3>1. DOMAIN walk = Walkers /\ walk[w] = [f \in WalkFields |-> walk[w][f]]
      BY <1>t DEF LogShape
    <3>2. walk' = [walk EXCEPT ![w] = row]
      BY <2>1, <3>1
    <3>3. state \in {"error", "over", "on"}
      OBVIOUS
    <3> HIDE DEF page, state
    <3>4. row = [f \in WalkFields |-> row[f]] /\ row.state = state
      BY <3>1 DEF WalkFields
    <3> HIDE DEF row
    <3> QED BY <3>1, <3>2, <3>3, <3>4
  <2>3. UNCHANGED <<seqOf, counter, append, earlier, msgSettled>>
    BY <1>7 DEF WalkPage
  <2> QED BY <1>t, <1>4, <2>2, <2>3 DEF LogShape, LogTypeOK
<1> QED BY <1>1, <1>2, <1>3, <1>5, <1>6, <1>7 DEF LogNext

-----------------------------------------------------------------------------
(* Sorting *)

Less == {p \in Nat \X Nat : p[1] < p[2]}

\* A non-empty set of numbers has a least element.
LEMMA LeastNumber ==
    ASSUME NEW T \in SUBSET Nat, T # {}
    PROVE  \E n \in T : \A m \in T : n <= m
<1>1. IsWellFoundedOn(Less, Nat)
  <2>1. Less = OpToRel(<, Nat)
    BY Zenon DEF OpToRel, Less
  <2> QED BY <2>1, NatLessThanWellFounded, Zenon
<1>2. PICK n \in T : \A m \in T : ~(<<m, n>> \in Less)
  BY <1>1, WFMin, Zenon
<1>3. \A m \in T : ~(m < n)
  BY <1>2 DEF Less
<1> QED BY <1>3

\* s lists the elements of R by their keys.
Lists(s, R, key) ==
    /\ s \in [1 .. Cardinality(R) -> R]
    /\ ToSet(s) = R
    /\ \A i, j \in 1 .. Cardinality(R) : i < j => key[s[i]] < key[s[j]]

\* An element with a key above all others goes to the end of a list.
LEMMA ListsOneMore ==
    ASSUME NEW R, NEW x, x \notin R, IsFiniteSet(R), NEW key, \A y \in R \cup {x} : key[y] \in Nat,
           \A y \in R : key[y] < key[x], NEW s, Lists(s, R, key)
    PROVE  IsFiniteSet(R \cup {x}) /\ \E t : Lists(t, R \cup {x}, key)
<1> DEFINE n == Cardinality(R)
           t == [i \in 1 .. n + 1 |-> IF i = n + 1 THEN x ELSE s[i]]
<1>1. IsFiniteSet(R \cup {x}) /\ Cardinality(R \cup {x}) = n + 1 /\ n \in Nat
  BY FS_AddElement, FS_CardinalityType
<1> HIDE DEF n
<1>2. /\ s \in [1 .. n -> R] /\ ToSet(s) = R
      /\ \A i, j \in 1 .. n : i < j => key[s[i]] < key[s[j]]
  BY DEF Lists, n
<1>3. t[n + 1] = x /\ \A i \in 1 .. n : t[i] = s[i] /\ s[i] \in R
  BY <1>1, <1>2
<1>4. t \in [1 .. n + 1 -> R \cup {x}]
  BY <1>1, <1>2
<1>5. ToSet(t) = R \cup {x}
  <2>1. \A y \in R : \E i \in 1 .. n : s[i] = y
    BY <1>2 DEF ToSet
  <2>2. \A i \in 1 .. n : i \in 1 .. n + 1
    BY <1>1
  <2>3. n + 1 \in 1 .. n + 1 /\ DOMAIN t = 1 .. n + 1
    BY <1>1
  <2>4. \A i \in 1 .. n + 1 : i = n + 1 \/ i \in 1 .. n
    BY <1>1
  <2> HIDE DEF t
  <2>5. ToSet(t) = {t[i] : i \in 1 .. n + 1}
    BY <2>3 DEF ToSet
  <2>6. \A y \in R \cup {x} : \E i \in 1 .. n + 1 : t[i] = y
    BY <1>3, <2>1, <2>2, <2>3
  <2>7. \A i \in 1 .. n + 1 : t[i] \in R \cup {x}
    BY <1>3, <2>4
  <2> QED BY <2>5, <2>6, <2>7
<1>6. ASSUME NEW i \in 1 .. n + 1, NEW j \in 1 .. n + 1, i < j PROVE key[t[i]] < key[t[j]]
  <2>1. i \in 1 .. n
    BY <1>1, <1>6
  <2>2. CASE j = n + 1
    BY <1>3, <2>1, <2>2
  <2>3. CASE j # n + 1
    <3>1. j \in 1 .. n
      BY <1>1, <2>3
    <3> QED BY <1>2, <1>3, <1>6, <2>1, <3>1
  <2> QED BY <2>2, <2>3
<1> HIDE DEF t
<1>7. Lists(t, R \cup {x}, key)
  BY <1>1, <1>4, <1>5, <1>6 DEF Lists
<1> QED BY <1>1, <1>7

\* A set whose elements have keys of their own, up to a bound, can be listed.
LEMMA ListExists ==
    ASSUME NEW B \in Nat, NEW S, NEW key, \A x \in S : key[x] \in 1 .. B,
           \A x, y \in S : key[x] = key[y] => x = y
    PROVE  IsFiniteSet(S) /\ \E s : Lists(s, S, key)
<1> DEFINE Listed(R) == IsFiniteSet(R) /\ \E s : Lists(s, R, key)
           T == {b \in Nat : \E R \in SUBSET S : (\A x \in R : key[x] <= b) /\ ~Listed(R)}
<1>1. ASSUME NEW b \in T, \A m \in T : b <= m PROVE FALSE
  <2>1. PICK R \in SUBSET S : (\A x \in R : key[x] <= b) /\ ~Listed(R)
    OBVIOUS
  <2>2. CASE R = {}
    <3>1. IsFiniteSet({}) /\ Cardinality({}) = 0
      BY FS_EmptySet
    <3>2. Lists(<<>>, {}, key)
      <4>1. <<>> \in [1 .. 0 -> {}] /\ DOMAIN <<>> = {} /\ 1 .. 0 = {}
        OBVIOUS
      <4> QED BY <3>1, <4>1 DEF Lists, ToSet
    <3> QED BY <2>1, <2>2, <3>1, <3>2
  <2>3. CASE R # {}
    <3>1. b \in Nat /\ b - 1 \in Nat
      BY <2>1, <2>3
    <3>2. b - 1 \notin T
      BY <1>1, <3>1
    <3>3. \A Q \in SUBSET S : (\A x \in Q : key[x] <= b - 1) => Listed(Q)
      BY <3>1, <3>2
    <3>4. PICK x \in R : key[x] = b
      <4>1. SUFFICES ASSUME \A x \in R : key[x] # b PROVE FALSE
        OBVIOUS
      <4>2. \A x \in R : key[x] <= b - 1
        BY <2>1, <3>1, <4>1
      <4> QED BY <2>1, <3>3, <4>2
    <3> DEFINE Q == R \ {x}
    <3>5. \A y \in Q : key[y] < key[x] /\ key[y] <= b - 1
      BY <2>1, <3>1, <3>4
    <3>6. Listed(Q)
      BY <3>3, <3>5
    <3>7. PICK s : Lists(s, Q, key)
      BY <3>6
    <3>8. R = Q \cup {x} /\ x \notin Q /\ \A y \in R : key[y] \in Nat
      BY <3>4
    <3> HIDE DEF Q
    <3>9. Listed(R)
      BY <3>5, <3>6, <3>7, <3>8, ListsOneMore
    <3> QED BY <2>1, <3>9
  <2> QED BY <2>2, <2>3
<1>2. T = {}
  <2>1. T \in SUBSET Nat
    OBVIOUS
  <2> HIDE DEF T
  <2> QED BY <1>1, <2>1, LeastNumber
<1>3. \A x \in S : key[x] <= B
  OBVIOUS
<1> QED BY <1>2, <1>3

-----------------------------------------------------------------------------
(* Pages *)

\* No number is drawn twice.
NumbersAreOwn ==
    /\ \A m, n \in Stored : seqOf[m] = seqOf[n] => m = n
    /\ \A c \in Callers : append[c] # NoAppend => \A m \in Stored : seqOf[m] # append[c].seq
    /\ \A c, d \in Callers :
         (c # d /\ append[c] # NoAppend /\ append[d] # NoAppend) => append[c].seq # append[d].seq

\* s is a sequence of messages in the order of a query.
InQueryOrder(s, descending) ==
    \A i, j \in 1 .. Len(s) : i < j => Precedes(s[i], s[j], descending)

\* The order of a query is that of the messages' keys.
LEMMA KeysGiveOrder ==
    ASSUME LogInv, NumbersAreOwn, NEW S \in SUBSET Stored, NEW d \in BOOLEAN
    PROVE  /\ IsFiniteSet(S)
           /\ \E s \in [1 .. Cardinality(S) -> S] :
                /\ ToSet(s) = S
                /\ \A i, j \in 1 .. Cardinality(S) : i < j => Precedes(s[i], s[j], d)
<1> DEFINE key == [m \in S |-> IF d THEN MaxDraws + 1 - seqOf[m] ELSE seqOf[m]]
<1>1. MaxDraws \in Nat /\ \A m \in S : seqOf[m] \in 1 .. MaxDraws
  BY LogAssumption DEF LogInv, LogShape, LogTypeOK, Stored
<1>2. \A m, n \in S : seqOf[m] = seqOf[n] => m = n
  BY DEF NumbersAreOwn
<1>3. \A m \in S : key[m] \in 1 .. MaxDraws
  BY <1>1
<1>4. \A m, n \in S : key[m] = key[n] => m = n
  BY <1>1, <1>2
<1>5. \A m, n \in S : key[m] < key[n] => Precedes(m, n, d)
  BY <1>1 DEF Precedes
<1> HIDE DEF key
<1>6. IsFiniteSet(S) /\ \E s : Lists(s, S, key)
  BY <1>1, <1>3, <1>4, ListExists
<1>7. PICK s : Lists(s, S, key)
  BY <1>6
<1>8. /\ s \in [1 .. Cardinality(S) -> S] /\ ToSet(s) = S
      /\ \A i, j \in 1 .. Cardinality(S) : i < j => Precedes(s[i], s[j], d)
  BY <1>5, <1>7 DEF Lists
<1> QED BY <1>6, <1>8

\* Ordered lists a set of stored messages in the order of the query.
LEMMA OrderedLists ==
    ASSUME LogInv, NumbersAreOwn, NEW S \in SUBSET Stored, NEW d \in BOOLEAN
    PROVE  /\ Ordered(S, d) \in Seq(S)
           /\ ToSet(Ordered(S, d)) = S
           /\ InQueryOrder(Ordered(S, d), d)
<1> DEFINE n == Cardinality(S)
           Fits(s) == /\ ToSet(s) = S
                      /\ \A i, j \in 1 .. n : i < j => ~Precedes(s[j], s[i], d)
           o == Ordered(S, d)
<1>1. IsFiniteSet(S) /\ n \in Nat
  BY KeysGiveOrder, FS_CardinalityType
<1>2. \A m \in S : seqOf[m] \in Nat
  BY DEF LogInv, LogShape, LogTypeOK, Stored
<1>3. PICK s \in [1 .. n -> S] :
        ToSet(s) = S /\ \A i, j \in 1 .. n : i < j => Precedes(s[i], s[j], d)
  BY KeysGiveOrder
<1>4. \A i, j \in 1 .. n : Precedes(s[i], s[j], d) => ~Precedes(s[j], s[i], d)
  BY <1>2, <1>3 DEF Precedes
<1>5. Fits(s)
  BY <1>3, <1>4
<1>6. o = CHOOSE x \in [1 .. n -> S] : Fits(x)
  BY DEF Ordered
<1>7. o \in [1 .. n -> S] /\ Fits(o)
  <2> HIDE DEF Fits, o
  <2> QED BY <1>3, <1>5, <1>6
<1> HIDE DEF o
<1>8. o \in Injection(1 .. n, S)
  <2>1. IsFiniteSet(1 .. n) /\ Cardinality(1 .. n) = n
    BY <1>1, FS_Interval
  <2>2. o \in Surjection(1 .. n, S)
    BY <1>7 DEF Surjection, ToSet
  <2> QED BY <2>1, <2>2, FS_SurjSameCardinalityImpliesInj
<1>9. o \in Seq(S) /\ Len(o) = n
  BY <1>1, <1>7
<1>10. ASSUME NEW i \in 1 .. n, NEW j \in 1 .. n, i < j PROVE Precedes(o[i], o[j], d)
  <2>1. o[i] # o[j] /\ o[i] \in S /\ o[j] \in S
    BY <1>1, <1>7, <1>8, <1>10 DEF Injection, IsInjective
  <2>2. seqOf[o[i]] # seqOf[o[j]] /\ seqOf[o[i]] \in Nat /\ seqOf[o[j]] \in Nat
    BY <1>2, <2>1 DEF NumbersAreOwn
  <2>3. ~Precedes(o[j], o[i], d)
    BY <1>7, <1>10
  <2> QED BY <2>2, <2>3 DEF Precedes
<1> QED BY <1>7, <1>9, <1>10 DEF o, InQueryOrder

\* A sequence over a set is one over any larger set.
LEMMA SeqOfMore ==
    ASSUME NEW S, NEW T, S \subseteq T, NEW s \in Seq(S)
    PROVE  s \in Seq(T)
OBVIOUS

\* The first n of a sequence.
LEMMA PrefixElements ==
    ASSUME NEW S, NEW s \in Seq(S), NEW n \in Nat
    PROVE  /\ Prefix(s, n) \in Seq(S)
           /\ Len(Prefix(s, n)) = IF n < Len(s) THEN n ELSE Len(s)
           /\ \A i \in 1 .. Len(Prefix(s, n)) : Prefix(s, n)[i] = s[i]
           /\ Len(s) \in Nat
BY DEF Prefix

\* p is a page of messages of S, and its cursor is its last message.
IsPage(p, S, d) ==
    /\ p.status = NoError
    /\ p.items \in Seq(S)
    /\ InQueryOrder(p.items, d)
    /\ p.next # Nil => p.items # <<>> /\ p.next = Last(p.items)

\* What p does not have of S is beyond its cursor.
LeavesOnly(p, S, d) ==
    \A m \in S : m \in ToSet(p.items) \/ (p.next # Nil /\ Precedes(p.next, m, d))

\* The probe row tells whether there is another page.
LEMMA ProbedIsPage ==
    ASSUME NEW S \in SUBSET MsgIds, NEW rows \in Seq(S), NEW d \in BOOLEAN, InQueryOrder(rows, d)
    PROVE  /\ IsPage(Probed(rows), S, d)
           /\ \A i \in 1 .. Len(rows) :
                \/ rows[i] \in ToSet(Probed(rows).items)
                \/ Probed(rows).next # Nil /\ Precedes(Probed(rows).next, rows[i], d)
<1> DEFINE items == Prefix(rows, Limit)
           p == Probed(rows)
<1>0. Limit \in Nat /\ Limit > 0 /\ Nil \notin MsgIds
  BY LogAssumption, CursorAssumption
<1>1. /\ items \in Seq(S) /\ Len(rows) \in Nat
      /\ Len(items) = IF Limit < Len(rows) THEN Limit ELSE Len(rows)
      /\ \A i \in 1 .. Len(items) : items[i] = rows[i]
  BY <1>0, PrefixElements
<1> HIDE DEF items
<1>2. /\ p.status = NoError /\ p.items = items
      /\ p.next = IF Len(rows) > Limit THEN items[Len(items)] ELSE Nil
  BY DEF Probed, Page, Last, items
<1> HIDE DEF p
<1>3. InQueryOrder(items, d)
  BY <1>0, <1>1 DEF InQueryOrder
<1>4. p.next # Nil => items # <<>> /\ p.next = Last(items)
  <2>1. Len(rows) > Limit => Len(items) = Limit
    BY <1>0, <1>1
  <2>2. items = <<>> => Len(items) = 0
    OBVIOUS
  <2> QED BY <1>0, <1>2, <2>1, <2>2 DEF Last
<1>5. ASSUME NEW i \in 1 .. Len(rows)
      PROVE  rows[i] \in ToSet(items) \/ (p.next # Nil /\ Precedes(p.next, rows[i], d))
  <2>1. CASE i \in 1 .. Len(items)
    <3>1. DOMAIN items = 1 .. Len(items)
      BY <1>1
    <3> QED BY <1>1, <2>1, <3>1 DEF ToSet
  <2>2. CASE i \notin 1 .. Len(items)
    <3>1. Len(rows) > Limit /\ Len(items) = Limit /\ Limit \in 1 .. Len(rows) /\ Limit < i /\ Limit \in 1 .. Len(items)
      BY <1>0, <1>1, <2>2
    <3>2. p.next = rows[Limit] /\ rows[Limit] \in S
      BY <1>1, <1>2, <3>1
    <3>3. Precedes(rows[Limit], rows[i], d)
      BY <3>1 DEF InQueryOrder
    <3> QED BY <1>0, <3>2, <3>3
  <2> QED BY <2>1, <2>2
<1>6. IsPage(p, S, d)
  BY <1>1, <1>2, <1>3, <1>4 DEF IsPage
<1> QED BY <1>2, <1>5, <1>6 DEF p

\* A page of the limit + 1 first messages is one of all of them.
LEMMA OrderedPage ==
    ASSUME LogInv, NumbersAreOwn, NEW S \in SUBSET Stored, NEW d \in BOOLEAN
    PROVE  LET p == Probed(Prefix(Ordered(S, d), Limit + 1))
           IN  IsPage(p, S, d) /\ LeavesOnly(p, S, d)
<1> DEFINE o == Ordered(S, d)
           rows == Prefix(o, Limit + 1)
           p == Probed(rows)
<1>0. Limit \in Nat /\ Limit + 1 \in Nat /\ S \in SUBSET MsgIds
  BY LogAssumption DEF Stored
<1>1. o \in Seq(S) /\ ToSet(o) = S /\ InQueryOrder(o, d)
  BY OrderedLists
<1> HIDE DEF o
<1>2. /\ rows \in Seq(S) /\ Len(o) \in Nat
      /\ Len(rows) = IF Limit + 1 < Len(o) THEN Limit + 1 ELSE Len(o)
      /\ \A i \in 1 .. Len(rows) : rows[i] = o[i]
  BY <1>0, <1>1, PrefixElements
<1> HIDE DEF rows
<1>3. InQueryOrder(rows, d)
  BY <1>0, <1>1, <1>2 DEF InQueryOrder
<1>4. IsPage(p, S, d)
  BY <1>0, <1>2, <1>3, ProbedIsPage
<1>5. \A i \in 1 .. Len(rows) : rows[i] \in ToSet(p.items) \/ (p.next # Nil /\ Precedes(p.next, rows[i], d))
  BY <1>0, <1>2, <1>3, ProbedIsPage
<1>6. ASSUME NEW i \in 1 .. Len(o), i \notin 1 .. Len(rows)
      PROVE  p.next # Nil /\ Precedes(p.next, o[i], d)
  <2>1. Len(rows) = Limit + 1 /\ Limit + 1 < i /\ Limit + 1 \in 1 .. Len(rows) /\ Limit + 1 \in 1 .. Len(o)
    BY <1>0, <1>2, <1>6
  <2>2. p.items = Prefix(rows, Limit) /\ p.next = Last(p.items)
    BY <1>0, <1>2, <2>1 DEF p, Probed, Page
  <2>3. Len(p.items) = Limit /\ \A j \in 1 .. Limit : p.items[j] = rows[j]
    BY <1>0, <1>2, <2>1, <2>2, PrefixElements
  <2>4. Limit \in 1 .. Len(o) /\ Limit \in 1 .. Len(rows) /\ Limit \in 1 .. Limit /\ Limit < i
    BY <1>0, <1>2, <2>1, LogAssumption
  <2>5. p.next = o[Limit] /\ o[Limit] \in S
    BY <1>1, <1>2, <2>2, <2>3, <2>4 DEF Last
  <2>6. Precedes(o[Limit], o[i], d)
    BY <1>1, <2>4 DEF InQueryOrder
  <2>7. o[Limit] # Nil
    BY <1>0, <2>5, CursorAssumption
  <2> QED BY <2>5, <2>6, <2>7
<1>7. ASSUME NEW m \in S PROVE m \in ToSet(p.items) \/ (p.next # Nil /\ Precedes(p.next, m, d))
  <2>1. DOMAIN o = 1 .. Len(o)
    BY <1>1
  <2>2. PICK i \in 1 .. Len(o) : m = o[i]
    BY <1>1, <2>1 DEF ToSet
  <2>3. CASE i \in 1 .. Len(rows)
    BY <1>2, <1>5, <2>2, <2>3
  <2>4. CASE i \notin 1 .. Len(rows)
    BY <1>6, <2>2, <2>4
  <2> QED BY <2>3, <2>4
<1> QED BY <1>4, <1>7 DEF LeavesOnly, p, rows, o

\* What a query with a cursor is about: the messages beyond it, or all of them.
Reach(S, cursor, d) == IF cursor \in MsgIds THEN Beyond(S, cursor, d) ELSE S

\* The adapters answer with a page of what the query is about, or with an
\* error; only DynamoDB's descending pages may end early.
LEMMA ListedPage ==
    ASSUME LogInv, NumbersAreOwn, NEW index \in SUBSET Stored, NEW S \in SUBSET Stored,
           NEW cursor \in Stored \cup {Nil, Bogus}, NEW d \in BOOLEAN
    PROVE  LET p == ListMessages(index, S, cursor, d)
               R == Reach(S, cursor, d)
           IN  \/ p = CursorError
               \/ IsPage(p, R, d) /\ (~(backend = "dynamo" /\ d) => LeavesOnly(p, R, d))
<1> DEFINE p == ListMessages(index, S, cursor, d)
           R == Reach(S, cursor, d)
           full == Probed(Prefix(Ordered(R, d), Limit + 1))
<1>0. /\ Nil \notin MsgIds /\ Bogus \notin MsgIds /\ Nil # Bogus /\ Stored \subseteq MsgIds
      /\ R \in SUBSET Stored
  BY CursorAssumption DEF Stored, Reach, Beyond
<1>1. IsPage(full, R, d) /\ LeavesOnly(full, R, d)
  BY <1>0, OrderedPage
<1>2. CASE backend # "dynamo"
  <2>1. p = full
    BY <1>2 DEF ListMessages, ListByPosition, Reach
  <2> QED BY <1>1, <2>1
<1>3. CASE backend = "dynamo" /\ cursor = Nil
  <2>1. p = full
    BY <1>0, <1>3 DEF ListMessages, ListBySortKey, Reach
  <2> QED BY <1>1, <2>1
<1>4. CASE backend = "dynamo" /\ cursor # Nil /\ cursor \notin index
  BY <1>4 DEF ListMessages, ListBySortKey
<1>5. CASE backend = "dynamo" /\ cursor # Nil /\ cursor \in index /\ d = FALSE
  <2>1. p = full
    BY <1>0, <1>5 DEF ListMessages, ListBySortKey, Reach
  <2> QED BY <1>1, <2>1
<1>6. CASE backend = "dynamo" /\ cursor # Nil /\ cursor \in index /\ d = TRUE
  <2> DEFINE band == Beyond(S, cursor, TRUE) \cup ({cursor} \cap S)
             rows == Prefix(Ordered(band, TRUE), Limit + 1)
             kept == ToSet(rows) \ {cursor}
  <2>1. p = Probed(Ordered(kept, TRUE))
    BY <1>0, <1>6 DEF ListMessages, ListBySortKey
  <2>2. band \in SUBSET Stored /\ R = Beyond(S, cursor, TRUE) /\ band \subseteq R \cup {cursor}
    BY <1>0, <1>6 DEF Reach, Beyond
  <2>3. ToSet(rows) \subseteq band
    <3>1. Ordered(band, TRUE) \in Seq(band)
      BY <2>2, OrderedLists
    <3>2. rows \in Seq(band)
      <4>1. Limit + 1 \in Nat
        BY LogAssumption
      <4> QED BY <3>1, <4>1, PrefixElements
    <3> HIDE DEF rows, band
    <3>3. \A i \in DOMAIN rows : rows[i] \in band
      BY <3>2
    <3> QED BY <3>3 DEF ToSet
  <2>4. kept \in SUBSET R
    BY <2>2, <2>3
  <2> HIDE DEF kept
  <2>5. Ordered(kept, TRUE) \in Seq(kept) /\ InQueryOrder(Ordered(kept, TRUE), TRUE)
    BY <1>0, <2>4, OrderedLists
  <2>6. Ordered(kept, TRUE) \in Seq(R) /\ R \in SUBSET MsgIds
    BY <1>0, <2>4, <2>5, SeqOfMore
  <2>7. IsPage(p, R, TRUE)
    BY <2>1, <2>5, <2>6, ProbedIsPage
  <2> QED BY <1>6, <2>7
<1>7. \/ backend # "dynamo" \/ cursor = Nil \/ cursor \notin index
      \/ d = FALSE \/ d = TRUE
  OBVIOUS
<1> QED BY <1>2, <1>3, <1>4, <1>5, <1>6, <1>7

-----------------------------------------------------------------------------
(* Page walks *)

\* The walks of which the adapters promise that they are complete.
Promised(w) == ~(backend = "dynamo" /\ walk[w].descending)

\* The cursor of a walk under way is the last message it has read.
AtCursor(w) ==
    \/ walk[w].cursor \in {Nil, Bogus} /\ walk[w].read = <<>>
    \/ walk[w].read # <<>> /\ walk[w].cursor = Last(walk[w].read)

\* What a walk owes and has not read is beyond its cursor.
DueIsAhead(w) ==
    \A m \in walk[w].due :
        \/ m \in ToSet(walk[w].read)
        \/ walk[w].cursor \notin MsgIds
        \/ Precedes(walk[w].cursor, m, walk[w].descending)

WalkOK(w) ==
    /\ walk[w].descending \in BOOLEAN
    /\ walk[w].read \in Seq(Stored)
    /\ walk[w].due \subseteq Stored
    /\ backend = "dynamo" => walk[w].due \subseteq msgSettled
    /\ InQueryOrder(walk[w].read, walk[w].descending)
    /\ walk[w].state = "on" => AtCursor(w) /\ (Promised(w) => DueIsAhead(w))
    /\ walk[w].state = "over" /\ Promised(w) => walk[w].due \subseteq ToSet(walk[w].read)

WalkInv == NumbersAreOwn /\ \A w \in Walkers : WalkOK(w)

\* Steps that keep the numbers of stored messages, and take none away, keep walks.
LEMMA WalksOutliveGrowth ==
    ASSUME LogInv, \A w \in Walkers : WalkOK(w), UNCHANGED <<walk, backend>>,
           Stored \subseteq Stored', msgSettled \subseteq msgSettled',
           \A m \in Stored : seqOf'[m] = seqOf[m]
    PROVE  \A w \in Walkers : WalkOK(w)'
<1> SUFFICES ASSUME NEW w \in Walkers PROVE WalkOK(w)'
  OBVIOUS
<1> DEFINE d == walk[w].descending
<1>1. WalkOK(w)
  OBVIOUS
<1>2. walk[w].read \in Seq(Stored')
  BY <1>1, SeqOfMore DEF WalkOK
<1>3. \A a, b \in Stored : Precedes(a, b, d)' <=> Precedes(a, b, d)
  BY DEF Precedes
<1>4. \A i \in 1 .. Len(walk[w].read) : walk[w].read[i] \in Stored
  BY <1>1 DEF WalkOK
<1>5. InQueryOrder(walk[w].read, d)'
  BY <1>1, <1>3, <1>4 DEF WalkOK, InQueryOrder
<1>6. AtCursor(w)' <=> AtCursor(w)
  BY DEF AtCursor, Bogus
<1>7. Promised(w)' <=> Promised(w)
  BY DEF Promised
<1>8. AtCursor(w) /\ walk[w].cursor \in MsgIds => walk[w].cursor \in Stored
  <2>1. walk[w].read # <<>> => Len(walk[w].read) \in 1 .. Len(walk[w].read)
    BY <1>1 DEF WalkOK
  <2> QED BY <1>4, <2>1, CursorAssumption DEF AtCursor, Last
<1>9. AtCursor(w) /\ DueIsAhead(w) => DueIsAhead(w)'
  <2> SUFFICES ASSUME AtCursor(w), DueIsAhead(w), NEW m \in walk[w].due,
                      m \notin ToSet(walk[w].read), walk[w].cursor \in MsgIds
               PROVE  Precedes(walk[w].cursor, m, d)'
    BY DEF DueIsAhead
  <2> QED BY <1>1, <1>3, <1>8 DEF DueIsAhead, WalkOK
<1> QED BY <1>1, <1>2, <1>5, <1>6, <1>7, <1>9 DEF WalkOK

\* A number is drawn once: by one append, for one message.
LEMMA NumbersStayOwn ==
    ASSUME LogInv, NumbersAreOwn, LogNext
    PROVE  /\ NumbersAreOwn'
           /\ Stored \subseteq Stored' /\ msgSettled \subseteq msgSettled'
           /\ \A m \in Stored : seqOf'[m] = seqOf[m]
<1> USE LogAssumption
<1>t. LogShape /\ LogTypeOK /\ OneAppendPerMessage /\ NumbersAreDrawn
  BY DEF LogInv, LogShape
<1>0. /\ counter \in Nat /\ DOMAIN append = Callers /\ seqOf \in [MsgIds -> Nat]
      /\ \A m \in MsgIds : seqOf[m] <= counter
      /\ \A c \in Callers : append[c] # NoAppend =>
           append[c].msg \in MsgIds /\ append[c].seq \in 1 .. counter /\ seqOf[append[c].msg] = 0
  BY <1>t DEF LogShape, LogTypeOK, NumbersAreDrawn, OneAppendPerMessage
<1>1. ASSUME NEW c \in Callers, NEW m \in MsgIds, AppendInMemory(c, m)
      PROVE  /\ NumbersAreOwn' /\ Stored \subseteq Stored' /\ msgSettled' = msgSettled
             /\ \A x \in Stored : seqOf'[x] = seqOf[x]
  <2>1. /\ seqOf[m] = 0 /\ seqOf' = [seqOf EXCEPT ![m] = counter + 1] /\ UNCHANGED <<append, msgSettled>>
    BY <1>1 DEF AppendInMemory, Unused
  <2>2. seqOf'[m] = counter + 1 /\ \A x \in MsgIds : x # m => seqOf'[x] = seqOf[x]
    BY <1>0, <2>1
  <2>3. Stored' = Stored \cup {m} /\ m \notin Stored
    BY <1>0, <2>1, <2>2 DEF Stored
  <2>4. \A x \in Stored : seqOf'[x] = seqOf[x] /\ seqOf[x] <= counter /\ seqOf[x] \in Nat
    BY <1>0, <2>2, <2>3 DEF Stored
  <2>5. \A x, y \in Stored' : seqOf'[x] = seqOf'[y] => x = y
    BY <1>0, <2>2, <2>3, <2>4 DEF NumbersAreOwn
  <2>6. \A e \in Callers : append[e] # NoAppend => \A x \in Stored' : seqOf'[x] # append[e].seq
    BY <1>0, <2>2, <2>3, <2>4 DEF NumbersAreOwn
  <2> QED BY <2>1, <2>3, <2>4, <2>5, <2>6 DEF NumbersAreOwn, NoAppend
<1>2. ASSUME NEW c \in Callers, NEW m \in MsgIds, AppendDraw(c, m)
      PROVE  /\ NumbersAreOwn' /\ Stored' = Stored /\ msgSettled' = msgSettled /\ seqOf' = seqOf
  <2>1. /\ append' = [append EXCEPT ![c] = [msg |-> m, seq |-> counter + 1]]
        /\ UNCHANGED <<seqOf, msgSettled>> /\ Stored' = Stored
    BY <1>2 DEF AppendDraw, Stored
  <2>2. append'[c].seq = counter + 1 /\ \A e \in Callers : e # c => append'[e] = append[e]
    BY <1>0, <2>1
  <2>3. \A x \in Stored : seqOf[x] # counter + 1
    BY <1>0 DEF Stored
  <2>4. \A e \in Callers : append[e] # NoAppend => append[e].seq # counter + 1
    BY <1>0
  <2>5. \A e \in Callers : append'[e] # NoAppend => \A x \in Stored : seqOf[x] # append'[e].seq
    BY <2>2, <2>3 DEF NumbersAreOwn
  <2>6. \A e, f \in Callers :
          (e # f /\ append'[e] # NoAppend /\ append'[f] # NoAppend) => append'[e].seq # append'[f].seq
    BY <2>2, <2>4 DEF NumbersAreOwn
  <2> QED BY <2>1, <2>5, <2>6 DEF NumbersAreOwn, NoAppend
<1>3. ASSUME NEW c \in Callers, AppendStore(c)
      PROVE  /\ NumbersAreOwn' /\ Stored \subseteq Stored' /\ msgSettled' = msgSettled
             /\ \A x \in Stored : seqOf'[x] = seqOf[x]
  <2> DEFINE m == append[c].msg
             n == append[c].seq
  <2>1. /\ append[c] # NoAppend /\ seqOf' = [seqOf EXCEPT ![m] = n]
        /\ append' = [append EXCEPT ![c] = NoAppend] /\ msgSettled' = msgSettled
    BY <1>3 DEF AppendStore
  <2>2. /\ m \in MsgIds /\ n \in 1 .. counter /\ seqOf[m] = 0
        /\ seqOf'[m] = n /\ \A x \in MsgIds : x # m => seqOf'[x] = seqOf[x]
    BY <1>0, <2>1
  <2> HIDE DEF m, n
  <2>3. Stored' = Stored \cup {m} /\ m \notin Stored /\ \A x \in Stored : seqOf'[x] = seqOf[x]
    BY <1>0, <2>2 DEF Stored
  <2>4. \A x \in Stored : seqOf[x] # n
    BY <2>1 DEF NumbersAreOwn, n
  <2>5. \A x, y \in Stored' : seqOf'[x] = seqOf'[y] => x = y
    BY <2>2, <2>3, <2>4 DEF NumbersAreOwn
  <2>6. \A e \in Callers : append'[e] # NoAppend => e # c /\ append'[e] = append[e]
    BY <1>0, <2>1
  <2>7. \A e \in Callers : append'[e] # NoAppend => append'[e].seq # n
    BY <2>1, <2>6 DEF NumbersAreOwn, n
  <2>8. \A e \in Callers : append'[e] # NoAppend => \A x \in Stored' : seqOf'[x] # append'[e].seq
    BY <2>2, <2>3, <2>6, <2>7 DEF NumbersAreOwn
  <2>9. \A e, f \in Callers :
          (e # f /\ append'[e] # NoAppend /\ append'[f] # NoAppend) => append'[e].seq # append'[f].seq
    BY <2>6 DEF NumbersAreOwn
  <2> QED BY <2>1, <2>3, <2>5, <2>8, <2>9 DEF NumbersAreOwn, NoAppend
<1>4. ASSUME NEW c \in Callers, AppendFails(c)
      PROVE  /\ NumbersAreOwn' /\ Stored' = Stored /\ msgSettled' = msgSettled /\ seqOf' = seqOf
  <2>1. /\ append' = [append EXCEPT ![c] = NoAppend]
        /\ UNCHANGED <<seqOf, msgSettled>> /\ Stored' = Stored
    BY <1>4 DEF AppendFails, Stored
  <2>2. \A e \in Callers : append'[e] # NoAppend => append'[e] = append[e]
    BY <1>0, <2>1
  <2> QED BY <2>1, <2>2 DEF NumbersAreOwn, NoAppend
<1>5. ASSUME UNCHANGED <<seqOf, append>> PROVE NumbersAreOwn' /\ Stored' = Stored
  BY <1>5 DEF NumbersAreOwn, NoAppend, Stored
<1>6. ASSUME NEW m \in MsgIds, MsgSettle(m)
      PROVE  UNCHANGED <<seqOf, append>> /\ msgSettled \subseteq msgSettled'
  BY <1>6 DEF MsgSettle
<1>7. ASSUME NEW w \in Walkers, NEW descending \in BOOLEAN, NEW cursor, WalkStart(w, descending, cursor)
      PROVE  UNCHANGED <<seqOf, append, msgSettled>>
  BY <1>7 DEF WalkStart
<1>8. ASSUME NEW w \in Walkers, WalkPage(w) PROVE UNCHANGED <<seqOf, append, msgSettled>>
  BY <1>8 DEF WalkPage
<1> QED BY <1>1, <1>2, <1>3, <1>4, <1>5, <1>6, <1>7, <1>8 DEF LogNext

\* The elements of two sequences one after the other.
LEMMA ConcatElements ==
    ASSUME NEW X, NEW s \in Seq(X), NEW t \in Seq(X)
    PROVE  /\ s \o t \in Seq(X) /\ Len(s) \in Nat /\ Len(t) \in Nat
           /\ Len(s \o t) = Len(s) + Len(t)
           /\ \A i \in 1 .. Len(s) : (s \o t)[i] = s[i]
           /\ \A i \in 1 .. Len(t) : (s \o t)[Len(s) + i] = t[i]
           /\ ToSet(s) \cup ToSet(t) \subseteq ToSet(s \o t)
<1> DEFINE u == s \o t
<1>1. /\ u \in Seq(X) /\ Len(s) \in Nat /\ Len(t) \in Nat /\ Len(u) = Len(s) + Len(t)
      /\ \A i \in 1 .. Len(s) : u[i] = s[i]
      /\ \A i \in 1 .. Len(t) : u[Len(s) + i] = t[i]
  OBVIOUS
<1>2. DOMAIN s = 1 .. Len(s) /\ DOMAIN t = 1 .. Len(t)
  OBVIOUS
<1> HIDE DEF u
<1>3. DOMAIN u = 1 .. Len(u)
  BY <1>1
<1>4. \A i \in 1 .. Len(s) : i \in DOMAIN u
  BY <1>1, <1>3
<1>5. \A i \in 1 .. Len(t) : Len(s) + i \in DOMAIN u
  BY <1>1, <1>3
<1>6. ToSet(s) \subseteq ToSet(u)
  BY <1>1, <1>2, <1>4 DEF ToSet
<1>7. ToSet(t) \subseteq ToSet(u)
  BY <1>1, <1>2, <1>5 DEF ToSet
<1> QED BY <1>1, <1>6, <1>7 DEF u

\* A page that starts beyond the last message read continues the order.
LEMMA ConcatInOrder ==
    ASSUME NEW X \in SUBSET Stored, NEW s \in Seq(X), NEW t \in Seq(X), NEW d \in BOOLEAN,
           \A m \in X : seqOf[m] \in Nat, InQueryOrder(s, d), InQueryOrder(t, d),
           s # <<>> => \A i \in 1 .. Len(t) : Precedes(Last(s), t[i], d)
    PROVE  InQueryOrder(s \o t, d)
<1> DEFINE u == s \o t
<1>1. /\ Len(s) \in Nat /\ Len(t) \in Nat /\ Len(u) = Len(s) + Len(t)
      /\ \A i \in 1 .. Len(s) : u[i] = s[i] /\ s[i] \in X
      /\ \A i \in 1 .. Len(t) : u[Len(s) + i] = t[i] /\ t[i] \in X
  BY ConcatElements
<1> HIDE DEF u
<1>2. \A k \in 1 .. Len(u) : k \notin 1 .. Len(s) => k - Len(s) \in 1 .. Len(t) /\ u[k] = t[k - Len(s)]
  BY <1>1
<1>3. ASSUME NEW i \in 1 .. Len(u), NEW j \in 1 .. Len(u), i < j PROVE Precedes(u[i], u[j], d)
  <2>1. CASE i \in 1 .. Len(s) /\ j \in 1 .. Len(s)
    BY <1>1, <1>3, <2>1 DEF InQueryOrder
  <2>2. CASE i \notin 1 .. Len(s)
    <3>1. j \notin 1 .. Len(s)
      BY <1>1, <1>3, <2>2
    <3>2. i - Len(s) \in 1 .. Len(t) /\ j - Len(s) \in 1 .. Len(t) /\ i - Len(s) < j - Len(s)
      BY <1>1, <1>2, <1>3, <2>2, <3>1
    <3>3. Precedes(t[i - Len(s)], t[j - Len(s)], d)
      BY <3>2 DEF InQueryOrder
    <3> QED BY <1>2, <2>2, <3>1, <3>3
  <2>3. CASE i \in 1 .. Len(s) /\ j \notin 1 .. Len(s)
    <3> DEFINE a == s[i]
               b == s[Len(s)]
               c == u[j]
    <3>1. Len(s) \in 1 .. Len(s) /\ s # <<>> /\ i <= Len(s)
      BY <1>1, <2>3
    <3>2. Precedes(b, c, d)
      BY <1>2, <2>3, <3>1 DEF Last
    <3>3. a = b \/ Precedes(a, b, d)
      BY <1>1, <2>3, <3>1 DEF InQueryOrder
    <3>4. a \in X /\ b \in X /\ c \in X
      BY <1>1, <1>2, <2>3, <3>1
    <3> HIDE DEF a, b, c
    <3>5. seqOf[a] \in Nat /\ seqOf[b] \in Nat /\ seqOf[c] \in Nat
      BY <3>4
    <3>6. Precedes(a, c, d)
      <4>1. CASE d = TRUE
        BY <3>2, <3>3, <3>5, <4>1 DEF Precedes
      <4>2. CASE d = FALSE
        BY <3>2, <3>3, <3>5, <4>2 DEF Precedes
      <4> QED BY <4>1, <4>2
    <3> QED BY <1>1, <2>3, <3>6 DEF a, c
  <2> QED BY <2>1, <2>2, <2>3
<1> QED BY <1>3 DEF InQueryOrder, u

\* A walk that a step leaves alone stays in order.
LEMMA OtherWalksKept ==
    ASSUME NEW v \in Walkers, WalkOK(v), walk'[v] = walk[v], UNCHANGED <<seqOf, msgSettled, backend>>
    PROVE  WalkOK(v)'
<1>1. Stored' = Stored
  BY DEF Stored
<1> QED BY <1>1 DEF WalkOK, InQueryOrder, Precedes, AtCursor, Promised, DueIsAhead, Bogus

\* A walk starts with what every read sees as due.
LEMMA StartKeepsWalks ==
    ASSUME LogInv, \A v \in Walkers : WalkOK(v), NEW w \in Walkers, NEW d \in BOOLEAN,
           NEW cursor \in {Nil, Bogus}, WalkStart(w, d, cursor), backend' = backend
    PROVE  \A v \in Walkers : WalkOK(v)'
<1> DEFINE due == IF backend = "dynamo" THEN msgSettled ELSE Stored
<1>1. /\ walk' = [walk EXCEPT ![w] = [state |-> "on", descending |-> d, cursor |-> cursor,
                                      read |-> <<>>, due |-> due]]
      /\ UNCHANGED <<seqOf, msgSettled>>
  BY DEF WalkStart
<1>2. DOMAIN walk = Walkers /\ msgSettled \subseteq Stored
  BY DEF LogInv, LogShape, LogTypeOK
<1>3. due \subseteq Stored /\ (backend = "dynamo" => due \subseteq msgSettled)
  BY <1>2
<1> HIDE DEF due
<1>4. /\ walk'[w].state = "on" /\ walk'[w].descending = d /\ walk'[w].cursor = cursor
      /\ walk'[w].read = <<>> /\ walk'[w].due = due
      /\ \A v \in Walkers : v # w => walk'[v] = walk[v]
  BY <1>1, <1>2
<1>5. Stored' = Stored
  BY <1>1 DEF Stored
<1>6. <<>> \in Seq(Stored) /\ Len(<<>>) = 0
  OBVIOUS
<1>7. InQueryOrder(walk[w].read, walk[w].descending)'
  BY <1>4, <1>6 DEF InQueryOrder
<1>8. AtCursor(w)' /\ DueIsAhead(w)'
  BY <1>4, CursorAssumption DEF AtCursor, DueIsAhead, Bogus
<1>9. WalkOK(w)'
  BY <1>1, <1>3, <1>4, <1>5, <1>6, <1>7, <1>8 DEF WalkOK
<1> QED BY <1>1, <1>4, <1>9, OtherWalksKept

\* The next page continues a walk where it is, and leaves out nothing due.
LEMMA PageKeepsWalks ==
    ASSUME LogInv, NumbersAreOwn, \A v \in Walkers : WalkOK(v), NEW w \in Walkers, WalkPage(w),
           backend' = backend
    PROVE  \A v \in Walkers : WalkOK(v)'
<1>0. WalkPage(w)
  OBVIOUS
<1>1. PICK index, S \in Visible :
         LET page == ListMessages(index, S, walk[w].cursor, walk[w].descending)
         IN walk' = [walk EXCEPT
              ![w].read = @ \o page.items,
              ![w].cursor = page.next,
              ![w].state = CASE page.status # NoError -> "error"
                             [] page.status = NoError /\ page.next = Nil -> "over"
                             [] OTHER -> "on"]
  BY <1>0 DEF WalkPage
<1> DEFINE r == walk[w]
           d == r.descending
           page == ListMessages(index, S, walk[w].cursor, walk[w].descending)
           state == CASE page.status # NoError -> "error"
                      [] page.status = NoError /\ page.next = Nil -> "over"
                      [] OTHER -> "on"
           row == [r EXCEPT !.read = @ \o page.items, !.cursor = page.next, !.state = state]
           R == Reach(S, r.cursor, d)
<1>2. /\ r.state = "on" /\ UNCHANGED <<seqOf, msgSettled>> /\ Stored' = Stored
      /\ DOMAIN walk = Walkers /\ r = [f \in WalkFields |-> r[f]] /\ msgSettled \subseteq Stored
      /\ \A m \in Stored : seqOf[m] \in Nat /\ m \in MsgIds
  BY DEF WalkPage, LogInv, LogShape, LogTypeOK, Stored
<1>3. /\ index \in SUBSET Stored /\ S \in SUBSET Stored
      /\ backend = "dynamo" => msgSettled \subseteq S
      /\ backend # "dynamo" => S = Stored
  BY <1>2 DEF Visible
<1>4. /\ WalkOK(w) /\ AtCursor(w) /\ d \in BOOLEAN /\ r.read \in Seq(Stored) /\ r.due \subseteq S
      /\ InQueryOrder(r.read, d) /\ (Promised(w) => DueIsAhead(w))
  BY <1>2, <1>3 DEF WalkOK
<1>5. r.read # <<>> => r.cursor = Last(r.read) /\ r.cursor \in Stored
  <2>1. r.read # <<>> => Len(r.read) \in 1 .. Len(r.read)
    BY <1>4
  <2> QED BY <1>4, <2>1 DEF AtCursor, Last
<1>6. r.cursor \in Stored \cup {Nil, Bogus}
  BY <1>4, <1>5 DEF AtCursor
<1>7. walk'[w] = row /\ \A v \in Walkers : v # w => walk'[v] = walk[v]
  <2>1. DOMAIN walk = Walkers /\ walk[w] = [f \in WalkFields |-> walk[w][f]]
    BY <1>2
  <2>2. walk' = [walk EXCEPT ![w] = row]
    BY <1>1, <2>1
  <2> HIDE DEF row
  <2> QED BY <1>2, <2>2
<1>8. /\ row.read = r.read \o page.items /\ row.cursor = page.next /\ row.state = state
      /\ row.due = r.due /\ row.descending = d
  <2> HIDE DEF page, state, r
  <2> QED BY <1>2 DEF WalkFields
<1>9. \/ page = CursorError
      \/ IsPage(page, R, d) /\ (~(backend = "dynamo" /\ d) => LeavesOnly(page, R, d))
  BY <1>3, <1>4, <1>6, ListedPage
<1>10. /\ page.status # NoError => state = "error"
       /\ page.status = NoError /\ page.next = Nil => state = "over"
       /\ page.status = NoError /\ page.next # Nil => state = "on"
  OBVIOUS
<1>11. R \subseteq Stored /\ (r.cursor \notin MsgIds => R = S)
       /\ (r.cursor \in MsgIds => R = {m \in S : Precedes(r.cursor, m, d)})
  BY <1>3 DEF Reach, Beyond
<1> HIDE DEF page, state, row, R, r
<1>12. CASE page = CursorError
  <2>1. page.status = "error" /\ page.items = <<>> /\ page.status # NoError
    BY <1>12 DEF CursorError, NoError
  <2>2. row.read = r.read /\ row.state = "error"
    BY <1>4, <1>8, <1>10, <2>1
  <2>3. InQueryOrder(walk[w].read, walk[w].descending)'
    BY <1>2, <1>4, <1>7, <1>8, <2>2 DEF InQueryOrder, Precedes
  <2> QED BY <1>2, <1>4, <1>7, <1>8, <2>2, <2>3, OtherWalksKept DEF WalkOK, r
<1>13. CASE IsPage(page, R, d) /\ (~(backend = "dynamo" /\ d) => LeavesOnly(page, R, d))
  <2>1. /\ page.status = NoError /\ page.items \in Seq(R) /\ page.items \in Seq(Stored)
        /\ InQueryOrder(page.items, d)
        /\ page.next # Nil => page.items # <<>> /\ page.next = Last(page.items)
    BY <1>11, <1>13, SeqOfMore DEF IsPage
  <2>2. /\ row.read \in Seq(Stored) /\ Len(r.read) \in Nat /\ Len(page.items) \in Nat
        /\ Len(row.read) = Len(r.read) + Len(page.items)
        /\ \A i \in 1 .. Len(page.items) : row.read[Len(r.read) + i] = page.items[i]
        /\ ToSet(r.read) \cup ToSet(page.items) \subseteq ToSet(row.read)
    <3> DEFINE items == page.items
               read == r.read
    <3>1. read \in Seq(Stored) /\ items \in Seq(Stored) /\ row.read = read \o items
      BY <1>4, <1>8, <2>1
    <3> HIDE DEF items, read
    <3>2. /\ read \o items \in Seq(Stored) /\ Len(read) \in Nat /\ Len(items) \in Nat
          /\ Len(read \o items) = Len(read) + Len(items)
          /\ \A i \in 1 .. Len(items) : (read \o items)[Len(read) + i] = items[i]
          /\ ToSet(read) \cup ToSet(items) \subseteq ToSet(read \o items)
      BY <3>1, ConcatElements
    <3> QED BY <3>1, <3>2 DEF items, read
  <2>3. InQueryOrder(row.read, d)
    <3>1. r.read # <<>> => \A i \in 1 .. Len(page.items) : Precedes(Last(r.read), page.items[i], d)
      <4>1. \A i \in 1 .. Len(page.items) : page.items[i] \in R
        BY <2>1
      <4>2. r.read # <<>> => \A m \in R : Precedes(Last(r.read), m, d)
        BY <1>2, <1>5, <1>11
      <4> QED BY <4>1, <4>2
    <3> QED BY <1>2, <1>4, <1>8, <2>1, <3>1, ConcatInOrder
  <2>4. InQueryOrder(walk[w].read, walk[w].descending)'
    BY <1>2, <1>7, <1>8, <2>3 DEF InQueryOrder, Precedes
  <2>5. page.next # Nil => row.read # <<>> /\ page.next = Last(row.read)
    <3> SUFFICES ASSUME page.next # Nil PROVE row.read # <<>> /\ page.next = Last(row.read)
      OBVIOUS
    <3>1. Len(page.items) \in 1 .. Len(page.items)
      BY <2>1, <2>2
    <3>2. row.read[Len(r.read) + Len(page.items)] = page.items[Len(page.items)]
      BY <2>2, <3>1
    <3>3. row.read[Len(row.read)] = page.items[Len(page.items)]
      BY <2>2, <3>2
    <3>4. Len(r.read) \in Nat /\ Len(page.items) \in Nat /\ Len(page.items) # 0
          /\ Len(row.read) = Len(r.read) + Len(page.items)
      BY <2>2, <3>1
    <3>5. row.read # <<>>
      <4>1. Len(row.read) # 0
        <5> DEFINE n == Len(r.read)
                   k == Len(page.items)
                   l == Len(row.read)
        <5>1. n \in Nat /\ k \in Nat /\ k # 0 /\ l = n + k
          BY <3>4
        <5> HIDE DEF n, k, l
        <5>2. l # 0
          BY <5>1
        <5> QED BY <5>2 DEF l
      <4> QED BY <4>1
    <3> QED BY <2>1, <3>3, <3>5 DEF Last
  <2>6. Promised(w)' <=> Promised(w)
    BY <1>7, <1>8 DEF Promised, r
  <2>7. ASSUME Promised(w), NEW m \in r.due
        PROVE  m \in ToSet(row.read) \/ (page.next # Nil /\ Precedes(page.next, m, d))
    <3>1. ~(backend = "dynamo" /\ d)
      BY <2>7 DEF Promised, r
    <3>2. m \in ToSet(r.read) \/ m \in R
      BY <1>4, <1>11, <2>7 DEF DueIsAhead, r
    <3> QED BY <1>13, <2>2, <3>1, <3>2 DEF LeavesOnly
  <2>8. row.state = "on" => AtCursor(w)' /\ (Promised(w)' => DueIsAhead(w)')
    <3> SUFFICES ASSUME row.state = "on" PROVE AtCursor(w)' /\ (Promised(w)' => DueIsAhead(w)')
      OBVIOUS
    <3>1. page.next # Nil
      BY <1>8, <1>10, <2>1
    <3>2. AtCursor(w)'
      BY <1>7, <1>8, <2>5, <3>1 DEF AtCursor
    <3>3. Promised(w) => DueIsAhead(w)'
      BY <1>2, <1>7, <1>8, <2>7, <3>1 DEF DueIsAhead, Precedes
    <3> QED BY <2>6, <3>2, <3>3
  <2>9. row.state = "over" /\ Promised(w) => r.due \subseteq ToSet(row.read)
    BY <1>8, <1>10, <2>1, <2>7
  <2>10. WalkOK(w)'
    BY <1>2, <1>4, <1>7, <1>8, <2>2, <2>4, <2>6, <2>8, <2>9 DEF WalkOK, r
  <2> QED BY <1>2, <1>7, <2>10, OtherWalksKept
<1> QED BY <1>9, <1>12, <1>13

\* Every step of the message slice keeps the walks.
LEMMA LogStepKeepsWalkInv ==
    ASSUME LogInv, WalkInv, LogNext, backend' = backend
    PROVE  WalkInv'
<1>1. /\ NumbersAreOwn' /\ Stored \subseteq Stored' /\ msgSettled \subseteq msgSettled'
      /\ \A m \in Stored : seqOf'[m] = seqOf[m]
  BY NumbersStayOwn DEF WalkInv
<1>2. CASE walk' = walk
  BY <1>1, <1>2, WalksOutliveGrowth DEF WalkInv
<1>3. ASSUME NEW w \in Walkers, NEW d \in BOOLEAN, NEW cursor \in {Nil, Bogus}, WalkStart(w, d, cursor)
      PROVE  WalkInv'
  BY <1>1, <1>3, StartKeepsWalks DEF WalkInv
<1>4. ASSUME NEW w \in Walkers, WalkPage(w) PROVE WalkInv'
  BY <1>1, <1>4, PageKeepsWalks DEF WalkInv
<1> QED BY <1>2, <1>3, <1>4 DEF LogNext, AppendInMemory, AppendDraw, AppendStore, AppendFails, MsgSettle

-----------------------------------------------------------------------------
(* Sessions and checkpoints *)

SessInv ==
    /\ sess \in Session \cup {Nil}
    /\ sessSettled \in Session \cup {Nil}
    /\ sessCall \in [Callers -> [step : {"idle", "put"}, update : Updates \cup {Nil},
                                 row : Session \cup {Nil}]]
    /\ \A c \in Callers : sessCall[c].step = "put" =>
         backend = "dynamo" /\ sessCall[c].row \in Session

\* m is the latest checkpoint, of the stored ones and of those a replica has,
\* and nobody is about to delete it.
LatestIsKept(m) ==
    /\ \A j \in ckpt \cup ckptSettled : j <= m
    /\ \A c \in Callers : \A i \in pruning[c] : i < m

CkptInv ==
    /\ ckpt \subseteq Iterations
    /\ ckptSettled \subseteq Iterations
    /\ pruning \in [Callers -> SUBSET Iterations]
    /\ \/ ckpt = {} /\ ckptSettled = {} /\ \A c \in Callers : pruning[c] = {}
       \/ \E m \in ckpt : LatestIsKept(m)

\* An update gives a session.
LEMMA ApplyUpdateShape ==
    ASSUME NEW row \in Session, NEW u \in Updates
    PROVE  ApplyUpdate(row, u) \in Session
<1>1. CASE u = [ends |-> TRUE, tokens |-> Nil]
  BY <1>1 DEF ApplyUpdate, Session
<1>2. CASE u \in [ends : {FALSE}, tokens : Counts]
  BY <1>2 DEF ApplyUpdate, Session
<1> QED BY <1>1, <1>2 DEF Updates

\* Every step of the session slice keeps the shape of the session and the fact
\* that only DynamoDB puts a row that was read before.
LEMMA SessStepKeepsSessInv ==
    ASSUME SessInv, UNCHANGED backend, SessNext
    PROVE  SessInv'
<1>1. CASE CreateSession
  <2>1. NewSession \in Session
    BY DEF NewSession, Session
  <2> QED BY <1>1, <2>1 DEF CreateSession, SessInv
<1>2. ASSUME NEW c \in Callers, NEW u \in Updates, UpdateSessionAtOnce(c, u) PROVE SessInv'
  <2>1. sess \in Session
    BY <1>2 DEF UpdateSessionAtOnce, SessInv
  <2> QED BY <1>2, <2>1, ApplyUpdateShape DEF UpdateSessionAtOnce, SessInv
<1>3. ASSUME NEW c \in Callers, NEW u \in Updates, UpdateSessionRead(c, u) PROVE SessInv'
  <2>1. PICK found \in Session :
          sessCall' = [sessCall EXCEPT ![c] = [step |-> "put", update |-> u, row |-> ApplyUpdate(found, u)]]
    BY <1>3 DEF UpdateSessionRead, Reads, SessInv
  <2>2. ApplyUpdate(found, u) \in Session
    BY ApplyUpdateShape
  <2> HIDE DEF ApplyUpdate
  <2> QED BY <1>3, <2>1, <2>2 DEF UpdateSessionRead, SessInv
<1>4. ASSUME NEW c \in Callers, UpdateSessionPut(c) \/ SessCallFails(c) PROVE SessInv'
  <2>1. SessIdle \in [step : {"idle", "put"}, update : Updates \cup {Nil}, row : Session \cup {Nil}]
        /\ SessIdle.step = "idle"
    BY DEF SessIdle
  <2> QED BY <1>4, <2>1 DEF UpdateSessionPut, SessCallFails, SessInv
<1>5. CASE SessSettle
  BY <1>5 DEF SessSettle, SessInv
<1> QED BY <1>1, <1>2, <1>3, <1>4, <1>5 DEF SessNext

\* The latest of a set of checkpoints that has one.
LEMMA LoadLatestIsGreatest ==
    ASSUME NEW S \in SUBSET (Nat \ {0})
    PROVE  /\ \A m \in S : (\A j \in S : j <= m) => LoadLatest(S) = m
           /\ S = {} => LoadLatest(S) = 0
<1>1. ASSUME NEW m \in S, \A j \in S : j <= m PROVE LoadLatest(S) = m
  <2>1. \E i \in S \cup {0} : \A j \in S : j <= i
    BY <1>1
  <2>2. LoadLatest(S) \in S \cup {0} /\ \A j \in S : j <= LoadLatest(S)
    BY <2>1 DEF LoadLatest
  <2>3. PICK top \in S \cup {0} : top = LoadLatest(S) /\ \A j \in S : j <= top
    BY <2>2
  <2>4. m \in Nat /\ m > 0 /\ top \in Nat /\ m <= top
    BY <2>3
  <2>5. top \in S
    BY <2>4
  <2>6. top <= m
    BY <1>1, <2>5
  <2> QED BY <2>3, <2>4, <2>6
<1>2. ASSUME S = {} PROVE LoadLatest(S) = 0
  BY <1>2 DEF LoadLatest
<1> QED BY <1>1, <1>2

\* What prune deletes is older than something that the listing showed.
LEMMA PrunedAreOlder ==
    ASSUME NEW seen, NEW i \in seen \ Newest(seen)
    PROVE  \E j \in seen : j > i
<1> SUFFICES ASSUME ~\E j \in seen : j > i PROVE FALSE
  OBVIOUS
<1>1. {j \in seen : j > i} = {}
  OBVIOUS
<1>2. Cardinality({j \in seen : j > i}) < Keep
  BY <1>1, FS_EmptySet, SessionAssumption
<1> QED BY <1>2 DEF Newest

\* Every step of the checkpoint slice keeps the latest checkpoint out of all
\* deletions, and load_latest never goes back.
LEMMA CkptStepKeepsCkptInv ==
    ASSUME CkptInv, CkptNext
    PROVE  CkptInv' /\ LoadLatest(ckpt') >= LoadLatest(ckpt)
<1> USE SessionAssumption
<1>t. /\ ckpt \subseteq Iterations /\ ckptSettled \subseteq Iterations /\ pruning \in [Callers -> SUBSET Iterations]
      /\ ckpt \in SUBSET (Nat \ {0})
  BY DEF CkptInv
<1>s. LoadLatest(ckpt) \in Nat /\ \A m \in ckpt : LatestIsKept(m) => LoadLatest(ckpt) = m
  BY <1>t, LoadLatestIsGreatest DEF CkptInv, LatestIsKept
<1>1. ASSUME NEW i \in Iterations, SaveCheckpoint(i) PROVE CkptInv' /\ LoadLatest(ckpt') >= LoadLatest(ckpt)
  <2>1. ckpt' = ckpt \cup {i} /\ UNCHANGED <<ckptSettled, pruning>> /\ \A j \in ckpt : j < i
    BY <1>1 DEF SaveCheckpoint
  <2>2. ckpt' \subseteq Iterations /\ ckpt' \in SUBSET (Nat \ {0}) /\ i \in ckpt' /\ i \in Nat
    BY <1>t, <2>1
  <2>3. LatestIsKept(i)'
    <3>1. CASE ckpt = {} /\ ckptSettled = {} /\ \A c \in Callers : pruning[c] = {}
      BY <1>t, <2>1, <2>2, <3>1 DEF LatestIsKept
    <3>2. ASSUME NEW m \in ckpt, LatestIsKept(m) PROVE LatestIsKept(i)'
      <4>1. m < i /\ m \in Nat
        BY <1>t, <2>1
      <4>2. \A j \in ckpt \cup ckptSettled : j <= i
        BY <1>t, <3>2, <4>1, <2>2 DEF LatestIsKept
      <4>3. \A c \in Callers : \A j \in pruning[c] : j \in Nat /\ j < i
        BY <1>t, <3>2, <4>1, <2>2 DEF LatestIsKept
      <4> QED BY <2>1, <2>2, <4>2, <4>3 DEF LatestIsKept
    <3> QED BY <3>1, <3>2 DEF CkptInv
  <2>4. LoadLatest(ckpt') = i
    BY <2>2, <2>3, LoadLatestIsGreatest DEF LatestIsKept
  <2>5. LoadLatest(ckpt) <= i
    BY <1>t, <1>s, <2>1, <2>2, LoadLatestIsGreatest DEF CkptInv
  <2> QED BY <1>t, <1>s, <2>1, <2>2, <2>3, <2>4, <2>5 DEF CkptInv
<1>2. ASSUME NEW c \in Callers, PruneList(c) PROVE CkptInv' /\ ckpt' = ckpt
  <2>1. /\ UNCHANGED <<ckpt, ckptSettled>>
        /\ \E some \in SUBSET (ckpt \ ckptSettled) :
             pruning' = [pruning EXCEPT ![c] = (ckptSettled \cup some) \ Newest(ckptSettled \cup some)]
    BY <1>2 DEF PruneList
  <2>2. PICK seen \in SUBSET (ckpt \cup ckptSettled) :
          pruning' = [pruning EXCEPT ![c] = seen \ Newest(seen)]
    BY <2>1
  <2>3. pruning' \in [Callers -> SUBSET Iterations]
    BY <1>t, <2>2
  <2>4. ASSUME NEW m \in ckpt, LatestIsKept(m) PROVE LatestIsKept(m)'
    <3>1. ASSUME NEW i \in seen \ Newest(seen) PROVE i < m
      <4>1. PICK j \in seen : j > i
        BY PrunedAreOlder
      <4>2. j <= m /\ i \in Nat /\ j \in Nat /\ m \in Nat
        BY <1>t, <2>4 DEF LatestIsKept
      <4> QED BY <4>1, <4>2
    <3>2. \A d \in Callers : pruning'[d] = pruning[d] \/ pruning'[d] = seen \ Newest(seen)
      BY <1>t, <2>2
    <3> QED BY <2>1, <2>4, <3>1, <3>2 DEF LatestIsKept
  <2>5. ASSUME ckpt = {}, ckptSettled = {}, \A d \in Callers : pruning[d] = {}
        PROVE  \A d \in Callers : pruning'[d] = {}
    BY <1>t, <2>2, <2>5
  <2> QED BY <1>t, <2>1, <2>3, <2>4, <2>5 DEF CkptInv
<1>3. ASSUME NEW c \in Callers, PruneBatch(c) PROVE CkptInv' /\ LoadLatest(ckpt') >= LoadLatest(ckpt)
  <2>1. PICK gone \in SUBSET pruning[c] :
          /\ gone # {} /\ ckpt' = ckpt \ gone
          /\ pruning' = [pruning EXCEPT ![c] = @ \ gone]
          /\ ckptSettled' = ckptSettled
    BY <1>3 DEF PruneBatch
  <2>2. PICK m \in ckpt : LatestIsKept(m)
    BY <2>1 DEF CkptInv
  <2>3. m \in ckpt' /\ ckpt' \subseteq ckpt /\ m \in Nat
    BY <1>t, <2>1, <2>2 DEF LatestIsKept
  <2>4. \A d \in Callers : pruning'[d] \subseteq pruning[d]
    BY <1>t, <2>1
  <2>5. LatestIsKept(m)'
    BY <2>1, <2>2, <2>3, <2>4 DEF LatestIsKept
  <2>6. pruning' \in [Callers -> SUBSET Iterations]
    BY <1>t, <2>1
  <2>7. LoadLatest(ckpt') = m
    BY <1>t, <2>3, <2>5, LoadLatestIsGreatest DEF LatestIsKept
  <2> QED BY <1>t, <1>s, <2>1, <2>2, <2>3, <2>5, <2>6, <2>7 DEF CkptInv
<1>4. ASSUME NEW c \in Callers, PruneFails(c) PROVE CkptInv' /\ ckpt' = ckpt
  <2>1. /\ UNCHANGED <<ckpt, ckptSettled>> /\ pruning' \in [Callers -> SUBSET Iterations]
        /\ \A d \in Callers : pruning'[d] \subseteq pruning[d]
    BY <1>t, <1>4 DEF PruneFails
  <2>2. \A m \in ckpt : LatestIsKept(m) => LatestIsKept(m)'
    BY <2>1 DEF LatestIsKept
  <2> QED BY <1>t, <2>1, <2>2 DEF CkptInv
<1>5. CASE CkptSettle
  <2>1. ckptSettled' = ckpt /\ UNCHANGED <<ckpt, pruning>>
    BY <1>5 DEF CkptSettle
  <2>2. \A m \in ckpt : LatestIsKept(m) => LatestIsKept(m)'
    BY <2>1 DEF LatestIsKept
  <2>3. CkptInv'
    BY <1>t, <2>1, <2>2 DEF CkptInv
  <2> QED BY <1>s, <2>1, <2>3
<1> QED BY <1>s, <1>1, <1>2, <1>3, <1>4, <1>5 DEF CkptNext

-----------------------------------------------------------------------------
(* Participants *)

\* Every step of the participant slice keeps its shape, and a resolve that
\* returns has returned what it was asked for.
LEMMA PartStepKeepsPartInv ==
    ASSUME backend \in Adapters, PartTypeOK, UNCHANGED backend, PartNext
    PROVE  PartTypeOK' /\ ResolvesWithinConversation'
<1>n. partRead.op = "none"
  BY DEF PartNext, NoRead
<1>1. ASSUME NEW p \in Participant, AddParticipant(p) PROVE PartTypeOK' /\ ResolvesWithinConversation'
  BY <1>n, <1>1 DEF AddParticipant, PartTypeOK, ResolvesWithinConversation
<1>2. ASSUME NEW id \in PartIds, GetParticipant(id) PROVE PartTypeOK' /\ ResolvesWithinConversation'
  BY <1>2 DEF GetParticipant, PartTypeOK, ResolvesWithinConversation
<1>3. ASSUME NEW cv \in PartConvs, ListParticipants(cv) PROVE PartTypeOK' /\ ResolvesWithinConversation'
  BY <1>3 DEF ListParticipants, PartTypeOK, ResolvesWithinConversation
<1>4. ASSUME NEW cv \in PartConvs, NEW ext \in ExternalIds, ResolveParticipant(cv, ext)
      PROVE  PartTypeOK' /\ ResolvesWithinConversation'
  <2>1. PICK view \in PartViews :
          \E result \in IF MatchExternal(view, cv, ext) = {} THEN {{}}
                        ELSE {{p} : p \in Picks(MatchExternal(view, cv, ext))} :
            partRead' = [op |-> "resolve", conv |-> cv, key |-> ext, result |-> result]
    BY <1>4 DEF ResolveParticipant
  <2> DEFINE found == MatchExternal(view, cv, ext)
  <2>2. PICK result \in IF found = {} THEN {{}} ELSE {{p} : p \in Picks(found)} :
          partRead' = [op |-> "resolve", conv |-> cv, key |-> ext, result |-> result]
    BY <2>1
  <2>3. UNCHANGED <<parts, partSettled>>
    BY <1>4 DEF ResolveParticipant
  <2>4. Picks(found) \subseteq found
    BY DEF Picks, Adapters
  <2>5. backend # "dynamo" => view = parts
    BY DEF PartViews
  <2>6. result = {} => found = {}
    BY <2>2
  <2>7. result \subseteq found
    BY <2>2, <2>4
  <2>8. \A p \in result : p.conv = cv /\ p.external_id = ext
    BY <2>7 DEF MatchExternal
  <2>9. backend # "dynamo" /\ result = {} => ~\E p \in parts : p.conv = cv /\ p.external_id = ext
    BY <2>5, <2>6 DEF MatchExternal
  <2> QED BY <2>2, <2>3, <2>8, <2>9 DEF PartTypeOK, ResolvesWithinConversation
<1>5. CASE PartSettle
  BY <1>n, <1>5 DEF PartSettle, PartTypeOK, ResolvesWithinConversation
<1> QED BY <1>1, <1>2, <1>3, <1>4, <1>5 DEF PartNext

-----------------------------------------------------------------------------
(* The adapters as a whole *)

StorageInv ==
    /\ backend \in Adapters
    /\ ConvInv
    /\ LogInv
    /\ SessInv
    /\ CkptInv
    /\ PartTypeOK
    /\ ResolvesWithinConversation

\* The slices start in their invariants.
LEMMA InitGivesStorageInv == Init => StorageInv
<1> SUFFICES ASSUME Init PROVE StorageInv
  OBVIOUS
<1>1. ConvInv
  BY DEF Init, ConvInit, ConvInv, ConvTypeOK, CallsWellFormed, DynamoClaims, OneRowPerKey, ConvIdle, ConvSteps
<1>2. LogInv
  <2>1. LogTypeOK
    BY LogAssumption DEF Init, LogInit, LogTypeOK, NoWalk, Stored
  <2>2. NoWalk = [f \in WalkFields |-> NoWalk[f]]
    BY DEF NoWalk, WalkFields
  <2>3. DOMAIN append = Callers /\ DOMAIN walk = Walkers /\ \A c \in Callers : append[c] = NoAppend
    BY DEF Init, LogInit
  <2>4. \A w \in Walkers : walk[w] = [f \in WalkFields |-> walk[w][f]]
    BY <2>2 DEF Init, LogInit
  <2>5. LogShape
    BY <2>1, <2>3, <2>4 DEF LogShape
  <2>6. EarlierAreStored /\ NumbersAreDrawn /\ AppendsInOrder
    BY DEF Init, LogInit, EarlierAreStored, NumbersAreDrawn, AppendsInOrder, Stored
  <2> QED BY <2>3, <2>5, <2>6 DEF LogInv, OneAppendPerMessage, DrawnInOrder
<1>3. SessInv
  BY DEF Init, SessInit, SessInv, SessIdle
<1>4. CkptInv
  BY DEF Init, CkptInit, CkptInv
<1>5. PartTypeOK /\ ResolvesWithinConversation
  BY DEF Init, PartInit, PartTypeOK, ResolvesWithinConversation, NoRead
<1>6. backend \in Adapters
  BY BackendsAssumption DEF Init
<1> QED BY <1>1, <1>2, <1>3, <1>4, <1>5, <1>6 DEF StorageInv

\* A step that leaves a slice alone keeps the slice's invariant.
LEMMA OtherSlicesKept ==
    ASSUME UNCHANGED backend
    PROVE  /\ ConvInv /\ UNCHANGED convVars => ConvInv'
           /\ LogInv /\ UNCHANGED logVars => LogInv'
           /\ SessInv /\ UNCHANGED sessVars => SessInv'
           /\ CkptInv /\ UNCHANGED ckptVars => CkptInv'
           /\ PartTypeOK /\ ResolvesWithinConversation /\ UNCHANGED partVars
                => PartTypeOK' /\ ResolvesWithinConversation'
<1>1. ConvInv /\ UNCHANGED convVars => ConvInv'
  BY DEF ConvInv, convVars, ConvTypeOK, CallsWellFormed, DynamoClaims, Claimed, OneRowPerKey
<1>2. LogInv /\ UNCHANGED logVars => LogInv'
  BY DEF LogInv, logVars, LogShape, LogTypeOK, OneAppendPerMessage, EarlierAreStored, DrawnInOrder,
         NumbersAreDrawn, AppendsInOrder, Stored
<1>3. SessInv /\ UNCHANGED sessVars => SessInv'
  BY DEF SessInv, sessVars
<1>4. CkptInv /\ UNCHANGED ckptVars => CkptInv'
  BY DEF CkptInv, ckptVars, LatestIsKept
<1>5. PartTypeOK /\ ResolvesWithinConversation /\ UNCHANGED partVars
        => PartTypeOK' /\ ResolvesWithinConversation'
  BY DEF PartTypeOK, ResolvesWithinConversation, partVars
<1> QED BY <1>1, <1>2, <1>3, <1>4, <1>5

\* Every step of an adapter keeps the invariant of every slice.
LEMMA StepKeepsStorageInv == StorageInv /\ [Next]_vars => StorageInv'
<1> SUFFICES ASSUME StorageInv, [Next]_vars PROVE StorageInv'
  OBVIOUS
<1>0. UNCHANGED backend
  BY DEF Next, vars
<1>1. CASE UNCHANGED vars
  BY <1>0, <1>1, OtherSlicesKept DEF StorageInv, vars
<1>2. CASE ConvNext /\ UNCHANGED <<logVars, sessVars, ckptVars, partVars>>
  BY <1>0, <1>2, ConvStepKeepsConvInv, OtherSlicesKept DEF StorageInv
<1>3. CASE LogNext /\ UNCHANGED <<convVars, sessVars, ckptVars, partVars>>
  BY <1>0, <1>3, LogStepKeepsLogInv, OtherSlicesKept DEF StorageInv
<1>4. CASE SessNext /\ UNCHANGED <<convVars, logVars, ckptVars, partVars>>
  BY <1>0, <1>4, SessStepKeepsSessInv, OtherSlicesKept DEF StorageInv
<1>5. CASE CkptNext /\ UNCHANGED <<convVars, logVars, sessVars, partVars>>
  BY <1>0, <1>5, CkptStepKeepsCkptInv, OtherSlicesKept DEF StorageInv
<1>6. CASE PartNext /\ UNCHANGED <<convVars, logVars, sessVars, ckptVars>>
  BY <1>0, <1>6, PartStepKeepsPartInv, OtherSlicesKept DEF StorageInv
<1> QED BY <1>1, <1>2, <1>3, <1>4, <1>5, <1>6 DEF Next

\* The invariants of all slices hold throughout.
THEOREM StorageInvHolds == Spec => []StorageInv
BY InitGivesStorageInv, StepKeepsStorageInv, PTL DEF Spec

\* Every reachable state of every adapter has the declared shape.
THEOREM StorageTypeOK == Spec => []TypeOK
<1>1. StorageInv => TypeOK
  BY DEF StorageInv, TypeOK, ConvInv, LogInv, LogShape, SessInv, SessTypeOK, CkptInv
<1> QED BY <1>1, StorageInvHolds, PTL

\* create_conversation is idempotent per key in all three adapters, however
\* calls overlap and fail and whatever replica a read comes from.
THEOREM CreateIsIdempotent == Spec => []OneConversationPerKey
<1>1. StorageInv => OneConversationPerKey
  BY ConvInvGivesOneConversation DEF StorageInv
<1> QED BY <1>1, StorageInvHolds, PTL

\* The log keeps the order of appends that do not overlap.
THEOREM AppendsStayInOrder == Spec => []AppendsInOrder
<1>1. StorageInv => AppendsInOrder
  BY DEF StorageInv, LogInv
<1> QED BY <1>1, StorageInvHolds, PTL

\* Whatever is appended between two pages, a walk reads messages in order and
\* none twice, and it ends when it has read all that was visible to every read
\* at its start; of DynamoDB this is true of ascending walks.
THEOREM WalksAreComplete == Spec => []WalkIsComplete
<1>1. Init => WalkInv
  <2> SUFFICES ASSUME Init PROVE WalkInv
    OBVIOUS
  <2>1. /\ \A c \in Callers : append[c] = NoAppend
        /\ Stored = {} /\ msgSettled = {} /\ \A w \in Walkers : walk[w] = NoWalk
    BY DEF Init, LogInit, Stored
  <2>2. NoWalk.read = <<>> /\ NoWalk.due = {} /\ NoWalk.descending = FALSE /\ NoWalk.state = "idle"
    BY DEF NoWalk
  <2>3. <<>> \in Seq(Stored) /\ Len(<<>>) = 0
    OBVIOUS
  <2>4. \A w \in Walkers : WalkOK(w)
    <3> SUFFICES ASSUME NEW w \in Walkers PROVE WalkOK(w)
      OBVIOUS
    <3>1. /\ walk[w].read = <<>> /\ walk[w].due = {} /\ walk[w].descending = FALSE
          /\ walk[w].state = "idle"
      BY <2>1, <2>2
    <3>2. InQueryOrder(<<>>, FALSE)
      BY <2>3 DEF InQueryOrder
    <3>3. walk[w].read \in Seq(Stored)
      BY <2>3, <3>1
    <3> QED BY <3>1, <3>2, <3>3 DEF WalkOK
  <2> QED BY <2>1, <2>4 DEF WalkInv, NumbersAreOwn
<1>2. StorageInv /\ WalkInv /\ [Next]_vars => WalkInv'
  <2> SUFFICES ASSUME StorageInv, WalkInv, [Next]_vars PROVE WalkInv'
    OBVIOUS
  <2>1. backend' = backend
    BY DEF Next, vars
  <2>2. CASE UNCHANGED logVars
    <3>1. UNCHANGED <<seqOf, msgSettled, append, walk>> /\ Stored' = Stored
      BY <2>2 DEF logVars, Stored
    <3>2. NumbersAreOwn'
      BY <3>1 DEF WalkInv, NumbersAreOwn, NoAppend
    <3> QED BY <2>1, <3>1, <3>2, OtherWalksKept DEF WalkInv
  <2>3. CASE LogNext
    BY <2>1, <2>3, LogStepKeepsWalkInv DEF StorageInv
  <2> QED BY <2>2, <2>3 DEF Next, vars
<1>3. WalkInv => WalkIsComplete
  <2> SUFFICES ASSUME WalkInv, NEW w \in Walkers
               PROVE  InOrder(w) /\ (Promised(w) => Complete(w))
    BY DEF WalkIsComplete, Promised
  <2>1. DOMAIN walk[w].read = 1 .. Len(walk[w].read)
    BY DEF WalkInv, WalkOK
  <2> QED BY <2>1 DEF WalkInv, WalkOK, InOrder, InQueryOrder, Complete
<1> QED BY <1>1, <1>2, <1>3, StorageInvHolds, PTL DEF Spec

\* An external id is resolved within its conversation.
THEOREM ResolveIsSound == Spec => []ResolvesWithinConversation
<1>1. StorageInv => ResolvesWithinConversation
  BY DEF StorageInv
<1> QED BY <1>1, StorageInvHolds, PTL

\* No interleaving of saves and prunes, and no stale listing, makes load_latest
\* go back to an older checkpoint.
THEOREM LatestCheckpointIsKept == Spec => LatestCheckpointStays
<1>1. StorageInv /\ [Next]_vars => [LoadLatest(ckpt') >= LoadLatest(ckpt)]_ckpt
  <2> SUFFICES ASSUME StorageInv, Next, ckpt' # ckpt PROVE LoadLatest(ckpt') >= LoadLatest(ckpt)
    BY DEF vars, ckptVars
  <2>1. CkptNext
    BY DEF Next, ckptVars
  <2> QED BY <2>1, CkptStepKeepsCkptInv DEF StorageInv
<1> QED BY <1>1, StorageInvHolds, PTL DEF Spec, LatestCheckpointStays
=============================================================================
