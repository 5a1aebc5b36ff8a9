------------------------------ MODULE AdminApi ------------------------------
(***************************************************************************)
(* The gates of the server and its admin HTTP API: the role gate and the   *)
(* widget policy, the connector CRUD and index triggers over the connector *)
(* and indexing stores, a connector's pull, the agent settings and the     *)
(* paged list of conversations.  The stores are in memory, in Postgres or  *)
(* in DynamoDB; a remote store swallows its failures (a write is dropped,  *)
(* a read finds nothing).  The registry of connector names lives in the    *)
(* process and is empty after a restart.                                   *)
(***************************************************************************)
EXTENDS Integers, Auth, Connectors, SequencesExt

CONSTANTS
    Backends,       \* the kinds of store to look at
    Requests,       \* requests in flight that span several steps
    Ids,            \* connector ids
    Names,          \* connector names
    Sources,        \* what a connector's config points at
    MaxConvs,       \* bound: conversations, 1, 2, ... in the order of creation
    Limit,          \* limit of a page of conversations
    MaxDoc,         \* bound: the time, at which at most one document appears
    MaxEdits,       \* bound: connectors created or updated
    MaxRestarts,    \* bound: restarts of the server
    Policies,       \* the widget policies of an agent, Nil for none
    Origins,        \* the origins of embedding pages, Nil when not sent
    SigningKeys,    \* the keys authContexts are signed with
    MaxAge,         \* the replay window
    MaxNow,         \* bound: the clock
    Editors,        \* consoles with the settings form open
    MaxSaves,       \* bound: settings saved
    AuthEnvs,       \* the environments to look at, a subset of AuthEnv
    Tokens          \* the tokens presented, a subset of Token and Nil

ASSUME AdminAssumption ==
    /\ Backends \subseteq {"memory", "postgres", "dynamo"}
    /\ Limit \in Nat \ {0}
    /\ {MaxConvs, MaxDoc, MaxAge, MaxNow, MaxSaves} \subseteq Nat
    /\ AuthEnvs \subseteq AuthEnv
    /\ Tokens \subseteq Token \cup {Nil}

VARIABLES
    part,           \* the part of the API this behaviour exercises
    store,          \* the kind of store the server was built with
    env,            \* the environment the server was started in
    answer,         \* gate: the last answer of a route
    cfgs,           \* the connector_configs rows of each organization
    ledger,         \* the indexing store: the latest cursor under each key
    recorded,       \* the keys that have a recorded run
    registry,       \* AppState::connectors of each organization
    ranHere,        \* history: names whose run was recorded by this process
    published,      \* the time, and the documents every source has, named by theirs
    indexed,        \* documents in the knowledge base, per organization
    sourcesOf,      \* history: the sources a name was ever given
    request,        \* the requests in flight
    edits,          \* connectors created or updated so far
    restarts,       \* restarts so far
    created,        \* conversations so far, numbered as they were created
    orgOf,          \* the organization of each conversation
    owner,          \* the user participant's external id
    walk,           \* a console paging through the conversations
    settings,       \* the settings row of each organization, Nil when unset
    settled,        \* DynamoDB: the settings rows that every replica has
    form,           \* what each console's settings form was filled with
    saves,          \* settings saved so far
    embed           \* the widget policy, the clock and the last answer

gateVars == answer
connVars == <<cfgs, ledger, recorded, registry, ranHere, published, indexed,
              sourcesOf, request, edits, restarts>>
listVars == <<created, orgOf, owner, walk>>
formVars == <<settings, settled, form, saves>>
vars == <<part, store, env, gateVars, connVars, listVars, formVars, embed, pullVars>>

Parts == {"gate", "connectors", "conversations", "settings", "embed", "pull"}
RemoteStore == store # "memory"

\* A call of a remote store may fail; the trait has no way to say so.
Swallowed == IF RemoteStore THEN BOOLEAN ELSE {FALSE}

\* The principals a route with minimum rank min lets in.
Admitted(min) ==
    {RequireRole(env, t, min).principal : t \in Tokens} \ {Nil}
AdmittedOrgs(min) == {p.org : p \in Admitted(min)}

-----------------------------------------------------------------------------
(* The gate *)

\* A route with minimum rank min answers a request with token t.
Gate(t, min) ==
    /\ answer' = [token |-> t, min |-> min,
                  result |-> RequireRole(env, t, min)]

\* A client connects to /ws, or sends a turn to the Lambda, with token t.
Connect(t) ==
    LET p == ConnectAs(env, t)
    IN answer' = [token |-> t, min |-> 0,
                  result |-> IF p = Nil THEN Refuse("anonymous") ELSE Grant(p)]

GateNext == \E t \in Tokens : Connect(t) \/ \E min \in 0 .. 2 : Gate(t, min)

-----------------------------------------------------------------------------
(* Connectors *)

\* Mutant: the ledger key is the connector's name.
NameOnlyKey(o, n) == <<CHOOSE p \in Orgs : TRUE, n>>

\* scoped_connector_key.
ScopedKey(o, n) == <<o, n>>

\* A request that has done its first step; docs and cursor are those of a run.
InFlight(step, o, id, n, s) ==
    [step |-> step, org |-> o, id |-> id, name |-> n, source |-> s, docs |-> {}, cursor |-> 0]
Idle == InFlight("idle", Nil, Nil, Nil, Nil)

\* record_connector and the sources history.
RecordConnector(o, n) == registry' = [registry EXCEPT ![o] = @ \cup {n}]
Given(o, n, s) == sourcesOf' = [sourcesOf EXCEPT ![o][n] = @ \cup {s}]

\* upsert of a row: stored, or dropped by a failing store.
Upsert(o, id, row) ==
    \E dropped \in Swallowed :
        cfgs' = IF dropped THEN cfgs ELSE [cfgs EXCEPT ![o][id] = row]

\* The store's get: the row of that organization, which is what list shows too.
GetConnector(o, id) == cfgs[o][id]

\* create_connector: a fresh id; the name is recorded whether or not the row
\* was stored.
CreateConnector(o, id, n, s) ==
    /\ edits < MaxEdits
    /\ \A q \in Orgs : cfgs[q][id] = Nil
    /\ \A r \in Requests : request[r].id # id
    /\ Upsert(o, id, [name |-> n, source |-> s])
    /\ RecordConnector(o, n)
    /\ Given(o, n, s)
    /\ edits' = edits + 1
    /\ UNCHANGED <<ledger, recorded, ranHere, published, indexed, request, restarts>>

\* update_connector: the row is read (404 when there is none or the read fails),
UpdateGet(r, o, id, n, s) ==
    /\ edits < MaxEdits
    /\ request[r] = Idle
    /\ GetConnector(o, id) # Nil
    /\ request' = [request EXCEPT ![r] = InFlight("update", o, id, n, s)]
    /\ edits' = edits + 1
    /\ UNCHANGED <<cfgs, ledger, recorded, registry, ranHere, published, indexed,
                   sourcesOf, restarts>>

\* and written, even when it was deleted in between.
UpdatePut(r) ==
    LET q == request[r]
    IN /\ q.step = "update"
       /\ Upsert(q.org, q.id, [name |-> q.name, source |-> q.source])
       /\ RecordConnector(q.org, q.name)
       /\ Given(q.org, q.name, q.source)
       /\ request' = [request EXCEPT ![r] = Idle]
       /\ UNCHANGED <<ledger, recorded, ranHere, published, indexed, edits, restarts>>

\* delete_connector: registry and ledger keep the name.
DeleteConnector(o, id) ==
    /\ cfgs[o][id] # Nil
    /\ cfgs' = [cfgs EXCEPT ![o][id] = Nil]
    /\ UNCHANGED <<ledger, recorded, registry, ranHere, published, indexed,
                   sourcesOf, request, edits, restarts>>

\* index_connector: the row is read and the connector built under its key; the
\* request holds the time, which started_at is not before.
IndexGet(r, o, id) ==
    /\ request[r] = Idle
    /\ GetConnector(o, id) # Nil
    /\ request' = [request EXCEPT ![r] =
          [InFlight("index", o, id, GetConnector(o, id).name, GetConnector(o, id).source)
              EXCEPT !.cursor = published.now]]
    /\ UNCHANGED <<cfgs, ledger, recorded, registry, ranHere, published, indexed,
                   sourcesOf, edits, restarts>>

\* The cursor of a run: the time of the newest document it pulled, started_at
\* when it pulled only documents without a time, since when it pulled nothing.
PulledCursor(docs, timeless, startedAt, since) ==
    CASE docs # {}               -> CHOOSE t \in docs : \A d \in docs : d <= t
      [] docs = {} /\ timeless   -> startedAt
      [] docs = {} /\ ~timeless  -> since

\* latest_cursor: the greatest cursor of a succeeded run, none (0) when the read fails.
LatestCursor(key, failed) == IF failed THEN 0 ELSE ledger[key]

\* record_run of a run with this cursor (0: a failed run's none), or a lost record.
RecordRun(key, cursor, lost) ==
    /\ ledger' = IF ~lost /\ cursor > ledger[key] THEN [ledger EXCEPT ![key] = cursor] ELSE ledger
    /\ recorded' = IF lost THEN recorded ELSE recorded \cup {key}
    /\ ranHere' = IF lost THEN ranHere ELSE ranHere \cup {key}

\* run_once takes started_at, reads the cursor and pulls from it on; there may
\* be documents without a time (files), which are pulled by every run.
IndexPull(r) ==
    LET q == request[r]
    IN /\ q.step = "index"
       /\ \E failed \in Swallowed, timeless \in BOOLEAN,
             startedAt \in q.cursor .. published.now :
            LET since == LatestCursor(ScopedKey(q.org, q.name), failed)
                docs == {d \in published.docs : d >= since}
            IN request' = [request EXCEPT
                 ![r].step = "pulled", ![r].docs = docs,
                 ![r].cursor = PulledCursor(docs, timeless, startedAt, since)]
       /\ UNCHANGED <<cfgs, ledger, recorded, registry, ranHere, published,
                      indexed, sourcesOf, edits, restarts>>

\* Every pulled document is stored and the run recorded as succeeded, or some
\* are and it is recorded as failed, without a cursor.  The record may be lost.
IndexRecord(r) ==
    LET q == request[r]
        key == ScopedKey(q.org, q.name)
    IN /\ q.step = "pulled"
       /\ \E stored \in SUBSET q.docs, lost \in Swallowed :
            /\ indexed' = [indexed EXCEPT ![q.org] = @ \cup ({q.source} \X stored)]
            /\ RecordRun(key, IF stored = q.docs THEN q.cursor ELSE 0, lost)
       /\ RecordConnector(q.org, q.name)
       /\ request' = [request EXCEPT ![r] = Idle]
       /\ UNCHANGED <<cfgs, published, sourcesOf, edits, restarts>>

\* Time goes on, and the sources may get a document.
Publish ==
    /\ published.now < MaxDoc
    /\ \E new \in {{}, {published.now + 1}} :
         published' = [now |-> published.now + 1, docs |-> published.docs \cup new]
    /\ UNCHANGED <<cfgs, ledger, recorded, registry, ranHere, indexed, sourcesOf,
                   request, edits, restarts>>

\* The server restarts: the registry and the requests are gone, and with the
\* in-memory stores everything else.
Restart ==
    /\ restarts < MaxRestarts
    /\ restarts' = restarts + 1
    /\ registry' = [o \in Orgs |-> {}]
    /\ ranHere' = {}
    /\ request' = [r \in Requests |-> Idle]
    /\ IF RemoteStore
       THEN UNCHANGED <<cfgs, ledger, recorded, indexed>>
       ELSE /\ cfgs' = [o \in Orgs |-> [id \in Ids |-> Nil]]
            /\ ledger' = [k \in Orgs \X Names |-> 0]
            /\ recorded' = {}
            /\ indexed' = [o \in Orgs |-> {}]
    /\ UNCHANGED <<published, sourcesOf, edits>>

\* indexing_runs: the keys whose runs are listed to an organization.
ListedRuns(o) == {ScopedKey(o, n) : n \in registry[o]} \cap recorded

\* Connectors are changed by admins and indexed by curators of the organization.
ConnectorsNext ==
    \/ \E o \in AdmittedOrgs(2), id \in Ids :
         \/ \E n \in Names, s \in Sources :
              \/ CreateConnector(o, id, n, s)
              \/ \E r \in Requests : UpdateGet(r, o, id, n, s)
         \/ DeleteConnector(o, id)
    \/ \E o \in AdmittedOrgs(1), id \in Ids, r \in Requests : IndexGet(r, o, id)
    \/ \E r \in Requests : UpdatePut(r) \/ IndexPull(r) \/ IndexRecord(r)
    \/ Publish \/ Restart

-----------------------------------------------------------------------------
(* Conversations *)

NoWalk == [state |-> "idle", by |-> Nil, offset |-> 0, todo |-> <<>>, seen |-> <<>>,
           read |-> <<>>, opened |-> Nil, due |-> {}, failed |-> FALSE]

Convs == 1 .. MaxConvs

Privileged(p) == RoleRank[p.role] >= 1

\* conversation_owned_by, when the participants can be read.
OwnedBy(c, p) == owner[c] = p.user

\* The conversations of the principal's organization that it may see.
VisibleTo(p) ==
    {c \in 1 .. created : orgOf[c] = p.org /\ (Privileged(p) \/ OwnedBy(c, p))}

\* What list_conversations_by_org may return, sorted newest first: DynamoDB may
\* lack recent ones.
NewestFirst(S) ==
    {s \in [1 .. Cardinality(S) -> S] : \A i, j \in DOMAIN s : i < j => s[i] > s[j]}
Listings(o) ==
    UNION {NewestFirst({c \in 1 .. shown : orgOf[c] = o}) :
             shown \in IF store = "dynamo" THEN 0 .. created ELSE {created}}

\* A conversation is created, and later its user participant is added.
NewConversation(o) ==
    /\ created < MaxConvs
    /\ created' = created + 1
    /\ orgOf' = [orgOf EXCEPT ![created + 1] = o]
    /\ UNCHANGED <<owner, walk>>

AddParticipant(c, u) ==
    /\ c <= created /\ owner[c] = Nil
    /\ owner' = [owner EXCEPT ![c] = u]
    /\ UNCHANGED <<created, orgOf, walk>>

\* A console opens the list,
WalkStart(p) ==
    /\ walk.state = "idle"
    /\ walk' = [NoWalk EXCEPT !.state = "on", !.by = p, !.due = VisibleTo(p)]
    /\ UNCHANGED <<created, orgOf, owner>>

\* list_conversations reads the organization's conversations newest first,
PageList ==
    /\ walk.state = "on"
    /\ \E all \in Listings(walk.by.org) :
         walk' = [walk EXCEPT
              !.state = "listed",
              !.todo = IF Privileged(walk.by) THEN <<>> ELSE all,
              !.seen = IF Privileged(walk.by) THEN all ELSE <<>>]
    /\ UNCHANGED <<created, orgOf, owner>>

\* keeps those a Basic caller owns (a failed lookup counts as not owned),
PageCheck ==
    /\ walk.state = "listed" /\ walk.todo # <<>>
    /\ \E failed \in Swallowed :
         walk' = [walk EXCEPT
             !.todo = Tail(@),
             !.failed = @ \/ failed,
             !.seen = IF OwnedBy(Head(walk.todo), walk.by) /\ ~failed
                      THEN Append(@, Head(walk.todo)) ELSE @]
    /\ UNCHANGED <<created, orgOf, owner>>

\* Mutant: the test for a further page is off by one.
LastPageEarly(next, total) == next + 1 >= total

\* next_cursor is None when the page reached the end.
IsLastPage(next, total) == next >= total

\* and replies with the rows from the offset on.
PageReply ==
    /\ walk.state = "listed" /\ walk.todo = <<>>
    /\ LET total == Len(walk.seen)
           page == SubSeq(walk.seen, walk.offset + 1,
                          IF walk.offset + Limit < total THEN walk.offset + Limit ELSE total)
           next == walk.offset + Len(page)
       IN walk' = [walk EXCEPT
            !.read = @ \o page, !.seen = <<>>, !.offset = next,
            !.state = IF IsLastPage(next, total) THEN "over" ELSE "on"]
    /\ UNCHANGED <<created, orgOf, owner>>

\* conversation_messages, once the console has paged through the list: 404 for
\* another organization's conversation, 403 for one a Basic caller does not own.
OpenConversation(c) ==
    /\ walk.state = "over" /\ c <= created
    /\ orgOf[c] = walk.by.org
    /\ Privileged(walk.by) \/ OwnedBy(c, walk.by)
    /\ walk' = [walk EXCEPT !.opened = c]
    /\ UNCHANGED <<created, orgOf, owner>>

ConversationsNext ==
    \/ \E o \in Orgs : NewConversation(o)
    \/ \E c \in Convs, u \in Users : AddParticipant(c, u)
    \/ \E p \in Admitted(0) : WalkStart(p)
    \/ PageList \/ PageCheck \/ PageReply
    \/ \E c \in Convs : OpenConversation(c)

-----------------------------------------------------------------------------
(* Agent settings *)

\* model and system_prompt; the defaults have version 0.
Settings == [model : 0 .. MaxSaves, prompt : 0 .. MaxSaves]
DefaultSettings == [model |-> 0, prompt |-> 0]
NoForm == [org |-> Nil, shown |-> Nil, fresh |-> FALSE, sure |-> FALSE]

\* Mutant: the row's model is not read.
SettingsWithoutModel(row, failed) ==
    IF row = Nil \/ failed THEN DefaultSettings ELSE [row EXCEPT !.model = 0]

\* SettingsStore::get: the row, or the defaults when there is none or the read fails.
StoredSettings(row, failed) == IF row = Nil \/ failed THEN DefaultSettings ELSE row

\* The row is settled: no replica of the store has an older one.
RowIsSettled(o) == store = "dynamo" => settled[o] = settings[o]

\* The rows a read may find: DynamoDB's get_item is eventually consistent.
RowsRead(o) == {settings[o]} \cup IF store = "dynamo" THEN {settled[o]} ELSE {}

\* get_settings: the console fills its form.  (History: until somebody saves,
\* the form is fresh; it is sure when the read worked on a settled row.)
OpenForm(e, p) ==
    /\ \E failed \in Swallowed, row \in RowsRead(p.org) :
         form' = [form EXCEPT ![e] =
            [org |-> p.org, shown |-> StoredSettings(row, failed), fresh |-> TRUE,
             sure |-> ~failed /\ RowIsSettled(p.org)]]
    /\ UNCHANGED <<settings, settled, saves>>

SettleSettings(o) ==
    /\ ~RowIsSettled(o)
    /\ settled' = [settled EXCEPT ![o] = settings[o]]
    /\ UNCHANGED <<settings, form, saves>>

\* put_settings: the console sends the whole form with one field edited, and the
\* row is replaced (or the write dropped).  Other forms are no longer fresh.
SaveForm(e, p, field) ==
    /\ saves < MaxSaves
    /\ form[e].org = p.org
    /\ saves' = saves + 1
    /\ \E dropped \in Swallowed :
         settings' = IF dropped THEN settings ELSE
             [settings EXCEPT ![p.org] = [form[e].shown EXCEPT ![field] = saves + 1]]
    /\ form' = [f \in Editors |->
          IF f = e THEN NoForm
          ELSE [form[f] EXCEPT !.fresh = @ /\ form[f].org # p.org]]
    /\ UNCHANGED settled

SettingsNext ==
    \/ \E e \in Editors :
         \/ \E p \in Admitted(1) : OpenForm(e, p)
         \/ \E p \in Admitted(2), field \in {"model", "prompt"} : SaveForm(e, p, field)
    \/ \E o \in Orgs : SettleSettings(o)

-----------------------------------------------------------------------------
(* Embedded widgets *)

\* The authContexts a page may send: signed at some time with some key, or with
\* a field missing.
Contexts == [complete : BOOLEAN, key : SigningKeys, at : 0 .. MaxNow]

\* The host application changes the agent's policy.
SetPolicy(policy) == embed' = [embed EXCEPT !.policy = policy]

Tick == embed.now < MaxNow /\ embed' = [embed EXCEPT !.now = @ + 1]

\* A page with this origin asks for a session.
Embed(origin, ctx, strict) ==
    embed' = [embed EXCEPT !.asked =
        [origin |-> origin, ctx |-> ctx, strict |-> strict,
         error |-> EnforceWidgetAuth(embed.policy, strict, origin, ctx, embed.now, MaxAge)]]

\* The answer leaves no state behind: a behaviour ends with the first one.
EmbedNext ==
    /\ embed.asked = Nil
    /\ \/ \E policy \in Policies : SetPolicy(policy)
       \/ Tick
       \/ \E origin \in Origins, ctx \in Contexts \cup {Nil}, strict \in BOOLEAN :
            Embed(origin, ctx, strict)

-----------------------------------------------------------------------------
(* The specification *)

\* None is none of the values it stands beside.
ASSUME NilAssumption ==
    /\ Nil \notin Orgs \cup Users
    /\ Nil \notin Settings
    /\ Nil \notin {"none", "anonymous", "Unauthenticated", "InvalidToken", "MissingRole",
                   "Forbidden", "AGENT_NOT_AUTHORIZED", "ORIGIN_NOT_ALLOWED",
                   "AUTH_CONTEXT_INVALID"}

\* Hosts are sequences of labels, and a policy names hosts with at least one.
ASSUME OriginAssumption == \A o \in Origins \ {Nil} : o.host \in Seq(STRING)
ASSUME PolicyAssumption ==
    \A policy \in Policies \ {Nil} : \A p \in policy.allowed \ {AnyOrigin} :
        /\ p = Pattern(p.scheme, p.host, p.wild) /\ p.wild \in BOOLEAN
        /\ p.host \in Seq(STRING) /\ p.host # <<>>

\* Every part but the gate runs under one environment and tokens of all roles,
\* and the two remote stores only differ in what they list.
StandardEnv == [mode |-> "jwt", rsa |-> "absent", secret |-> TRUE,
                issuer |-> FALSE, audience |-> FALSE]

Init ==
    /\ part \in Parts
    /\ store \in CASE part = "conversations" -> Backends
                  [] part \in {"connectors", "settings"} -> Backends \ {"postgres"}
                  [] OTHER -> {CHOOSE b \in Backends : TRUE}
    /\ env \in IF part = "gate" THEN AuthEnvs ELSE {StandardEnv}
    /\ FromEnv(env) # "misconfigured"
    /\ answer = [token |-> Nil, min |-> 0, result |-> Refuse("none")]
    /\ cfgs = [o \in Orgs |-> [id \in Ids |-> Nil]]
    /\ ledger = [k \in Orgs \X Names |-> 0]
    /\ recorded = {}
    /\ registry = [o \in Orgs |-> {}]
    /\ ranHere = {}
    /\ published = [now |-> 0, docs |-> {}]
    /\ indexed = [o \in Orgs |-> {}]
    /\ sourcesOf = [o \in Orgs |-> [n \in Names |-> {}]]
    /\ request = [r \in Requests |-> Idle]
    /\ edits = 0
    /\ restarts = 0
    /\ created = 0
    /\ orgOf = [c \in Convs |-> Nil]
    /\ owner = [c \in Convs |-> Nil]
    /\ walk = NoWalk
    /\ settings = [o \in Orgs |-> Nil]
    /\ settled = [o \in Orgs |-> Nil]
    /\ form = [e \in Editors |-> NoForm]
    /\ saves = 0
    /\ embed = [policy |-> Nil, now |-> 0, asked |-> Nil]
    /\ \E start \in IF part = "pull" THEN Trees ELSE {CHOOSE t \in Trees : TRUE} : PullInit(start)

Next ==
    /\ UNCHANGED <<part, store, env>>
    /\ \/ part = "gate" /\ GateNext
          /\ UNCHANGED <<connVars, listVars, formVars, embed, pullVars>>
       \/ part = "connectors" /\ ConnectorsNext
          /\ UNCHANGED <<gateVars, listVars, formVars, embed, pullVars>>
       \/ part = "conversations" /\ ConversationsNext
          /\ UNCHANGED <<gateVars, connVars, formVars, embed, pullVars>>
       \/ part = "settings" /\ SettingsNext
          /\ UNCHANGED <<gateVars, connVars, listVars, embed, pullVars>>
       \/ part = "embed" /\ EmbedNext
          /\ UNCHANGED <<gateVars, connVars, listVars, formVars, pullVars>>
       \/ part = "pull" /\ PullNext
          /\ UNCHANGED <<gateVars, connVars, listVars, formVars, embed>>

Spec == Init /\ [][Next]_vars

-----------------------------------------------------------------------------
(* Properties *)

\* Type invariant.
TypeOK ==
    /\ part \in Parts /\ store \in Backends /\ env \in AuthEnv
    /\ ledger \in [Orgs \X Names -> 0 .. MaxDoc]
    /\ recorded \subseteq Orgs \X Names
    /\ registry \in [Orgs -> SUBSET Names]
    /\ indexed \in [Orgs -> SUBSET (Sources \X (1 .. MaxDoc))]
    /\ \A r \in Requests : request[r].cursor \in 0 .. MaxDoc
    /\ created \in 0 .. MaxConvs /\ walk.offset \in 0 .. MaxConvs
    /\ {settings, settled} \subseteq [Orgs -> Settings \cup {Nil}] /\ saves \in 0 .. MaxSaves

\* Whatever the environment says, a route lets a request in and a connection
\* gets an identity only on the word of the authority that was configured, as
\* the principal its claims name and with a role that is high enough: a
\* missing or broken key never turns into no authentication.
GrantsAreVouched ==
    answer.result.error = Nil =>
        /\ answer.token # Nil
        /\ Vouched(env, answer.token)
        /\ env.mode # "none" => Claimed(answer.token, answer.result.principal)
        /\ RoleRank[answer.result.principal.role] >= answer.min

\* "Required iss" (auth.rs, at AUTH_JWT_ISSUER and AUTH_JWT_AUDIENCE): where an
\* issuer or an audience is configured, a token that is admitted names it.
IssuerIsRequired ==
    answer.result.error = Nil /\ env.mode \in {"unset", "jwt", "smoo"} =>
        /\ env.issuer => answer.token.iss = "own"
        /\ env.audience => answer.token.aud = "own"

\* What an incremental pull skips was indexed: when a connector's name was only
\* ever given one source in its organization, every document up to the ledger's
\* cursor is in the organization's knowledge, whichever names and sources the
\* other organizations use, whatever runs overlap, fail or lose their record.
\* (A name that is given a second source inherits the first one's cursor.)  And
\* a run recorded since the server started is listed to its organization,
\* though the registry starts empty and connectors come and go.
LedgerIsSound ==
    /\ \A o \in Orgs, n \in Names, s \in Sources :
         sourcesOf[o][n] = {s} =>
             \A d \in published.docs :
                 d <= ledger[ScopedKey(o, n)] => <<s, d>> \in indexed[o]
    /\ \A key \in ranHere : ScopedKey(key[1], key[2]) \in ListedRuns(key[1])

\* Paging through the conversations by offset never skips one that was visible
\* when the console opened the list, although new ones shift the rows between
\* pages and participants are added late; it does when a lookup of the
\* participants fails.  What a caller lists or opens is of its organization, and
\* for a Basic caller has a participant that carries its user id.
SeesAllItsOwn ==
    /\ walk.state = "over" /\ ~walk.failed /\ store # "dynamo" =>
         walk.due \subseteq ToSet(walk.read)
    /\ \A c \in ToSet(walk.read) \cup ({walk.opened} \ {Nil}) :
         /\ orgOf[c] = walk.by.org
         /\ walk.by.role = "basic" => owner[c] = walk.by.user

StoredRow(rows, o) == IF rows[o] = Nil THEN DefaultSettings ELSE rows[o]

\* The step saves a form and changes no field of the row but one.
SavesOneField(e) ==
    LET before == StoredRow(settings, form[e].org)
        after == StoredRow(settings', form[e].org)
    IN before.model = after.model \/ before.prompt = after.prompt
Saves(e) == form[e].org # Nil /\ form'[e] = NoForm

\* Saving the settings form changes no field but the one that was edited, when
\* nobody saved since it was opened, the read that filled it worked, and the row
\* was settled then; whatever the other consoles and the replicas do.
SettingsAreKept ==
    [][\A e \in Editors : Saves(e) /\ form[e].fresh /\ form[e].sure => SavesOneField(e)]_formVars

\* get returns "the org's settings, or defaults when unset" (settings.rs), and
\* the remote stores preserve "the in-memory semantics exactly" (admin.rs of
\* both adapters): so a save changes only the edited field whenever nobody
\* saved since the form was opened.
UntouchedSettingsAreKept ==
    [][\A e \in Editors : Saves(e) /\ form[e].fresh => SavesOneField(e)]_formVars

\* A page gets a session only from an origin that the agent's policy of that
\* moment names, or lies below a wildcard with the same scheme, and with an
\* authContext only near the time it was signed with the agent's key; an agent
\* without a policy admits all pages, or in strict mode none.
EmbedsAreAllowed ==
    embed.asked # Nil /\ embed.asked.error = Nil =>
        LET policy == embed.policy
            o == embed.asked.origin
            ctx == embed.asked.ctx
        IN IF policy = Nil THEN ~embed.asked.strict
           ELSE /\ \/ AnyOrigin \in policy.allowed
                   \/ /\ o # Nil
                      /\ \E n \in 1 .. Len(o.host), wild \in BOOLEAN :
                           /\ wild \/ n = Len(o.host)
                           /\ Pattern(o.scheme, SubSeq(o.host, 1, n), wild) \in policy.allowed
                /\ ctx # Nil => /\ ctx.complete /\ ctx.key = policy.key
                                /\ embed.now - ctx.at \in -MaxAge .. MaxAge
=============================================================================
