# A verification project for smooth-agent

smooth-agent is a chat-agent service. Browsers (or SDK clients) talk to it over a
WebSocket protocol: they create a conversation session, send messages, and get the
agent's reply as a stream of events. The same protocol is served by a long-running
Rust server and by an AWS Lambda behind API Gateway; an ingestion library keeps the
knowledge base that grounds the replies up to date. This directory holds TLA+ models
of the parts that carry that behaviour, TLC configurations for small instances, and
TLAPS proofs. Paths below are relative to the repository.

## The system

| Part | Source | State | Operations |
|---|---|---|---|
| Backplane registry | `rust/smooth-operator/src/backplane.rs` | sinks, connection → targets, target → connections, under one lock | attach, associate, detach, publish |
| Redis / NATS backplane | `rust/adapters/backplane-{redis,nats}` | pod id, a local registry, a subscription | connect, publish (local, then bus), subscriber task, drop |
| Turn runner | `rust/smooth-operator-server/src/runner.rs` | locals of one turn, a channel, a translator task | run_streaming_turn |
| WebSocket server | `rust/smooth-operator-server/src/{server,handler,state,protocol}.rs` | a reader and a writer task per connection, session registry | one handler per action |
| Lambda handler | `rust/smooth-operator-lambda/src` | rows in DynamoDB, one channel and drain task per invocation | $connect, $disconnect, one function per action |
| Incremental indexing | `rust/ingestion/src/{indexing,pipeline}.rs` | run store with cursors, dedup ledger, knowledge base | run_once, ingest |
| Connectors | `rust/ingestion/src/connectors` | the position of one pull (the source is outside) | pull(since) for GitHub, files, a web page |
| Storage adapters | `rust/adapters/{in-memory,postgres,dynamodb}` | conversations, participants, messages, sessions, checkpoints | create, update, append, list, resolve, prune |
| Knowledge stores | the same, and `access_control.rs`, `curation.rs` | documents, access lists, curation metadata | ingest, query |
| Retrieval and reranking | `rust/smooth-operator/src/{runtime,rerank,tools/knowledge_search}.rs`, `postgres/src/reranker.rs` | the sources of one turn | mirror query, search, rerank, cite |
| Sync-over-async bridge | `run_blocking` of both adapters | the runtime's workers | spawn and block |
| Admin API | `rust/smooth-operator-server/src/admin.rs` | connector configurations, run ledger, settings, name registry | CRUD, "index now", paged lists |
| Authentication, widget policies | `rust/smooth-operator/src/{auth,widget_auth}.rs` | the verifier chosen at start-up, the policy of an agent | verify, require a role, admit an embed |
| Clients | `typescript`, `python`, `go`, `dotnet/src` | pending requests, a queue per turn, the socket | connect, request, sendMessage, disconnect |
| .NET agent core | `dotnet/core/src` | the thread's messages, cost, checkpoints, memory | the agent loop, human gate, subagents, compaction |
| .NET server | `dotnet/server/src` | as the Rust server | as the Rust server |

How they interact. `connection_loop` attaches each socket's sink to the backplane and
awaits a handler for each frame; `send_message` calls the turn runner, which reads and
writes the conversation's messages and streams events into the sink from a second task;
`create_conversation_session` associates the connection and spawns a task that writes
four rows and then registers the session. The Lambda calls the same turn runner, but
every frame is a separate invocation and events leave through a drain task that posts
them. The admin API starts indexing runs, any number at a time.

What is hard here: tasks that interleave at every `await`; work that is split between
two tasks whose order matters to the client; writes of several rows of which one may
fail; processes and invocations that die between two steps; delivery by two routes with
an echo; overlapping runs that share a cursor and a ledger; reads that are stale or belong
to an earlier statement than the write they lead to; lists that are paged while they grow;
errors that are swallowed and read as "nothing there". `PROJECT.json` lists these hazards
with the line where each bites, the properties that cover it, and what they leave out.

What makes each part correct:

- backplane: no leftover or missing association; in order and at most once per
  publisher; only members of the target get an event; without faults, all of them do;
- turn: the terminal event comes last and only when the work is done; every request is
  answered once; the model is given the earlier turns;
- sessions: a session that can be named is complete;
- client: events are read in order and whole, whatever is awaited settles, no socket leaks;
- connections and invocations: they end, whenever and however the client leaves;
- indexing: no change is skipped by the cursor, the cursor never moves back, nothing is
  stored twice, and what the ledger says is stored is stored;
- connectors: a pull that succeeds is whole, what is private is scoped, and no request
  leaves for a host the guard refuses;
- storage: one conversation per idempotency key, an order of messages that every reader
  sees, walks that miss nothing, a latest checkpoint that stays;
- retrieval: nothing reaches a requester that he may not read, the best of what he may read
  is found, candidates survive reranking, citations name the sources;
- admin API: only vouched-for callers, only their organisation's rows, lists without gaps,
  settings that a save does not destroy.

## The modules

| Module | Models | Used by |
|---|---|---|
| `Fanout` | what the `Backplane` trait promises, without pods or bus | `Backplane` (refinement) |
| `Backplane` | registries of several pods and the bus between them | `MCBackplane`, `Backplane_proofs` |
| `TurnRunner` | one streaming turn: storage calls, engine, translator | `ChatServer`, `LambdaDispatch`, `TurnRunner_proofs` |
| `ChatServer` | the WebSocket server with any number of connections | `MCChatServer`, `ChatServer_proofs` |
| `LambdaDispatch` | the Lambda handler with concurrent invocations | `MCLambda`, `LambdaDispatch_proofs` |
| `TurnClient` | the TypeScript client: dials, requests, streaming turns | `MCTurnClient`, `TurnClient_proofs` |
| `Indexing` | run_once, pipeline, ledger, run store | `MCKnowledge`, `MCIndexing`, `Knowledge_proofs` |
| `StorageBackend` | which adapter runs, and what its reads may see | the next four, `KnowledgeStore` has its own layers |
| `ConversationStore` | create (idempotent), update, get | `Storage` |
| `ParticipantStore` | add, get, list, resolve by external id | `Storage` |
| `MessageLog` | append, page by cursor | `Storage` |
| `SessionStore` | create and update of sessions; save, load and prune of checkpoints | `Storage` |
| `Storage` | the slices of the storage trait side by side | `MCStorage`, `Storage_proofs` |
| `Auth` | verifiers, claims, roles, widget policies: operators | `AdminApi` |
| `Connectors` | one pull of a GitHub, file or web connector | `AdminApi` |
| `AdminApi` | the role gate, connectors and runs, conversations, settings, embeds | `MCAdmin`, `AdminApi_proofs` |
| `Sorting` | the standard library's stable sort, filter and truncate: operators | `KnowledgeStore`, `Rerank` |
| `KnowledgeStore` | ingest and query of the four readers, access lists, curation | `Retrieval` |
| `Rerank` | the choice of the reranker and what each returns: operators | `Retrieval` |
| `BlockingBridge` | run_blocking over a pool of workers | `MCBridge` |
| `Retrieval` | a turn's mirror query, engine query, searches and citations | `MCKnowledge`, `Knowledge_proofs` |

The `MC*` modules only add model values and the small functions that a configuration
cannot write down (which connection a request belongs to, and the like); `MCKnowledge` also
puts the two sides it checks next to each other. Operators whose
comment starts with "Mutant" are not part of a specification: each is a plausible bug,
kept beside the definition it replaces, and shows that some property would notice.

**Backplane.** A registry operation takes the lock once, so it is one action. `publish`
is `PublishLocal` followed by `PublishBus` (or `PublishBusFails`), because the code
awaits between the two. The bus is FIFO per subscriber, as Redis and NATS are for a
connection. `SubscriberEnds` is the end of the subscription stream, which the code
survives without noticing. `Stop` is a crash or a drop of the backplane. A pod or
connection id is a fresh UUID, so nothing comes back under an old name. `published` and
`owed` are history variables for the properties; a fault takes out of `owed` exactly what
it makes undeliverable.

**TurnRunner.** `step` is the position in `run_streaming_turn`; each action ends at an
`await`. The engine is a library outside the repository, modelled by what the code
relies on: it pushes events into the channel, then returns a reply (possibly empty) or an
error. Events are reduced to whether the translator re-emits them; messages to their turn
and direction. Token contents, tools and citations are data and left out. `LoadPrior` takes
the first page of what the listing sees (`Views`): the whole log, or, when `ConsistentReads` is
false, any of its messages in order, as DynamoDB's query may answer, which does not ask for
consistent reads.

**ChatServer.** One connection has a reader and a writer task. The reader awaits a
handler, so a connection runs one turn at a time, and frames sent before the client left
are still read. A sink is the sequence of everything ever sent into it and `written` is
how much of it the writer has put on the socket. The persistence task of a session runs
beside the reader. Authorisation by `enforce_widget_auth` is a choice between a denial and
none. `Restart` ends every task and empties the session registry; storage stays.

**LambdaDispatch.** Every request is an invocation with its own position `inv`. A post
succeeds, finds the client gone, or fails; the code treats the three differently in `Ack`,
`Forward` and the final post. `DropSender`, `DrainEnds` and `PostTerminal` are the
`drop(tx)`, the drain task's end and what follows `drain.await`. `Die` is an invocation
killed by the platform.

**TurnClient.** One action per call of the application, event of a socket, and timer,
since JavaScript runs callbacks one at a time. `Connect` abandons the socket of an earlier
dial without removing its listeners; the identity check of the code is the comparison with
`socket` in each event. A dial that fails fires `error` before `close`, as the WebSocket
standard says; a socket may lose frames when it closes, and may still hand out frames while
it is closing. The consumer of a turn awaits one `next()` before it calls another, as
`for await` does. The server is bound only by the protocol (`MayEmit`), and may stream on
after an error, because `ChatServer` can.

**Indexing.** A document of `Issues` is filtered by its change time, one of `Files` is
returned always and carries no timestamp. Content is named by a version; a document has
one chunk that is the same in every version and one that changes. `work` and `pending`
are the position in the pipeline's loop: a key is recorded in the ledger (`Record`) before
its chunk is stored (`StoreChunk`), and the run may fail between the two. A run without
`with_ledger` has a ledger of its own. The persistent run store swallows errors: a cursor
may read as missing and a finished run may not be recorded; the in-memory store is the
case in which neither happens. A pull takes one page of issues (`PageSize`, 50 in the code),
the newest of those changed at or after `since`, each with its comments or, when that request
fails, without; `cutOff` is the history of what was left off a page. Source and server share
one clock. `sharing` is fixed for a
behaviour: own ledgers (the admin API's runs) or a shared one (`with_ledger`).

**Storage.** Each operation of the trait is modelled once per adapter where the adapters
differ: in memory it is one step under a lock; in Postgres each SQL statement is a step
(`INSERT ... ON CONFLICT`, then `SELECT`); in DynamoDB each request is one, between which
other callers run, the call may fail, and the client library may repeat a conditional put
that had succeeded. A DynamoDB read returns the present item or the one that has settled
(`Reads`, `Visible`, `PartViews`); nothing in the code asks for consistent reads. A message
draws its number (`AppendDraw`) before it is visible (`AppendStore`). A walk is a client
that follows `next_cursor`; `ListByPosition` and `ListBySortKey` are the page queries, the
latter with the cursor's own item inside the probe. Slices share no key, so a behaviour of
`Storage` exercises one of them (`slice`).

**AdminApi.** A behaviour exercises one part (`part`), because the parts share no state but
the role gate, which guards each of them. *Gate*: an environment out of all combinations,
`FromEnv` chooses the verifier, and each token is tried at each route and at the WebSocket
handshake. Signatures are not computed: a token says which key signed it, and whether its `iss`
and `aud` are the configured ones, others or missing. *Connectors*: a
PUT is `UpdateGet` and `UpdatePut`, a POST of a run is `IndexGet`, `IndexPull`,
`IndexRecord`; deletes, other requests and a restart come in between, and the remote stores
swallow failures. A run's cursor is the greatest timestamp it pulled or, when it pulled documents
without one, the time it started (`PulledCursor`). `sourcesOf` and `ranHere` are history. *Conversations*: they are numbered
as they are created (`created`) and listed newest first (`Listings`); a page is `PageList`,
one `PageCheck` per row for a Basic caller, `PageReply`. *Settings*: an editor opens the form
and saves all of it with one field edited; a read may fail, or in DynamoDB show the row that has
`settled`. *Embed*: time passes and the policy is replaced
between two embeds. *Pull*: `Connectors`.

**Connectors.** Each request is a step, and the source changes between them: paths are
pushed, issues opened and commented on. A file is reduced to what the code tells apart
(absent, text, blank, too large, not UTF-8), a path to what `classify_path` and
`is_text_file` say of its name. A ref is a branch, which moves, or a commit, which does not.

**KnowledgeStore, Rerank, Retrieval.** A document has revisions, each with its text (two
scores), access list and curation metadata; a hit is a revision of a document. The in-memory
readers keep access lists and metadata in side tables: ingest writes them in the code's order
before the text (`ingesting` is the ingest each task is in), a query takes its candidates first
and looks at the tables afterwards, and other steps come in between. Postgres filters within
each of its two statements, and its dense arm sees any part of the rows, because the HNSW index
(`schema.rs:184-186`) is approximate and its candidates are filtered afterwards; DynamoDB filters
page by page, with stale pages. A turn makes the mirror
query, then the engine's, then searches, which are reranked; the gateway may answer anything.
Scores are small integers, and the constants of reciprocal rank fusion are the code's. The
lists of all three come from `Sorting`: a `Listing` is defined by what precedes each element,
`StableSort` by the scores, `At` by the positions that a filter keeps. They take the place of
the community modules' `SetToSortSeq` and `SelectSeq`, which take operators as arguments and
cannot be reasoned about with the provers used here.

**BlockingBridge.** A caller occupies the worker it runs on until its answer is there; the
spawned future needs a free worker for each poll and for the arrival of its I/O. `Placements` says
where a spawned task may be put: in the runtime's queue, or in the LIFO slot of the worker that
spawns it. Whether other workers may take a task out of that slot depends on tokio's version
(1.52 in `Cargo.lock`). The run uses the queue only, so what it shows does not depend on it; with
`"slot"` among the placements one call is enough to wait for ever.

## What the runs check

| Run | Properties | Instance | Result |
|---|---|---|---|
| `backplane` | `TypeOK`, `RegistryConsistent`, `InOrderAtMostOnce`, `ImplementsFanout`, `EntitledAreReached` | 2 pods, 2 connections, 1 group, 2 publishes, all faults, weak fairness | holds |
| `chat_turns` | `RemembersTurns`, `TurnsAreAnswered`, `LeaversAreForgotten` | 1 connection, 2 turns, consistent reads, a page of 2 messages, 1 restart, weak fairness | holds |
| `chat_shared` | `FinalIsComplete`, `OneAnswer`, `SessionIsComplete` | 2 connections on one session: a turn each, of which one may leave, or a turn and a lookup with a restart | holds |
| `lambda_turn` | `TerminalIsLast`, `FinalIsComplete`, `InvocationsEnd` | concurrent creation, turn with 2 events, lookup; 1 failed post, 1 killed invocation, weak fairness | holds |
| `turn_client` | `TypeOK`, `NoLostWakeup`, `NoOrphanSocket`, `EventsInOrder`, `CallsSettle` | 2 dials, 1 turn with 2 events, 1 request, weak fairness of timers | holds |
| `knowledge` | `TypeOK`, `NothingIsMissed`, `StoredOnce`, `CursorNeverRegresses`; `AnswersAreAdmitted`, `QuietQueryIsBest`, `RerankKeepsCandidates`, `CitationsCoverSources` | one side per behaviour: 2 overlapping runs with own or shared ledgers, a file and an issue with 2 versions, comments that fail, 2 clock values; 4 readers, 3 documents, 2 requesters, 1 ingest and 1 search during the turn | holds |
| `storage` | `OneConversationPerKey`, `ResolvesWithinConversation`, `AppendsInOrder`, `WalkIsComplete`, `LatestCheckpointStays` | 3 adapters, 2 callers; 1 key and 3 conversations; 4 messages, 1 walk of pages of 1; 1 session; 4 checkpoints; 2 participants in 2 conversations | holds |
| `admin` | `GrantsAreVouched`, `LedgerIsSound`, `SeesAllItsOwn`, `SettingsAreKept`, `EmbedsAreAllowed`, `PullIsSound` | 2 organisations, all environments, tokens of every shape; 2 connectors, 2 requests, 1 restart; 3 conversations; 2 editors, 2 saves; 4 paths, 2 issues, 2 changes, 2 hosts | holds |
| `chat_error_order` | `ErrorEndsTurn` | 1 connection | **violated** |
| `indexing_ledger` | `LedgerHoldsStored` | shared ledger, a failing store | **violated** |
| `storage_paging` | `DescendingWalkIsComplete` | as `storage` | **violated** |
| `bridge` | `CallsReturn` | 2 callers, 2 workers, weak fairness | **violated** |

`TypeOK` of `ChatServer`, `LambdaDispatch`, `Storage` and `AdminApi`, and `RetrievalTypeOK`
of `Retrieval`, document the state of these modules for a reader; the runs list the type
invariant only where a theorem states it for every value of the constants.

The violated ones are disagreements between the code and what the repository says of
it:

1. *A stream event can follow the error of a turn.* When the engine fails,
   `run_streaming_turn` returns without awaiting its translator (`runner.rs:275`), and
   `AGENT_ERROR` can overtake events that are still in the channel, although an error
   "ends a streaming turn" (`go/protocol/events.go:189`). The Lambda handler waits for the
   translator through its drain: `TerminalIsLast` holds there.
2. *The ledger names chunks that are not stored.* The key is recorded before the store
   (`pipeline.rs:256`). With a shared ledger a retry after a failed store skips the chunk,
   succeeds and advances the cursor.
3. *A newest-first walk in DynamoDB ends after two pages.* The query for a page with a
   cursor asks for `limit + 1` items including the cursor's own, and drops that one
   (`dynamodb/src/lib.rs:744-757`); what is left never exceeds the limit, so `next_cursor`
   is `None` although older messages remain. The contract is "`next_cursor` is Some iff more
   rows follow" (`postgres/src/lib.rs:657`).
4. *Synchronous store calls can block the runtime.* `run_blocking` keeps its worker while it waits
   for work that needs one (`postgres/src/knowledge.rs:325`); as many concurrent calls as workers
   wait for ever. Its comment says the wait is "wrapped in `block_in_place`" (`:299-300`); no such
   call is made.

### Promises the code does not keep

Further contracts of the repository are stated as definitions of the modules. No run lists them,
because the code breaks them; each is refuted by TLC within seconds when it takes the place of the
properties of the configuration named here. The runs check, and the theorems prove, what is true of
the code instead, with the exception written into the property.

| Definition | The promise | The code | Configuration | Checked instead |
|---|---|---|---|---|
| `RepliesAreReplayed` (`ChatServer`) | the log is replayed "so the model sees turn 1 when answering turn 2", a "robust, backend-agnostic way to carry memory" (`runner.rs:15-22`) | DynamoDB's listing sets no `consistent_read` (`dynamodb/src/lib.rs:689-700`): the reply the client has just received may be missing | `MCChatTurns` with `ConsistentReads = FALSE` | `RemembersTurns` |
| the same | the history is "exactly the history-up-to-now" (`runner.rs:166-167`) | it is the first page of 50 messages, oldest first (`runner.rs:340`) | `MCChatTurns` with `MaxPriorMessages = 1` | `RemembersTurns` |
| `EveryChangeIsIndexed` (`Indexing`) | "The connector paginates list calls" (`docs/Reference/Connectors.md:165`) | one page of 50 issues; the cursor moves to its newest (`github.rs:492`), `max_pages` is never read | `MCIndexingLedger` with `Issues = {1, 2}`, `PageSize = 1` | `NothingIsMissed` |
| `EndedStaysEnded` (`SessionStore`) | DynamoDB has "the same observable semantics" (`dynamodb/src/lib.rs:8-12`), "`None` fields are left unchanged" (`adapter.rs:36`) | `update_session` reads, merges and writes the whole row (`dynamodb/src/lib.rs:828-851`): an overlapping update brings an ended session back | `MCStorage` | nothing |
| `IssuerIsRequired` (`AdminApi`) | "Required `iss`", "Required `aud`" (`auth.rs:591-592`) | only `exp` and `sub` are required (`auth.rs:356`): a token that names no issuer passes | `MCAdmin` | `GrantsAreVouched` |
| `UntouchedSettingsAreKept` (`AdminApi`) | `get` returns "The org's settings, or defaults when unset" (`settings.rs:66`) | a failed read shows the defaults (`postgres/src/admin.rs:282`), DynamoDB's may be stale (`dynamodb/src/admin.rs:237-247`); the form is saved whole | `MCAdmin` | `SettingsAreKept` |
| `AnswerIsFull` (`Retrieval`) | "the post-filter top-K is still full whenever enough accessible documents exist" (`access_control.rs:50-51`) | the filter looks at a bounded pool (`access_control.rs:360`) | `MCKnowledge` | `QuietQueryIsBest` |

### Known limits

What the code does by its own choice, met while modelling and excluded by the properties'
conditions:

- A failed request for an issue's comments is swallowed, by intent (`github.rs:536-541`), and the
  cursor moves past them; of the comments one page is taken.
- One file that is not UTF-8 fails every pull of its repository (`github.rs:418`), and a
  pull of a branch that moves may mix two commits.
- A connector name that is given another source inherits the cursor of the first, and a
  run recorded before a restart is not listed until the connector is written or indexed
  again (`admin.rs:580`, `state.rs:194`).
- A connector that was deleted while an update was under way is written back.
- `update_conversation` of DynamoDB puts back the whole row it read, as `update_session` does:
  an update that overlaps another is lost. The comment at `dynamodb/src/lib.rs:462-463` names an
  `attribute_exists(sk)` condition that the request does not have.
- `get_participant` of DynamoDB reads one page of a scan. Which of two participants with
  the same external id is resolved differs between the adapters.
- A document that is ingested again without an access list keeps its old one in memory;
  a changed document's new chunks are new documents, and the old ones stay.
- `enabled` of a connector is stored and never looked at; stored settings are not read by
  turns; sessions created over the WebSocket have a user without an external id, so a Basic
  caller owns none of their conversations.

**Bounds.** They are named constants and are chosen so that the interesting case occurs: two
pods with a connection each, because only own and foreign deliveries differ; two publishes, for
an order; two turns, because interleaving on a conversation is pairwise (`chat_shared` runs them
at the same time; the Lambda run has one, since its turns are those of `TurnRunner` too); one
event per turn in the chat runs, because one is enough to overtake or be overtaken; one restart,
one failed post and one killed invocation, because each leaves a state from which nothing
remembers that another is allowed; two dials, because a socket is either the present one or
abandoned; two runs, because the cursor and the ledger are shared pairwise; two clock values and
two versions, for a change before, at and after the cursor; pages of one row and four messages
or three conversations, because a walk then has a first, a middle and a last page; four
checkpoints in batches of two, so that a prune spans two requests; three hops, because a chain
of redirects either goes on or is cut; two revisions of one document, because a list and a text
are the old or the new one. The over-fetch constants are 2 instead of 5 and 20, and the limits 1
and 2 instead of 3 to 10, so that three documents reach them; a page of history holds two
messages in `chat_turns`, so that it overflows; two callers meet two workers. No run's issues
overflow their page of 50: that `NothingIsMissed` holds for every page size is proved. Parts and
slices that share no state are explored one per behaviour, which keeps the state space a sum
instead of a product. Two ingesters at a time, and rerankers on every reader, were too large;
the rerank stage does not depend on its reader. `MCKnowledge`, `MCStorage` and `MCAdmin` use
symmetry of runs, callers, requests and ids that no definition or property tells apart. The
configurations say `CHECK_DEADLOCK FALSE`, because in each instance all requests may have been
made and everybody may be done: the server then waits for clients that do not come.

**Fairness.** Weak fairness of what runs on by itself and of nothing else: the subscriber task
and a publish that awaits the bus; the writer, the reader once its client is gone, the
persistence tasks, the turns and their translators; the drain and the position of an
invocation; the timers of the client; the bridge's spawned work, while a worker is free (in
`bridge`, where it does not help). Tokio
polls every task that is ready, which is weak fairness; that storage, the engine and the bus
answer in the end, with a result or an error, is assumed (there is no timeout in the code that
would enforce it). Clients are not fair: nobody has to connect, ask, or leave.

## What is proved

All theorems hold for every value of the constants that satisfies the modules' `ASSUME`s:
any number of pods, connections, turns, messages, callers and documents.

*`Backplane_proofs`.*

- `TypeCorrect` is `Spec => []TypeOK`, with partial maps for the registry.
- `RegistryStaysConsistent`: `RegistryConsistent` is inductive together with `TypeOK`. The
  argument rewrites it pod by pod (`RegistryByPod`) and then has one lemma for each
  operation on a single registry: `attach` of a connection the registry does not know,
  `associate` of one it knows, `detach` of one it knows, and pods that the step does not touch.
- `InOrderAtMostOnceHolds`, from `DeliveryInv` (`DeliveryIsOrdered`). The order at the sinks
  says nothing of what is still to come, so the invariant adds the path an event takes: a
  publisher awaits the bus for its latest event only; each inbox is in order of publication
  and behind whatever is still to be broadcast; and what is on its way to a connection from
  another pod is later than everything the connection has. The last part fails for a pod's
  own echo, which the subscriber drops: that is why the origin check is needed.
- `BackplaneImplementsFanout` is the refinement. `attach`, `associate`, `detach`, the
  end of a pod and the two deliveries (the local one of a publish, the subscriber's) are steps
  of `Fanout`; the bus steps and a dropped echo stutter. `Fanout` delivers to a connection
  only what is later than all it has: that the subscriber's delivery is such is `DeliveryInv`.

*`TurnRunner_proofs`, `ChatServer_proofs`, `LambdaDispatch_proofs`.* The first has no
theorem of its own: it has what both hosts need of `run_streaming_turn`, as lemmas about
`RunnerInv`. A message is logged at most once and not before its step (`LoggedOnce`); what
the engine emitted is in the sink or in the channel, and all in the sink once the translator
is joined (`NothingLost`, a count over positions); the question is stored before the engine
runs and the reply after the question (`Persisted`).

- `RequestsAreAnsweredOnce`, `SessionsAreComplete` and the server's `FinalsAreComplete`
  come from `ChatInv`: what has started was read (`StartedWereRead`), what runs has no answer
  yet (`AnswerPending`), a connection is in one turn and a turn on one connection
  (`ReaderInv`), and the rows, the registry and the association follow the step of the
  persistence task (`SessionInv`).
- `EarlierTurnsAreRemembered`: where reads are consistent, the one thing that can keep a reply
  from a later turn is a whole page of messages before it. What a client had received before it
  asked (`AnsweredBefore`) was logged before the turn read its history (`Persisted`), and the
  page is the beginning of the log. Both conditions are needed (`RepliesAreReplayed`).
- `TerminalsAreLast` and the Lambda's `FinalsAreComplete` come from `LambdaInv`, which ties the
  position of an invocation to its turn, its sender and its drain: an invocation that has
  dropped its sender and whose drain has ended has posted all the turn emitted.

*`TurnClient_proofs`.* `TypeCorrect`; `NoWakeupIsLost`, where each way a turn can end
(`Push`, `Finish` by a timer, `FailAll` by a close or a disconnect) has a lemma of its own;
`NoSocketIsOrphaned`; both properties are inductive together with `TypeOK`.
`EventsStayInOrder` needs `EventInv`: a request goes out once and is answered on the socket it
went out on (`Routed`); while a turn listens, the frames on that socket's wire are exactly the
events it has not seen, in order (`InSync`); and what it saw is a prefix of what the server
emitted, the whole of it when it ended with the final event (`TurnOrder`).

*`Knowledge_proofs`, indexing.*

- `TypeCorrect`. It includes that only a succeeded run carries a cursor.
- `NoChangeIsMissed`, for runs with ledgers of their own (`indexing_ledger` shows what a shared
  one does) and pages of any size: what the cursor passes over is stored, with or without its
  comments, or was left off a page. `NothingIsMissed` is not inductive, because it says nothing of
  runs under way. `IndexingInv` adds that no timestamp lies in the future (`InThePast`); that
  what a run read as `since` is covered, that is, every issue changed before it is stored in
  its present version; that the cursor an ingesting run will record is covered by what is
  stored together with what the run still has to store; and that a run's own ledger names only
  what is stored or about to be. A change at the source happens now, so it is not before any
  cursor (`CoverOutlivesChange`); a page, together with what is left off it, covers the cursor it
  leads to (`PullCovers`);
  the pipeline drops nothing it has still to store (`NothingDropped`).
- `CursorIsMonotone`, from `RowsOfEndedRuns`: a run has no row before it is over, so a
  step only adds cursors, and the greatest of more is not smaller.
- `NoChunkIsStoredTwice`, from `OnceInv`: with a shared ledger a key is pending in at most
  one run, and then not stored.

That `Greatest`, a `CHOOSE`, is the greatest element needs that a bounded set of numbers
has one; the proof takes the least of the upper bounds by the library's theorem on
well-founded relations.

*`Knowledge_proofs`, retrieval.* For any documents, revisions, requesters and limits, any
number of ingests under way, each of the four readers, and whatever the gateway answers.

- `AnswersStayAdmitted` and `CandidatesSurviveRerank`, from `RetrievalInv`
  (`RetrievalInvHolds`). That an answer was open to its requester is a statement about the
  past: the list that admitted a hit may be older than the hit or have been replaced since.
  `StoreInv` says what the side tables still know of it: after the revision whose list the
  table holds, no revision had one. `QueryInv` then says that hits are known, one per
  document, and open to the requester from the filter step on, and `TurnInv` carries this
  through the lists of a turn. What the gateway returns is an injective choice of positions,
  and the code appends the positions that are missing: each candidate occurs once.
- `SourcesAreCited` and `QuietQueriesAreBest`, from `QuietInv` and `StillInv`
  (`QuietInvHolds`), which say what an undisturbed query returns. At each of its steps the hits
  are a function of the store: the ranked candidates, then what passes the filters, or, for
  DynamoDB, the readable part of what is scanned so far (`QuietIs`). Two such queries of one
  turn agree when the store stood still in between (not in Postgres, where ties are free), so
  the citations, taken from the mirror query, cover what the engine was given. That the answer
  is the best takes lemmas on `Sorting`: a listing has each element once, in order; a sort is a
  permutation that falls; a filter keeps the order; the front of a falling list is the best of
  it. For the in-memory readers it is a count: an answer that is short although there is more to
  read had a pool that was full (`CrowdedOut`), which does happen (`AnswerIsFull`). In
  Postgres the dense arm may have missed rows, so the theorem speaks of what the keyword arm
  finds; scores are not compared across its two rankings.

*`Storage_proofs`.* `StorageInv` is a conjunction of one invariant per slice; a step of a
slice leaves the others alone. All hold for each of the three adapters.

- `CreateIsIdempotent`: in DynamoDB every copy of a conversation there is (a row, a replica's
  row, a returned one, the body of a call past its claim) agrees with the claim of its key
  (`DynamoClaims`), and a claim is written once; in memory and in Postgres a key has one row,
  and what was returned is it (`OneRowPerKey`).
- `AppendsStayInOrder`, from `LogInv`: a number that is drawn is later than those of all
  messages whose append had returned (`DrawnInOrder`), which is less than that numbers are
  stored in the order in which they are drawn; they are not.
- `WalksAreComplete`, from `WalkInv`: no two messages, stored or still to be stored, have the
  same number (`NumbersAreOwn`); the cursor of a walk is the last message it has read
  (`AtCursor`); and what it owes and has not read lies beyond the cursor (`DueIsAhead`), which
  is why a message that is stored between two pages does it no harm. Of a page the proof needs
  that it is in order and leaves out only what its next cursor precedes (`ListedPage`). That
  `Ordered`, a `CHOOSE`, lists a set (`OrderedLists`) is an induction on the largest
  number in the set, done as a least counterexample. Descending walks of DynamoDB are exempt, and
  `storage_paging` shows that they must be.
- `ResolveIsSound`, and `LatestCheckpointIsKept`, from `CkptInv`:
  there is a latest checkpoint among the stored ones and those a replica still has, and no
  prune under way holds it in its list.

*`AdminApi_proofs`.* The first two properties speak of each answer, so the work is in what the
operators return, for every environment, token, policy and origin.

- `GrantsStayVouched`: whatever the environment, a route admits a request, and a connection
  gets an identity, only on the word of the configured key, and never of another issuer or for
  another audience; it leaves open that the token names none (`IssuerIsRequired`). `EmbedsStayAllowed`: the
  same for embeds and the policy's list of origins.
- `OwnConversationsAreSeen`, from `ListInv`. The console pages by an offset into a list that
  grows at its front. A conversation that was visible at the start and is not read yet has
  more rows down to it than the offset (`DueIsAhead`): a new conversation only adds rows above
  it, and a page moves the offset by no more than the rows it has read.
- `SettingsStayKept`, from `FormInv`: a form that is fresh and was filled by a working read of a
  settled row shows what is stored (of others it need not: `UntouchedSettingsAreKept`).
- `LedgerStaysSound`, from `LedgerInv`: what a cursor skips is indexed, the ledger's and that
  of a run still to be recorded, except for what that run holds itself (`Covered`); a source
  in use was given to its name (`Attributed`); a run of this process is in the registry
  (`Listed`).
- `PullStaysSound`, from `PullInv`: a file that a connector indexes is a document already or
  still to be read, as long as the source stands still or is pinned (`FilesRead`); an issue
  that had changed when the pull began is a document with its comments or still to be read
  (`IssuesRead`), because issues only move on (`IssuesMoveOn`); only guarded hosts are asked.

**Assumptions.** Beside the types of the constants: `Nil` is not one of the values it stands
for the lack of (`ConversationAssumption`, `NilAssumption`), and no message has it or a cursor
that names nothing as its id (`CursorAssumption`); requests of different kinds are
different requests (`LambdaAssumption`); there is a conversation (`TurnRunnerAssumption`);
there are finitely many issues and some repository tree (`ConnectorsAssumption`); hosts are
sequences of labels and a policy's patterns name at least one (`OriginAssumption`,
`PolicyAssumption`); documents are finitely many and numbered, scores and limits are numbers,
and the over-fetch factors are not zero (`KnowledgeAssumption`, `RetrievalAssumption`).
TLC evaluates each of them on the component's run.

**Only model-checked.** Liveness and whatever else rests on fairness is beyond the prover:
`EntitledAreReached`, `TurnsAreAnswered`, `LeaversAreForgotten`, `InvocationsEnd`
and `CallsSettle`. Every other property of a passing run is a theorem. The properties of the
violated runs are refuted and have none.

## What is not modelled

- The chunker (a pure function on text), embedding, telemetry, evals, the stripping of HTML,
  the shape of documents, prompts and tool output: numbers and text, of which no property
  here speaks.
- S3 Vectors, the creation of tables and migrations; start-up of the server beyond the
  choice of storage and verifier; the seeding of document sets.
- `github_search` and the body of `fetch_url`: single calls that format their answer. The
  URL guard looks at the host as written; what a name resolves to is outside it.
- The run of a turn in `runtime.rs` is modelled once, in `TurnRunner`, from `runner.rs`,
  which does the same steps and streams as well; `Retrieval` has its retrieval half.
- The admin API reads DynamoDB's connector rows as if they were settled (its settings it does
  not).
- The widget's controller and the React hook (a send during a connect that is under way
  finds no session, `widget/conversation.ts:149`), the Python, Go and .NET clients, the .NET
  agent core and server, the console, deployment and schemas: other programs in the same
  repository, or views of the ones modelled.
- The engine (`smooth-operator-core`), Redis, NATS, the databases, tokio, API Gateway and
  GitHub are outside the repository and appear by what the code uses of them.
- Clock skew between the source and the server, and a NATS subscription that the server has
  not processed when `subscribe` returns, are named in the hazards and not covered.

## Plan

Done: the core (`Fanout`, `Backplane`, `TurnRunner`, `ChatServer`, `LambdaDispatch`,
`Indexing`, `TurnClient`), then storage, the admin API with authentication and connectors, and
retrieval; proofs of all their safety properties. Left, most important first:

1. The widget's controller on top of `TurnClient`, and the other clients as variants of it.
2. The .NET server's turn runner against the properties of `ChatServer`; its agent loop.
