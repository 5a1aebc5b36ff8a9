------------------------------ MODULE Indexing ------------------------------
(***************************************************************************)
(* Incremental indexing of one connector: IndexingService::run_once, the   *)
(* ingest pipeline it drives, the ledger, the store of runs and cursors,   *)
(* and the GitHub connector's pull.  Any number of runs are under way at   *)
(* once (every POST of index_connector starts one) while the source keeps  *)
(* changing; a pull, an embedding, a store of a chunk, or a call of the    *)
(* persistent run store may fail.                                          *)
(***************************************************************************)
EXTENDS Naturals, FiniteSets

CONSTANTS
    Files,          \* documents the connector returns whatever `since` says
    Issues,         \* documents filtered by `since`; a later issue is larger
    Runs,           \* calls of run_once
    PageSize,       \* per_page of the issues request
    Sharings,       \* "own", "shared": the services to look at
    MaxTime,        \* bound: the clock
    MaxVersion,     \* bound: versions of a document
    MaxFileVersion  \* bound: versions of a file

ASSUME IndexingAssumption ==
    /\ Issues \subseteq Nat
    /\ IsFiniteSet(Issues)
    /\ Files \cap Issues = {}
    /\ PageSize \in Nat
    /\ Sharings \subseteq {"own", "shared"}
    /\ MaxTime \in Nat \ {0}
    /\ MaxVersion \in Nat /\ MaxFileVersion \in 0 .. MaxVersion

VARIABLES
    sharing,    \* "shared" when a ledger was injected with with_ledger
    now,        \* the clock of source and server
    version,    \* the version of each document at the source, 0: absent
    changedAt,  \* when the document last changed (updated_at)
    phase,      \* where each run is
    startedAt,  \* started_at of each run
    since,      \* since of each run
    pulled,     \* documents_seen > 0: the run pulled something
    top,        \* max_seen of each run
    todo,       \* pulled documents that the pipeline has not looked at
    work,       \* keys of the document being stored that are still to go
    pending,    \* the key that was recorded and whose chunk is being stored
    ledger,     \* the ledger each run uses (one for all when shared)
    copies,     \* how often each chunk was stored in the knowledge base
    store,      \* the IndexingStore: status and cursor of the recorded runs
    cutOff      \* history: the changed issues that did not fit on a pull's page

sourceVars == <<now, version, changedAt>>
pipelineVars == <<todo, work, pending, ledger, copies>>
vars == <<sharing, now, version, changedAt, phase, startedAt, since, pulled,
          top, todo, work, pending, ledger, copies, store, cutOff>>

SharedLedger == sharing = "shared"

-----------------------------------------------------------------------------
(* Data *)

Documents == Files \cup Issues

Phases == {"idle", "cursor", "files", "issues", "ingest", "over"}

\* Timestamps start at 1; a missing one (Option<Timestamp>) is 0, which is before
\* every other as None is before every Some.
None == 0
OptTimestamp == 0 .. MaxTime

\* A RawDocument: the content is named by its version and by whether an issue's
\* comments are in it.
RawDocument(d, whole) == [doc |-> d, version |-> version[d], whole |-> whole]
RawDocuments == [doc : Documents, version : 1 .. MaxVersion, whole : BOOLEAN]

\* The dedup key org::doc::content_hash of a chunk.
Keys == [doc : Documents, hash : 0 .. MaxVersion, whole : BOOLEAN]

\* The keys of chunker.chunk(raw).  Hash 0 is a chunk that is the same in every
\* version of the document, the other chunk changes with the content.
ChunkKeys(raw) == {[doc |-> raw.doc, hash |-> 0, whole |-> TRUE],
                   [doc |-> raw.doc, hash |-> raw.version, whole |-> raw.whole]}

Stored == {k \in Keys : copies[k] > 0}

\* A recorded IndexingRun.
Succeeded(cursor) == [status |-> "succeeded", cursor |-> cursor]
Failed == [status |-> "failed", cursor |-> None]
NoRun == [status |-> "none", cursor |-> None]

Greatest(S) == CHOOSE t \in S : \A u \in S : u <= t

\* The cursors of the succeeded runs of a store.
Cursors(rows) ==
    {rows[r].cursor : r \in {q \in Runs : rows[q].status = "succeeded"}}

\* Mutant: the least cursor, as after a sort in the wrong direction.
LatestCursorLeast(rows) ==
    IF Cursors(rows) = {}
    THEN None
    ELSE CHOOSE t \in Cursors(rows) : \A u \in Cursors(rows) : t <= u

\* latest_cursor: the greatest cursor among the succeeded runs.
LatestCursor(rows) == Greatest(Cursors(rows) \cup {None})

\* The issues the source lists: those that exist and changed at/after t.
Matching(t) == {d \in Issues : version[d] > 0 /\ changedAt[d] >= t}

\* One page of them, newest first (the source's default order).
Page(S) == {d \in S : Cardinality({e \in S : e > d}) < PageSize}

\* The runs that see a key recorded by r.
LedgerSharers(r) == IF SharedLedger THEN Runs ELSE {r}

-----------------------------------------------------------------------------
(* The source *)

Init ==
    /\ sharing \in Sharings
    /\ now = 1
    /\ version = [d \in Documents |-> 0]
    /\ changedAt = [d \in Documents |-> None]
    /\ phase = [r \in Runs |-> "idle"]
    /\ startedAt = [r \in Runs |-> None]
    /\ since = [r \in Runs |-> None]
    /\ pulled = [r \in Runs |-> FALSE]
    /\ top = [r \in Runs |-> None]
    /\ todo = [r \in Runs |-> {}]
    /\ work = [r \in Runs |-> {}]
    /\ pending = [r \in Runs |-> {}]
    /\ ledger = [r \in Runs |-> {}]
    /\ copies = [k \in Keys |-> 0]
    /\ store = [r \in Runs |-> NoRun]
    /\ cutOff = {}

Tick ==
    /\ now < MaxTime
    /\ now' = now + 1
    /\ UNCHANGED <<version, changedAt, phase, startedAt, since, pulled, top,
                   store, pipelineVars, cutOff>>

\* A document is created or edited at the source.
Change(d) ==
    /\ version[d] < IF d \in Files THEN MaxFileVersion ELSE MaxVersion
    /\ version' = [version EXCEPT ![d] = @ + 1]
    /\ changedAt' = [changedAt EXCEPT ![d] = now]
    /\ UNCHANGED <<now, phase, startedAt, since, pulled, top, store, pipelineVars,
                   cutOff>>

-----------------------------------------------------------------------------
(* run_once *)

\* run_once is called: started_at is taken first.
Begin(r) ==
    /\ phase[r] = "idle"
    /\ startedAt' = [startedAt EXCEPT ![r] = now]
    /\ phase' = [phase EXCEPT ![r] = "cursor"]
    /\ UNCHANGED <<sourceVars, since, pulled, top, store, pipelineVars, cutOff>>

\* The cursor is read; an error of a persistent store reads as None.
ReadCursor(r) ==
    /\ phase[r] = "cursor"
    /\ \E t \in {LatestCursor(store), None} : since' = [since EXCEPT ![r] = t]
    /\ phase' = [phase EXCEPT ![r] = "files"]
    /\ UNCHANGED <<sourceVars, startedAt, pulled, top, store, pipelineVars, cutOff>>

\* pull, first half: every file, without a timestamp.
PullFiles(r) ==
    /\ phase[r] = "files"
    /\ LET found == {d \in Files : version[d] > 0} IN
        /\ todo' = [todo EXCEPT ![r] = {RawDocument(d, TRUE) : d \in found}]
        /\ pulled' = [pulled EXCEPT ![r] = found # {}]
    /\ phase' = [phase EXCEPT ![r] = "issues"]
    /\ UNCHANGED <<sourceVars, startedAt, since, top, work, pending, ledger,
                   copies, store, cutOff>>

\* pull, second half: one page of the issues changed at/after `since`, and the
\* greatest updated_at among them.  An issue whose request for comments fails is
\* taken without them.
PullIssues(r) ==
    /\ phase[r] = "issues"
    /\ LET found == Page(Matching(since[r])) IN
        /\ \E bare \in SUBSET found :
             todo' = [todo EXCEPT ![r] =
                        @ \cup {RawDocument(d, d \notin bare) : d \in found}]
        /\ pulled' = [pulled EXCEPT ![r] = @ \/ found # {}]
        /\ top' = [top EXCEPT ![r] = Greatest({changedAt[d] : d \in found} \cup {None})]
        /\ cutOff' = cutOff \cup {RawDocument(d, TRUE) : d \in Matching(since[r]) \ found}
    /\ phase' = [phase EXCEPT ![r] = "ingest"]
    /\ UNCHANGED <<sourceVars, startedAt, since, work, pending, ledger, copies,
                   store>>

\* The pipeline is between two documents.
BetweenDocuments(r) ==
    /\ phase[r] = "ingest"
    /\ work[r] = {}
    /\ pending[r] = {}

\* Every chunk of the document is in the ledger: it is skipped.
SkipUnchanged(r, raw) ==
    /\ BetweenDocuments(r)
    /\ raw \in todo[r]
    /\ ChunkKeys(raw) \subseteq ledger[r]
    /\ todo' = [todo EXCEPT ![r] = @ \ {raw}]
    /\ UNCHANGED <<sourceVars, phase, startedAt, since, pulled, top, work,
                   pending, ledger, copies, store, cutOff>>

\* Some chunk is new: all chunks of the document are embedded.
Embed(r, raw) ==
    /\ BetweenDocuments(r)
    /\ raw \in todo[r]
    /\ ~ (ChunkKeys(raw) \subseteq ledger[r])
    /\ todo' = [todo EXCEPT ![r] = @ \ {raw}]
    /\ work' = [work EXCEPT ![r] = ChunkKeys(raw)]
    /\ UNCHANGED <<sourceVars, phase, startedAt, since, pulled, top, pending,
                   ledger, copies, store, cutOff>>

\* Mutant: the answer of ledger.record is ignored.
RecordAlways(r, k) ==
    /\ phase[r] = "ingest"
    /\ pending[r] = {}
    /\ k \in work[r]
    /\ work' = [work EXCEPT ![r] = @ \ {k}]
    /\ ledger' = [q \in Runs |->
            IF q \in LedgerSharers(r) THEN ledger[q] \cup {k} ELSE ledger[q]]
    /\ pending' = [pending EXCEPT ![r] = {k}]
    /\ UNCHANGED <<sourceVars, phase, startedAt, since, pulled, top, todo,
                   copies, store, cutOff>>

\* ledger.record(key): a chunk that is new is stored next, a known one is not.
Record(r, k) ==
    /\ phase[r] = "ingest"
    /\ pending[r] = {}
    /\ k \in work[r]
    /\ work' = [work EXCEPT ![r] = @ \ {k}]
    /\ ledger' = [q \in Runs |->
            IF q \in LedgerSharers(r) THEN ledger[q] \cup {k} ELSE ledger[q]]
    /\ pending' = [pending EXCEPT ![r] = {k} \ ledger[r]]
    /\ UNCHANGED <<sourceVars, phase, startedAt, since, pulled, top, todo,
                   copies, store, cutOff>>

\* store_chunk succeeds.
StoreChunk(r) ==
    /\ phase[r] = "ingest"
    /\ pending[r] # {}
    /\ copies' = [k \in Keys |-> IF k \in pending[r] THEN copies[k] + 1 ELSE copies[k]]
    /\ pending' = [pending EXCEPT ![r] = {}]
    /\ UNCHANGED <<sourceVars, phase, startedAt, since, pulled, top, todo, work,
                   ledger, store, cutOff>>

\* The run is over and leaves this row, unless the store loses it.
Finish(r, row) ==
    /\ \E kept \in {row, NoRun} : store' = [store EXCEPT ![r] = kept]
    /\ phase' = [phase EXCEPT ![r] = "over"]
    /\ todo' = [todo EXCEPT ![r] = {}]
    /\ work' = [work EXCEPT ![r] = {}]
    /\ pending' = [pending EXCEPT ![r] = {}]
    /\ UNCHANGED <<sourceVars, startedAt, since, pulled, top, ledger, copies,
                   cutOff>>

\* Mutant: the fallback is the time the run ended.
NewCursorLate(r) ==
    IF ~pulled[r] THEN since[r] ELSE IF top[r] # None THEN top[r] ELSE now

\* The new cursor: kept when nothing was pulled, else the greatest updated_at
\* or, when no document carries one, started_at.
NewCursor(r) ==
    CASE ~pulled[r]                 -> since[r]
      [] pulled[r] /\ top[r] # None -> top[r]
      [] pulled[r] /\ top[r] = None -> startedAt[r]

\* Mutant: the row of a failed run carries a cursor.
FailWithCursor(r) ==
    /\ phase[r] \in {"files", "issues"} \/ pending[r] # {}
    /\ Finish(r, [status |-> "failed", cursor |-> NewCursor(r)])

\* The pull, an embedding or a store of a chunk fails: record_failed.
Fail(r) ==
    /\ \/ phase[r] \in {"files", "issues"}
       \/ \E raw \in todo[r] : /\ BetweenDocuments(r)
                               /\ ~ (ChunkKeys(raw) \subseteq ledger[r])
       \/ phase[r] = "ingest" /\ pending[r] # {}
    /\ Finish(r, Failed)

\* Every pulled document went through the pipeline.
Succeed(r) ==
    /\ BetweenDocuments(r)
    /\ todo[r] = {}
    /\ Finish(r, Succeeded(NewCursor(r)))

-----------------------------------------------------------------------------
(* Specification *)

RunStep(r) ==
    \/ Begin(r)
    \/ ReadCursor(r)
    \/ PullFiles(r)
    \/ PullIssues(r)
    \/ \E raw \in todo[r] : SkipUnchanged(r, raw) \/ Embed(r, raw)
    \/ \E k \in work[r] : Record(r, k)
    \/ StoreChunk(r)
    \/ Succeed(r)
    \/ Fail(r)

Next ==
    /\ UNCHANGED sharing
    /\ \/ Tick
       \/ \E d \in Documents : Change(d)
       \/ \E r \in Runs : RunStep(r)

Spec == Init /\ [][Next]_vars

-----------------------------------------------------------------------------
(* Properties *)

\* Every variable has its type.  A run that has not entered the pipeline holds
\* no work, and the store holds a cursor for succeeded runs only: that is what
\* makes a failed run (record_failed) unable to move the next `since`.
TypeOK ==
    /\ sharing \in Sharings
    /\ now \in 1 .. MaxTime
    /\ version \in [Documents -> 0 .. MaxVersion]
    /\ changedAt \in [Documents -> OptTimestamp]
    /\ phase \in [Runs -> Phases]
    /\ startedAt \in [Runs -> OptTimestamp]
    /\ since \in [Runs -> OptTimestamp]
    /\ pulled \in [Runs -> BOOLEAN]
    /\ top \in [Runs -> OptTimestamp]
    /\ todo \in [Runs -> SUBSET RawDocuments]
    /\ work \in [Runs -> SUBSET Keys]
    /\ pending \in [Runs -> SUBSET Keys]
    /\ ledger \in [Runs -> SUBSET Keys]
    /\ copies \in [Keys -> Nat]
    /\ store \in [Runs -> [status : {"none", "succeeded", "failed"},
                           cursor : OptTimestamp]]
    /\ \A r \in Runs : store[r].cursor # None => store[r].status = "succeeded"
    /\ cutOff \subseteq RawDocuments

\* What is stored of an issue's present version: all of it, or (when the request
\* for its comments failed) its title and body.
Indexed(d) == \E whole \in BOOLEAN : ChunkKeys(RawDocument(d, whole)) \subseteq Stored

\* The next `since` passes over no change: an issue that the next pull will not
\* return because it changed before the cursor is stored in its present version,
\* or did not fit on the page of a pull (run_once, latest_cursor, pull_issues),
\* however runs overlap, fail and end out of order.
\* It is so when every run has a ledger of its own.
NothingIsMissed ==
    ~SharedLedger => \A d \in Issues : version[d] > 0 /\ changedAt[d] < LatestCursor(store)
        => RawDocument(d, TRUE) \in cutOff \/ Indexed(d)

\* What the documents say of a pull ("returns every document" changed at/after
\* the cursor, the connector "paginates list calls"): no page leaves a change out.
EveryChangeIsIndexed ==
    \A d \in Issues : version[d] > 0 /\ changedAt[d] < LatestCursor(store) => Indexed(d)

\* The cursor never moves back, also when a slow run that read an older cursor
\* ends after a faster one (latest_cursor takes the maximum).
CursorNeverRegresses ==
    [][LatestCursor(store)' >= LatestCursor(store)]_vars

\* With a shared ledger no chunk is stored twice, not by runs that index the
\* same documents at the same time either (ingest, IngestLedger::record).
StoredOnce == SharedLedger => \A k \in Keys : copies[k] <= 1

\* "Holds the set of (document_id, content_hash) keys already stored": every key
\* of the ledger is stored or its chunk is being stored (IngestLedger).
LedgerHoldsStored ==
    \A r \in Runs : ledger[r] \subseteq Stored \cup (UNION {pending[q] : q \in Runs})
=============================================================================
