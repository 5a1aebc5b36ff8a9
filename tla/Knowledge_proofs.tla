--------------------------- MODULE Knowledge_proofs --------------------------
(***************************************************************************)
(* Proofs about the knowledge base: incremental indexing, for any number   *)
(* of documents and of overlapping runs, and retrieval, for any documents, *)
(* requesters, limits and ingests in flight.                               *)
(***************************************************************************)
EXTENDS Indexing, Retrieval, WellFoundedInduction, FiniteSetTheorems, TLAPS

-----------------------------------------------------------------------------
(* Greatest elements *)

\* The order of the naturals is a well-founded relation.
LEMMA NatOrder ==
    \E R : /\ IsWellFoundedOn(R, Nat)
           /\ \A a, b \in Nat : <<a, b>> \in R <=> a < b
<1>1. \A a, b \in Nat : <<a, b>> \in OpToRel(<, Nat) <=> a < b
  BY Zenon DEF OpToRel
<1> QED BY <1>1, NatLessThanWellFounded, Zenon

\* Every set of naturals that is not empty has a least element.
LEMMA LeastExists ==
    ASSUME NEW T, T \subseteq Nat, T # {}
    PROVE  \E x \in T : \A y \in T : x <= y
<1>1. PICK R : /\ IsWellFoundedOn(R, Nat)
               /\ \A a, b \in Nat : <<a, b>> \in R <=> a < b
  BY NatOrder, Zenon
<1>2. IsWellFoundedOn(R, Nat)
  BY <1>1
<1>3. \E x \in T : \A y \in T : ~ (<<y, x>> \in R)
  BY <1>2, WFMin, Zenon
<1>4. PICK x \in T : \A y \in T : ~ (<<y, x>> \in R)
  BY <1>3
<1>5. \A y \in T : ~ (y < x)
  BY <1>1, <1>4
<1> QED BY <1>5

\* Greatest(S) is the greatest element of a set of timestamps.
LEMMA GreatestIsGreatest ==
    ASSUME NEW M \in Nat, NEW S, S \subseteq 0 .. M, S # {}
    PROVE  Greatest(S) \in S /\ \A u \in S : u <= Greatest(S)
<1> DEFINE T == {M - t : t \in S}
<1>1. T \subseteq Nat
  OBVIOUS
<1>2. T # {}
  <2>1. PICK s : s \in S
    OBVIOUS
  <2>2. M - s \in T
    BY <2>1
  <2> QED BY <2>2
<1>3. \E x \in T : \A y \in T : x <= y
  <2> HIDE DEF T
  <2> QED BY <1>1, <1>2, LeastExists
<1>4. PICK x \in T : \A y \in T : x <= y
  BY <1>3
<1>5. PICK t \in S : x = M - t
  BY <1>4
<1>6. \A u \in S : u <= t
  <2> TAKE u \in S
  <2>1. M - u \in T
    OBVIOUS
  <2>2. x <= M - u
    BY <2>1, <1>4
  <2> QED BY <2>2, <1>5
<1>7. \E v \in S : \A u \in S : u <= v
  BY <1>6
<1> QED BY <1>7 DEF Greatest

-----------------------------------------------------------------------------
(* Types *)

\* The greatest cursor of a store is None or the cursor of a succeeded run, and
\* no succeeded run has a greater one.
LEMMA LatestCursorIsGreatest ==
    ASSUME NEW rows, rows \in [Runs -> [status : {"none", "succeeded", "failed"},
                                        cursor : OptTimestamp]]
    PROVE  /\ LatestCursor(rows) \in OptTimestamp
           /\ LatestCursor(rows) \in Cursors(rows) \cup {None}
           /\ \A u \in Cursors(rows) \cup {None} : u <= LatestCursor(rows)
<1> DEFINE S == Cursors(rows) \cup {None}
<1>1. S \subseteq 0 .. MaxTime /\ S # {} /\ MaxTime \in Nat
  BY IndexingAssumption DEF Cursors, OptTimestamp, None
<1>2. Greatest(S) \in S /\ \A u \in S : u <= Greatest(S)
  <2> HIDE DEF S
  <2> QED BY <1>1, GreatestIsGreatest
<1> QED BY <1>1, <1>2 DEF LatestCursor, OptTimestamp

\* The greatest updated_at of a set of documents, or None, is a timestamp.
LEMMA TopIsGreatest ==
    ASSUME TypeOK, NEW D, D \subseteq Documents
    PROVE  LET S == {changedAt[d] : d \in D} \cup {None} IN
           /\ Greatest(S) \in OptTimestamp
           /\ Greatest(S) \in S
           /\ \A d \in D : changedAt[d] <= Greatest(S)
<1> DEFINE S == {changedAt[d] : d \in D} \cup {None}
<1>1. S \subseteq 0 .. MaxTime /\ S # {} /\ MaxTime \in Nat
  BY IndexingAssumption DEF TypeOK, OptTimestamp, None
<1>2. Greatest(S) \in S /\ \A u \in S : u <= Greatest(S)
  <2> HIDE DEF S
  <2> QED BY <1>1, GreatestIsGreatest
<1> QED BY <1>1, <1>2 DEF OptTimestamp

\* The new cursor is `since`, the greatest updated_at or started_at.
LEMMA NewCursorCases ==
    ASSUME TypeOK, NEW r \in Runs
    PROVE  /\ ~pulled[r] => NewCursor(r) = since[r]
           /\ pulled[r] /\ top[r] # None => NewCursor(r) = top[r]
           /\ pulled[r] /\ top[r] = None => NewCursor(r) = startedAt[r]
           /\ NewCursor(r) \in OptTimestamp
<1>1. pulled[r] \in BOOLEAN
  BY DEF TypeOK
<1>2. CASE ~pulled[r]
  BY <1>2 DEF TypeOK, NewCursor
<1>3. CASE pulled[r] /\ top[r] # None
  BY <1>3 DEF TypeOK, NewCursor
<1>4. CASE pulled[r] /\ top[r] = None
  BY <1>4 DEF TypeOK, NewCursor
<1> QED BY <1>1, <1>2, <1>3, <1>4

\* A document that exists is a raw document with keys.
LEMMA RawDocumentType ==
    ASSUME TypeOK, NEW d \in Documents, version[d] > 0, NEW whole \in BOOLEAN
    PROVE  RawDocument(d, whole) \in RawDocuments
BY IndexingAssumption DEF TypeOK, RawDocument, RawDocuments

\* The keys of a raw document are keys.
LEMMA ChunkKeysType ==
    ASSUME NEW raw \in RawDocuments
    PROVE  ChunkKeys(raw) \subseteq Keys
BY IndexingAssumption DEF ChunkKeys, RawDocuments, Keys

\* The first half of the pull returns documents of the source.
LEMMA FilesFound ==
    ASSUME TypeOK
    PROVE  {RawDocument(d, TRUE) : d \in {e \in Files : version[e] > 0}} \subseteq RawDocuments
BY RawDocumentType DEF Documents

\* The second half of the pull returns documents of the source.
LEMMA IssuesFound ==
    ASSUME TypeOK, NEW t, NEW bare
    PROVE  /\ Page(Matching(t)) \subseteq Issues
           /\ {RawDocument(d, d \notin bare) : d \in Page(Matching(t))} \subseteq RawDocuments
           /\ {RawDocument(d, TRUE) : d \in Matching(t)} \subseteq RawDocuments
<1>1. /\ Page(Matching(t)) \subseteq Matching(t) /\ Matching(t) \subseteq Issues
      /\ \A d \in Matching(t) : version[d] > 0 /\ d \in Documents
  BY DEF Documents, Page, Matching
<1>2. \A d : (d \notin bare) \in BOOLEAN
  OBVIOUS
<1> QED BY <1>1, <1>2, RawDocumentType

\* A finished run leaves a well-typed store.
LEMMA FinishType ==
    ASSUME TypeOK, NEW r \in Runs,
           NEW row \in [status : {"none", "succeeded", "failed"}, cursor : OptTimestamp],
           row.cursor # None => row.status = "succeeded",
           Finish(r, row), UNCHANGED sharing
    PROVE  TypeOK'
<1>1. NoRun \in [status : {"none", "succeeded", "failed"}, cursor : OptTimestamp]
  BY IndexingAssumption DEF NoRun, OptTimestamp, None
<1>2. PICK kept \in {row, NoRun} : store' = [store EXCEPT ![r] = kept]
  BY DEF Finish
<1>3. \A q \in Runs : store'[q].cursor # None => store'[q].status = "succeeded"
  BY <1>2 DEF TypeOK, NoRun
<1> QED BY <1>1, <1>2, <1>3 DEF TypeOK, Finish, sourceVars, Phases

\* Every step keeps the types.
LEMMA TypeStep == TypeOK /\ [Next]_vars => TypeOK'
<1> SUFFICES ASSUME TypeOK, [Next]_vars PROVE TypeOK'
  OBVIOUS
<1> UNCHANGED sharing
  BY DEF Next, vars
<1>1. CASE Tick
  BY <1>1, IndexingAssumption DEF TypeOK, Tick, pipelineVars
<1>2. ASSUME NEW d \in Documents, Change(d) PROVE TypeOK'
  BY <1>2, IndexingAssumption DEF TypeOK, Change, pipelineVars, OptTimestamp
<1>3. ASSUME NEW r \in Runs, RunStep(r) PROVE TypeOK'
  <2>1. CASE Begin(r)
    BY <2>1, IndexingAssumption
    DEF TypeOK, Begin, sourceVars, pipelineVars, OptTimestamp, Phases
  <2>2. CASE ReadCursor(r)
    <3>1. LatestCursor(store) \in OptTimestamp /\ None \in OptTimestamp
      BY LatestCursorIsGreatest, IndexingAssumption DEF TypeOK, OptTimestamp, None
    <3> QED BY <2>2, <3>1 DEF TypeOK, ReadCursor, sourceVars, pipelineVars, Phases
  <2>3. CASE PullFiles(r)
    BY <2>3, FilesFound DEF TypeOK, PullFiles, sourceVars, Phases
  <2>4. CASE PullIssues(r)
    <3> DEFINE found == Page(Matching(since[r]))
    <3>1. found \subseteq Documents
      BY IssuesFound DEF Documents
    <3>2. Greatest({changedAt[d] : d \in found} \cup {None}) \in OptTimestamp
      <4> HIDE DEF found
      <4> QED BY <3>1, TopIsGreatest
    <3>3. PICK bare \in SUBSET found :
            todo' = [todo EXCEPT ![r] = @ \cup {RawDocument(d, d \notin bare) : d \in found}]
      BY <2>4 DEF PullIssues
    <3>7. {RawDocument(d, d \notin bare) : d \in found} \subseteq RawDocuments
      BY IssuesFound
    <3>8. cutOff' \subseteq RawDocuments
      <4>1. cutOff' = cutOff \cup {RawDocument(d, TRUE) : d \in Matching(since[r]) \ found}
        BY <2>4 DEF PullIssues
      <4> HIDE DEF found
      <4>2. {RawDocument(d, TRUE) : d \in Matching(since[r])} \subseteq RawDocuments
        BY IssuesFound
      <4> QED BY <4>1, <4>2 DEF TypeOK
    <3> HIDE DEF found
    <3>4. PullIssues(r) =>
            /\ pulled' = [pulled EXCEPT ![r] = @ \/ found # {}]
            /\ top' = [top EXCEPT ![r] =
                    Greatest({changedAt[d] : d \in found} \cup {None})]
      BY DEF PullIssues, found
    <3>5. todo' \in [Runs -> SUBSET RawDocuments] /\ top' \in [Runs -> OptTimestamp]
      BY <2>4, <3>2, <3>3, <3>4, <3>7 DEF TypeOK
    <3>6. pulled' \in [Runs -> BOOLEAN]
      BY <2>4, <3>4 DEF TypeOK
    <3> QED BY <2>4, <3>5, <3>6, <3>8 DEF TypeOK, PullIssues, sourceVars, Phases
  <2>5. ASSUME NEW raw \in todo[r], SkipUnchanged(r, raw) PROVE TypeOK'
    BY <2>5 DEF TypeOK, SkipUnchanged, sourceVars
  <2>6. ASSUME NEW raw \in todo[r], Embed(r, raw) PROVE TypeOK'
    <3>1. ChunkKeys(raw) \subseteq Keys
      BY ChunkKeysType DEF TypeOK
    <3> QED BY <2>6, <3>1 DEF TypeOK, Embed, sourceVars
  <2>7. ASSUME NEW k \in work[r], Record(r, k) PROVE TypeOK'
    BY <2>7 DEF TypeOK, Record, sourceVars
  <2>8. CASE StoreChunk(r)
    BY <2>8 DEF TypeOK, StoreChunk, sourceVars
  <2>9. CASE Succeed(r)
    <3>1. NewCursor(r) \in OptTimestamp
      BY NewCursorCases
    <3> QED BY <2>9, <3>1, FinishType DEF Succeed, Succeeded
  <2>10. CASE Fail(r)
    <3>1. None \in OptTimestamp
      BY IndexingAssumption DEF OptTimestamp, None
    <3> QED BY <2>10, <3>1, FinishType DEF Fail, Failed
  <2> QED BY <1>3, <2>1, <2>2, <2>3, <2>4, <2>5, <2>6, <2>7, <2>8, <2>9, <2>10
          DEF RunStep
<1>4. CASE UNCHANGED vars
  BY <1>4 DEF TypeOK, vars
<1> QED BY <1>1, <1>2, <1>3, <1>4 DEF Next

\* Every reachable state is well typed; in particular no failed run carries a
\* cursor (record_failed).
THEOREM TypeCorrect == Spec => []TypeOK
<1>1. Init => TypeOK
  BY IndexingAssumption DEF Init, TypeOK, OptTimestamp, None, NoRun, Phases
<1> QED BY <1>1, TypeStep, PTL DEF Spec

-----------------------------------------------------------------------------
(* The cursor passes over no change *)

\* Every issue that changed before t is in K in its present version, or did not
\* fit on a page.
Covered(t, K) ==
    \A d \in Issues : version[d] > 0 /\ changedAt[d] < t
        => \/ RawDocument(d, TRUE) \in cutOff
           \/ \E whole \in BOOLEAN : ChunkKeys(RawDocument(d, whole)) \subseteq K

\* The keys that a run has still to store.
Outstanding(r) ==
    (UNION {ChunkKeys(raw) : raw \in todo[r]}) \cup work[r] \cup pending[r]

\* No timestamp lies in the future, and a document that exists has one.
InThePast ==
    /\ \A d \in Documents : changedAt[d] <= now /\ (version[d] > 0 => changedAt[d] > 0)
    /\ \A r \in Runs : /\ startedAt[r] <= now
                       /\ since[r] <= now
                       /\ top[r] <= now
                       /\ store[r].cursor <= now

\* The inductive invariant.  What a run read as `since` is covered by what is
\* stored; the cursor that an ingesting run will record is covered by that and
\* by what the run has still to store; a run's own ledger names nothing else.
IndexingInv ==
    /\ TypeOK
    /\ InThePast
    /\ \A r \in Runs : Covered(since[r], Stored)
    /\ \A r \in Runs : phase[r] = "ingest" =>
            Covered(NewCursor(r), Stored \cup Outstanding(r))
    /\ \A r \in Runs : phase[r] # "over" => ledger[r] \subseteq Stored \cup pending[r]
    /\ \A r \in Runs : store[r].status = "succeeded" =>
            Covered(store[r].cursor, Stored)

\* Covered, read in the next state, for a time and a set of this state.
CoveredNext(t, K) ==
    \A d \in Issues : version'[d] > 0 /\ changedAt'[d] < t
        => \/ RawDocument(d, TRUE)' \in cutOff'
           \/ \E whole \in BOOLEAN : ChunkKeys(RawDocument(d, whole)') \subseteq K

\* What has been cut off a page stays in the record of it.
LEMMA CutOffGrows == [Next]_vars => cutOff \subseteq cutOff'
<1>1. ASSUME NEW r \in Runs, PullIssues(r) PROVE cutOff \subseteq cutOff'
  BY <1>1 DEF PullIssues
<1>2. [Next]_vars => cutOff' = cutOff \/ \E r \in Runs : PullIssues(r)
  BY DEF Next, RunStep, Tick, Change, Begin, ReadCursor, PullFiles, SkipUnchanged, Embed,
         Record, StoreChunk, Succeed, Fail, Finish, vars
<1> QED BY <1>1, <1>2

\* A cover stays one when more is stored and no document changes.
LEMMA CoverGrows ==
    ASSUME NEW t, NEW K, NEW L, K \subseteq L, Covered(t, K),
           version' = version, changedAt' = changedAt, [Next]_vars
    PROVE  CoveredNext(t, L)
<1>1. \A d, whole : RawDocument(d, whole)' = RawDocument(d, whole)
  BY DEF RawDocument
<1> SUFFICES ASSUME NEW d \in Issues, version'[d] > 0, changedAt'[d] < t
             PROVE  \/ RawDocument(d, TRUE) \in cutOff'
                    \/ \E whole \in BOOLEAN : ChunkKeys(RawDocument(d, whole)) \subseteq L
  BY <1>1 DEF CoveredNext
<1> QED BY CutOffGrows DEF Covered

\* A cover of the past stays one when a document changes: the change is later.
LEMMA CoverOutlivesChange ==
    ASSUME TypeOK, NEW d \in Documents, Change(d), NEW t \in OptTimestamp, t <= now,
           NEW K, Covered(t, K)
    PROVE  CoveredNext(t, K)
<1> SUFFICES ASSUME NEW e \in Issues, version'[e] > 0, changedAt'[e] < t
             PROVE  \/ RawDocument(e, TRUE)' \in cutOff'
                    \/ \E whole \in BOOLEAN : ChunkKeys(RawDocument(e, whole)') \subseteq K
  BY DEF CoveredNext
<1>1. CASE e = d
  <2>1. changedAt'[e] = now
    BY <1>1 DEF Change, TypeOK
  <2> QED BY <2>1, IndexingAssumption DEF TypeOK, OptTimestamp
<1>2. CASE e # d
  <2>1. changedAt'[e] = changedAt[e] /\ version'[e] = version[e] /\ cutOff' = cutOff
    BY <1>2 DEF Change, TypeOK, Documents
  <2>2. \A whole : RawDocument(e, whole)' = RawDocument(e, whole)
    BY <2>1 DEF RawDocument
  <2> QED BY <2>1, <2>2 DEF Covered
<1> QED BY <1>1, <1>2

\* What is stored stays stored.
LEMMA StoredGrows == TypeOK /\ [Next]_vars => Stored \subseteq Stored'
<1> SUFFICES ASSUME TypeOK, [Next]_vars PROVE Stored \subseteq Stored'
  OBVIOUS
<1>1. CASE UNCHANGED copies
  BY <1>1 DEF Stored
<1>2. ASSUME NEW r \in Runs, StoreChunk(r) PROVE Stored \subseteq Stored'
  BY <1>2 DEF Stored, StoreChunk, TypeOK
<1>3. UNCHANGED copies \/ \E r \in Runs : StoreChunk(r)
  BY DEF Next, RunStep, Tick, Change, Begin, ReadCursor, PullFiles, PullIssues,
         SkipUnchanged, Embed, Record, Succeed, Fail, Finish, pipelineVars, vars
<1> QED BY <1>1, <1>2, <1>3

\* No step dates anything after the clock.
LEMMA PastStep == TypeOK /\ InThePast /\ [Next]_vars => InThePast'
<1> SUFFICES ASSUME TypeOK, InThePast, [Next]_vars PROVE InThePast'
  OBVIOUS
<1> USE IndexingAssumption
<1>0. now \in Nat /\ now > 0
  BY DEF TypeOK
<1>1. CASE Tick
  <2>1. /\ \A d \in Documents : changedAt[d] \in Nat
        /\ \A r \in Runs : /\ startedAt[r] \in Nat /\ since[r] \in Nat
                           /\ top[r] \in Nat /\ store[r].cursor \in Nat
    BY DEF TypeOK, OptTimestamp
  <2> QED BY <1>0, <1>1, <2>1 DEF InThePast, Tick
<1>2. ASSUME NEW d \in Documents, Change(d) PROVE InThePast'
  BY <1>0, <1>2 DEF InThePast, Change, TypeOK, OptTimestamp
<1>3. ASSUME NEW r \in Runs, RunStep(r) PROVE InThePast'
  <2>1. CASE Begin(r)
    BY <1>0, <2>1 DEF InThePast, Begin, sourceVars, TypeOK, OptTimestamp
  <2>2. CASE ReadCursor(r)
    <3>1. LatestCursor(store) \in Cursors(store) \cup {None}
      BY LatestCursorIsGreatest DEF TypeOK
    <3>2. \A q \in Runs : store[q].cursor <= now
      BY DEF InThePast
    <3>3. LatestCursor(store) <= now /\ None <= now
      BY <1>0, <3>1, <3>2 DEF Cursors, None
    <3> QED BY <2>2, <3>3 DEF InThePast, ReadCursor, sourceVars, TypeOK
  <2>3. CASE PullFiles(r)
    BY <2>3 DEF InThePast, PullFiles, sourceVars
  <2>4. CASE PullIssues(r)
    <3> DEFINE found == Page(Matching(since[r]))
               S == {changedAt[d] : d \in found} \cup {None}
    <3>1. found \subseteq Documents
      BY IssuesFound DEF Documents
    <3>2. Greatest(S) \in S
      <4> HIDE DEF found
      <4> QED BY <3>1, TopIsGreatest
    <3>3. Greatest(S) <= now
      <4> HIDE DEF found
      <4>1. \A s \in S : s <= now
        BY <1>0, <3>1 DEF InThePast, None
      <4> QED BY <3>2, <4>1
    <3>4. top' = [top EXCEPT ![r] = Greatest(S)]
      BY <2>4 DEF PullIssues
    <3> HIDE DEF S
    <3> QED BY <2>4, <3>3, <3>4 DEF InThePast, PullIssues, sourceVars, TypeOK
  <2>5. ASSUME NEW row, row.cursor <= now, Finish(r, row) PROVE InThePast'
    <3>1. NoRun.cursor <= now
      BY <1>0 DEF NoRun, None
    <3> QED BY <2>5, <3>1 DEF InThePast, Finish, sourceVars, TypeOK
  <2>6. CASE Succeed(r)
    <3>1. Succeeded(NewCursor(r)).cursor <= now
      BY NewCursorCases DEF Succeeded, InThePast
    <3> QED BY <2>5, <2>6, <3>1 DEF Succeed
  <2>7. CASE Fail(r)
    <3>1. Failed.cursor <= now
      BY <1>0 DEF Failed, None
    <3> QED BY <2>5, <2>7, <3>1 DEF Fail
  <2>8. CASE UNCHANGED <<now, version, changedAt, startedAt, since, top, store>>
    BY <2>8 DEF InThePast
  <2> QED BY <1>3, <2>1, <2>2, <2>3, <2>4, <2>6, <2>7, <2>8
          DEF RunStep, SkipUnchanged, Embed, Record, StoreChunk, sourceVars
<1>4. CASE UNCHANGED vars
  BY <1>4 DEF InThePast, vars
<1> QED BY <1>1, <1>2, <1>3, <1>4 DEF Next

\* What a run read as `since` stays covered by what is stored.
LEMMA SinceStep ==
    ASSUME IndexingInv, [Next]_vars, NEW r \in Runs
    PROVE  Covered(since[r], Stored)'
<1>0. TypeOK /\ InThePast /\ Covered(since[r], Stored) /\ Stored \subseteq Stored'
  BY StoredGrows DEF IndexingInv
<1> SUFFICES CoveredNext(since'[r], Stored')
  BY DEF Covered, CoveredNext
<1>1. CASE UNCHANGED <<version, changedAt, since>>
  BY <1>0, <1>1, CoverGrows
<1>2. ASSUME NEW d \in Documents, Change(d) PROVE CoveredNext(since'[r], Stored')
  <2>1. CoveredNext(since[r], Stored)
    BY <1>0, <1>2, CoverOutlivesChange DEF TypeOK, InThePast
  <2> QED BY <1>0, <1>2, <2>1 DEF Change, CoveredNext
<1>3. ASSUME NEW q \in Runs, ReadCursor(q) PROVE CoveredNext(since'[r], Stored')
  <2>1. /\ LatestCursor(store) \in Cursors(store) \cup {None}
    BY <1>0, LatestCursorIsGreatest DEF TypeOK
  <2>2. Covered(None, Stored)
    BY <1>0, IndexingAssumption DEF Covered, None, TypeOK, OptTimestamp, Documents
  <2>3. \A t \in Cursors(store) : Covered(t, Stored)
    BY DEF IndexingInv, Cursors
  <2>4. Covered(since'[r], Stored)
    BY <1>0, <1>3, <2>1, <2>2, <2>3 DEF ReadCursor, TypeOK
  <2>5. version' = version /\ changedAt' = changedAt
    BY <1>3 DEF ReadCursor, sourceVars
  <2> QED BY <1>0, <2>4, <2>5, CoverGrows
<1> QED BY <1>1, <1>2, <1>3
    DEF Next, RunStep, Tick, Begin, PullFiles, PullIssues, SkipUnchanged, Embed,
        Record, StoreChunk, Succeed, Fail, Finish, sourceVars, vars

\* A recorded cursor stays covered by what is stored.
LEMMA StoreStep ==
    ASSUME IndexingInv, [Next]_vars, NEW r \in Runs, store'[r].status = "succeeded"
    PROVE  Covered(store[r].cursor, Stored)'
<1>0. /\ TypeOK /\ InThePast /\ Stored \subseteq Stored'
      /\ store[r].status = "succeeded" => Covered(store[r].cursor, Stored)
  BY StoredGrows DEF IndexingInv
<1> SUFFICES CoveredNext(store'[r].cursor, Stored')
  BY DEF Covered, CoveredNext
<1>1. CASE UNCHANGED <<version, changedAt>> /\ store'[r] = store[r]
  BY <1>0, <1>1, CoverGrows
<1>2. ASSUME NEW d \in Documents, Change(d) PROVE CoveredNext(store'[r].cursor, Stored')
  <2>1. store' = store
    BY <1>2 DEF Change
  <2>2. CoveredNext(store[r].cursor, Stored)
    BY <1>0, <1>2, <2>1, CoverOutlivesChange DEF TypeOK, InThePast
  <2> QED BY <1>0, <2>1, <2>2 DEF CoveredNext
<1>3. ASSUME NEW q \in Runs, NEW row, Finish(q, row)
      PROVE  /\ UNCHANGED <<version, changedAt>>
             /\ store'[r] = store[r] \/ (q = r /\ store'[r] \in {row, NoRun})
  BY <1>0, <1>3 DEF Finish, sourceVars, TypeOK
<1>4. ASSUME NEW q \in Runs, Fail(q) PROVE CoveredNext(store'[r].cursor, Stored')
  <2>1. Failed.status # "succeeded" /\ NoRun.status # "succeeded"
    BY DEF Failed, NoRun
  <2> QED BY <1>1, <1>3, <1>4, <2>1 DEF Fail
<1>5. ASSUME NEW q \in Runs, Succeed(q) PROVE CoveredNext(store'[r].cursor, Stored')
  <2>1. CASE store'[r] = store[r]
    BY <1>1, <1>3, <1>5, <2>1 DEF Succeed
  <2>2. CASE q = r /\ store'[r] \in {Succeeded(NewCursor(r)), NoRun}
    <3>1. store'[r].cursor = NewCursor(r)
      BY <2>2 DEF NoRun, Succeeded
    <3>2. Outstanding(r) = {}
      BY <1>5, <2>2 DEF Succeed, BetweenDocuments, Outstanding
    <3>3. Covered(NewCursor(r), Stored \cup Outstanding(r))
      BY <1>5, <2>2 DEF IndexingInv, Succeed, BetweenDocuments
    <3>4. Covered(NewCursor(r), Stored)
      BY <3>2, <3>3 DEF Covered
    <3>5. version' = version /\ changedAt' = changedAt
      BY <1>3, <1>5 DEF Succeed
    <3> QED BY <1>0, <3>1, <3>4, <3>5, CoverGrows
  <2> QED BY <1>3, <1>5, <2>1, <2>2 DEF Succeed
<1> QED BY <1>1, <1>2, <1>4, <1>5
    DEF Next, RunStep, Tick, Begin, ReadCursor, PullFiles, PullIssues,
        SkipUnchanged, Embed, Record, StoreChunk, sourceVars, vars

\* Whether the ledger is shared never changes.
LEMMA SharingStays == [Next]_vars => (SharedLedger' <=> SharedLedger)
BY DEF Next, SharedLedger, vars

\* A run's own ledger names only what is stored or about to be.
LEMMA LedgerStep ==
    ASSUME IndexingInv, [Next]_vars, ~SharedLedger, NEW r \in Runs, phase'[r] # "over"
    PROVE  ledger'[r] \subseteq Stored' \cup pending'[r]
<1>0. /\ TypeOK /\ Stored \subseteq Stored'
      /\ phase[r] # "over" => ledger[r] \subseteq Stored \cup pending[r]
  BY StoredGrows DEF IndexingInv
<1>1. CASE phase'[r] = phase[r] /\ ledger'[r] = ledger[r] /\ pending'[r] = pending[r]
  BY <1>0, <1>1
<1>2. ASSUME NEW q \in Runs, NEW k \in work[q], Record(q, k)
      PROVE  ledger'[r] \subseteq Stored' \cup pending'[r]
  <2>1. CASE q = r
    <3>1. /\ ledger'[r] = ledger[r] \cup {k}
          /\ pending'[r] = {k} \ ledger[r]
          /\ pending[r] = {}
          /\ phase[r] # "over"
      BY <1>0, <1>2, <2>1 DEF Record, LedgerSharers, TypeOK
    <3> QED BY <1>0, <3>1
  <2>2. CASE q # r
    BY <1>0, <1>1, <1>2, <2>2 DEF Record, LedgerSharers, TypeOK
  <2> QED BY <2>1, <2>2
<1>3. ASSUME NEW q \in Runs, StoreChunk(q)
      PROVE  ledger'[r] \subseteq Stored' \cup pending'[r]
  <2>1. CASE q = r
    <3>1. pending[r] \subseteq Stored'
      BY <1>0, <1>3, <2>1 DEF StoreChunk, Stored, TypeOK
    <3> QED BY <1>0, <1>3, <2>1, <3>1 DEF StoreChunk, TypeOK
  <2>2. CASE q # r
    BY <1>0, <1>1, <1>3, <2>2 DEF StoreChunk, TypeOK
  <2> QED BY <2>1, <2>2
<1>4. ASSUME NEW q \in Runs, NEW row, Finish(q, row)
      PROVE  ledger'[r] \subseteq Stored' \cup pending'[r]
  <2>1. q # r
    BY <1>0, <1>4 DEF Finish, TypeOK
  <2> QED BY <1>0, <1>1, <1>4, <2>1 DEF Finish, TypeOK
<1>5. CASE phase[r] # "over" /\ ledger' = ledger /\ pending' = pending
  BY <1>0, <1>5
<1>6. ASSUME NEW q \in Runs, \/ Begin(q) \/ ReadCursor(q) \/ PullFiles(q) \/ PullIssues(q)
      PROVE  ledger'[r] \subseteq Stored' \cup pending'[r]
  <2>1. phase[r] # "over" /\ ledger' = ledger /\ pending' = pending
    BY <1>0, <1>6
    DEF Begin, ReadCursor, PullFiles, PullIssues, pipelineVars, TypeOK
  <2> QED BY <1>5, <2>1
<1> QED BY <1>1, <1>2, <1>3, <1>4, <1>6
    DEF Next, RunStep, Tick, Change, SkipUnchanged, Embed, Succeed, Fail,
        pipelineVars, vars

\* An ingesting run drops no key that it has still to store.
LEMMA NothingDropped ==
    ASSUME IndexingInv, [Next]_vars, NEW r \in Runs,
           phase[r] = "ingest", phase'[r] = "ingest"
    PROVE  Stored \cup Outstanding(r) \subseteq Stored' \cup Outstanding(r)'
<1>0. /\ TypeOK /\ Stored \subseteq Stored'
      /\ ledger[r] \subseteq Stored \cup pending[r]
  BY StoredGrows DEF IndexingInv
<1>a. \A k : k \in Outstanding(r) <=> \/ \E raw \in todo[r] : k \in ChunkKeys(raw)
                                      \/ k \in work[r]
                                      \/ k \in pending[r]
  BY DEF Outstanding
<1>b. \A k : k \in Outstanding(r)' <=> \/ \E raw \in todo'[r] : k \in ChunkKeys(raw)
                                       \/ k \in work'[r]
                                       \/ k \in pending'[r]
  BY DEF Outstanding
<1>1. CASE todo'[r] = todo[r] /\ work'[r] = work[r] /\ pending'[r] = pending[r]
  BY <1>0, <1>1, <1>a, <1>b
<1>2. ASSUME NEW raw \in todo[r], SkipUnchanged(r, raw)
      PROVE  Stored \cup Outstanding(r) \subseteq Stored' \cup Outstanding(r)'
  <2>1. /\ todo'[r] = todo[r] \ {raw} /\ work' = work /\ pending' = pending
        /\ ChunkKeys(raw) \subseteq ledger[r] /\ pending[r] = {}
    BY <1>0, <1>2 DEF SkipUnchanged, BetweenDocuments, TypeOK
  <2>2. ChunkKeys(raw) \subseteq Stored
    BY <1>0, <2>1
  <2> QED BY <1>0, <1>a, <1>b, <2>1, <2>2
<1>3. ASSUME NEW raw \in todo[r], Embed(r, raw)
      PROVE  Stored \cup Outstanding(r) \subseteq Stored' \cup Outstanding(r)'
  <2>1. /\ todo'[r] = todo[r] \ {raw} /\ work'[r] = ChunkKeys(raw)
        /\ pending' = pending /\ work[r] = {}
    BY <1>0, <1>3 DEF Embed, BetweenDocuments, TypeOK
  <2> QED BY <1>0, <1>a, <1>b, <2>1
<1>4. ASSUME NEW k \in work[r], Record(r, k)
      PROVE  Stored \cup Outstanding(r) \subseteq Stored' \cup Outstanding(r)'
  <2>1. /\ todo' = todo /\ work'[r] = work[r] \ {k} /\ pending[r] = {}
        /\ pending'[r] = {k} \ ledger[r]
    BY <1>0, <1>4 DEF Record, TypeOK
  <2> QED BY <1>0, <1>a, <1>b, <2>1
<1>5. CASE StoreChunk(r)
  <2>1. /\ todo' = todo /\ work' = work
        /\ pending[r] \subseteq Stored'
    BY <1>0, <1>5 DEF StoreChunk, Stored, TypeOK
  <2> QED BY <1>0, <1>a, <1>b, <2>1
<1>6. ASSUME NEW q \in Runs, RunStep(q), q # r
      PROVE  todo'[r] = todo[r] /\ work'[r] = work[r] /\ pending'[r] = pending[r]
  BY <1>0, <1>6
  DEF RunStep, Begin, ReadCursor, PullFiles, PullIssues, SkipUnchanged, Embed,
      Record, StoreChunk, Succeed, Fail, Finish, pipelineVars, TypeOK
<1>7. CASE Tick \/ (\E d \in Documents : Change(d)) \/ UNCHANGED vars
  BY <1>1, <1>7 DEF Tick, Change, pipelineVars, vars
<1>8. CASE RunStep(r)
  <2>1. \/ \E raw \in todo[r] : SkipUnchanged(r, raw) \/ Embed(r, raw)
        \/ \E k \in work[r] : Record(r, k)
        \/ StoreChunk(r)
    BY <1>0, <1>8
    DEF RunStep, Begin, ReadCursor, PullFiles, PullIssues, Succeed, Fail, Finish, TypeOK
  <2> QED BY <1>2, <1>3, <1>4, <1>5, <2>1
<1> QED BY <1>1, <1>6, <1>7, <1>8 DEF Next

\* A pull covers the cursor it will lead to: by what is stored for the issues
\* that changed before `since`, by what was pulled or cut off for the others.
LEMMA PullCovers ==
    ASSUME IndexingInv, NEW r \in Runs, PullIssues(r), [Next]_vars
    PROVE  CoveredNext(NewCursor(r)', Stored' \cup Outstanding(r)')
<1> DEFINE all == Matching(since[r])
           found == Page(all)
<1>0. TypeOK /\ TypeOK' /\ InThePast /\ Covered(since[r], Stored)
  BY TypeStep DEF IndexingInv
<1>1. found \subseteq all /\ all \subseteq Issues
  BY DEF Matching, Page
<1>2. PICK bare \in SUBSET found :
        todo'[r] = todo[r] \cup {RawDocument(d, d \notin bare) : d \in found}
  BY <1>0 DEF PullIssues, TypeOK
<1>3. /\ version' = version /\ changedAt' = changedAt /\ copies' = copies
      /\ cutOff' = cutOff \cup {RawDocument(d, TRUE) : d \in all \ found}
  BY DEF PullIssues, sourceVars
<1>4. Stored' = Stored /\ cutOff \subseteq cutOff'
  BY <1>3 DEF Stored
<1>5. \A d, whole : RawDocument(d, whole)' = RawDocument(d, whole)
  BY <1>3 DEF RawDocument
<1> SUFFICES ASSUME NEW d \in Issues, version[d] > 0, changedAt[d] < NewCursor(r)'
             PROVE  \/ RawDocument(d, TRUE) \in cutOff'
                    \/ \E whole \in BOOLEAN :
                         ChunkKeys(RawDocument(d, whole)) \subseteq Stored' \cup Outstanding(r)'
  BY <1>3, <1>5 DEF CoveredNext
<1> HIDE DEF found
<1>6. CASE changedAt[d] < since[r]
  BY <1>0, <1>4, <1>6 DEF Covered
<1>7. CASE d \in found
  <2> DEFINE whole == d \notin bare
  <2>1. whole \in BOOLEAN /\ RawDocument(d, whole) \in todo'[r]
    BY <1>2, <1>7
  <2>2. ChunkKeys(RawDocument(d, whole)) \subseteq Outstanding(r)'
    BY <2>1 DEF Outstanding
  <2> QED BY <2>1, <2>2
<1>8. CASE d \in all \ found
  BY <1>3, <1>8
<1>9. d \in all \/ changedAt[d] < since[r]
  BY <1>0, IndexingAssumption DEF Matching, TypeOK, OptTimestamp, Documents
<1> QED BY <1>6, <1>7, <1>8, <1>9

\* The cursor a run will record is the same while it ingests.
LEMMA CursorIsFixed ==
    ASSUME TypeOK, [Next]_vars, NEW r \in Runs, phase[r] = "ingest", phase'[r] = "ingest"
    PROVE  NewCursor(r)' = NewCursor(r)
<1> DEFINE Same == /\ since'[r] = since[r] /\ startedAt'[r] = startedAt[r]
                   /\ top'[r] = top[r] /\ pulled'[r] = pulled[r]
<1>1. ASSUME NEW q \in Runs, Begin(q) \/ ReadCursor(q) PROVE Same
  BY <1>1 DEF Begin, ReadCursor, TypeOK
<1>2. ASSUME NEW q \in Runs, PullFiles(q) \/ PullIssues(q) PROVE Same
  BY <1>2 DEF PullFiles, PullIssues, TypeOK
<1>3. ASSUME NEW q \in Runs, NEW raw \in todo[q], SkipUnchanged(q, raw) \/ Embed(q, raw) PROVE Same
  BY <1>3 DEF SkipUnchanged, Embed, TypeOK
<1>4. ASSUME NEW q \in Runs, StoreChunk(q) \/ \E k \in work[q] : Record(q, k) PROVE Same
  BY <1>4 DEF StoreChunk, Record, TypeOK
<1>5. ASSUME NEW q \in Runs, Succeed(q) \/ Fail(q) PROVE Same
  BY <1>5 DEF Succeed, Fail, Finish, TypeOK
<1>6. ASSUME Tick \/ \E d \in Documents : Change(d) PROVE Same
  BY <1>6 DEF Tick, Change
<1>7. ASSUME UNCHANGED vars PROVE Same
  BY <1>7 DEF vars
<1>8. Same
  BY <1>1, <1>2, <1>3, <1>4, <1>5, <1>6, <1>7 DEF Next, RunStep
<1> QED BY <1>8 DEF NewCursor

\* The cursor that an ingesting run will record stays covered.
LEMMA IngestStep ==
    ASSUME IndexingInv, [Next]_vars, NEW r \in Runs, phase'[r] = "ingest"
    PROVE  Covered(NewCursor(r), Stored \cup Outstanding(r))'
<1>0. TypeOK /\ InThePast
  BY DEF IndexingInv
<1> SUFFICES CoveredNext(NewCursor(r)', Stored' \cup Outstanding(r)')
  BY DEF Covered, CoveredNext
<1>1. CASE PullIssues(r)
  BY <1>1, PullCovers
<1>2. CASE phase[r] = "ingest"
  <2>1. NewCursor(r)' = NewCursor(r)
    BY <1>0, <1>2, CursorIsFixed
  <2>2. Stored \cup Outstanding(r) \subseteq Stored' \cup Outstanding(r)'
    BY <1>2, NothingDropped
  <2>3. Covered(NewCursor(r), Stored \cup Outstanding(r))
    BY <1>2 DEF IndexingInv
  <2>4. CASE UNCHANGED <<version, changedAt>>
    <3>1. CoveredNext(NewCursor(r), Stored' \cup Outstanding(r)')
      BY <2>2, <2>3, <2>4, CoverGrows
    <3> QED BY <2>1, <3>1
  <2>5. ASSUME NEW d \in Documents, Change(d)
        PROVE  CoveredNext(NewCursor(r)', Stored' \cup Outstanding(r)')
    <3>1. NewCursor(r) \in OptTimestamp /\ NewCursor(r) <= now
      BY <1>0, NewCursorCases DEF InThePast
    <3>2. CoveredNext(NewCursor(r), Stored \cup Outstanding(r))
      BY <1>0, <2>3, <2>5, <3>1, CoverOutlivesChange
    <3> QED BY <2>1, <2>2, <3>2 DEF CoveredNext
  <2> QED BY <2>4, <2>5
      DEF Next, RunStep, Tick, Begin, ReadCursor, PullFiles, PullIssues,
          SkipUnchanged, Embed, Record, StoreChunk, Succeed, Fail, Finish,
          sourceVars, vars
<1>3. PullIssues(r) \/ phase[r] = "ingest"
  <2>1. ASSUME NEW q \in Runs, RunStep(q), q # r PROVE phase'[r] = phase[r]
    BY <1>0, <2>1
    DEF RunStep, Begin, ReadCursor, PullFiles, PullIssues, SkipUnchanged, Embed,
        Record, StoreChunk, Succeed, Fail, Finish, TypeOK
  <2>2. CASE RunStep(r)
    BY <1>0, <2>2
    DEF RunStep, Begin, ReadCursor, PullFiles, SkipUnchanged, Embed, BetweenDocuments,
        Record, StoreChunk, Succeed, Fail, Finish, TypeOK
  <2> QED BY <2>1, <2>2 DEF Next, Tick, Change, vars
<1> QED BY <1>1, <1>2, <1>3

\* The cursor passes over no change (run_once, latest_cursor, pull_issues): an issue
\* that the next pull leaves out is stored in its present version or was too many
\* for a page, for any number of documents, a page of any size, and runs that
\* overlap and fail, when every run has a ledger of its own.
THEOREM NoChangeIsMissed == Spec => []NothingIsMissed
<1>1. Init => IndexingInv
  <2> SUFFICES ASSUME Init PROVE IndexingInv
    OBVIOUS
  <2>1. TypeOK
    BY IndexingAssumption DEF Init, TypeOK, OptTimestamp, None, NoRun, Phases
  <2>2. InThePast
    BY DEF Init, InThePast, None, NoRun
  <2>3. \A t, K : Covered(t, K)
    BY DEF Init, Covered, Documents
  <2>4. \A q \in Runs : /\ phase[q] # "ingest" /\ ledger[q] = {}
                        /\ store[q].status # "succeeded"
    BY DEF Init, NoRun
  <2> QED BY <2>1, <2>2, <2>3, <2>4 DEF IndexingInv
<1>2. IndexingInv /\ ~SharedLedger /\ [Next]_vars => IndexingInv'
  <2> SUFFICES ASSUME IndexingInv, ~SharedLedger, [Next]_vars PROVE IndexingInv'
    OBVIOUS
  <2>1. TypeOK' /\ InThePast'
    BY TypeStep, PastStep DEF IndexingInv
  <2>2. \A r \in Runs : Covered(since[r], Stored)'
    BY SinceStep
  <2>3. \A r \in Runs : phase'[r] = "ingest" =>
            Covered(NewCursor(r), Stored \cup Outstanding(r))'
    BY IngestStep
  <2>4. \A r \in Runs : phase'[r] # "over" => ledger'[r] \subseteq Stored' \cup pending'[r]
    BY LedgerStep
  <2>5. \A r \in Runs : store'[r].status = "succeeded" => Covered(store[r].cursor, Stored)'
    BY StoreStep
  <2> QED BY <2>1, <2>2, <2>3, <2>4, <2>5 DEF IndexingInv
<1>3. IndexingInv => NothingIsMissed
  <2> SUFFICES ASSUME IndexingInv, NEW d \in Issues, version[d] > 0,
                      changedAt[d] < LatestCursor(store)
               PROVE  RawDocument(d, TRUE) \in cutOff \/ Indexed(d)
    BY DEF NothingIsMissed
  <2>1. LatestCursor(store) \in Cursors(store) \cup {None}
    BY LatestCursorIsGreatest DEF IndexingInv, TypeOK
  <2>2. ~ (changedAt[d] < None)
    BY IndexingAssumption DEF IndexingInv, TypeOK, OptTimestamp, None, Documents
  <2>3. \A t \in Cursors(store) : Covered(t, Stored)
    BY DEF IndexingInv, Cursors
  <2> QED BY <2>1, <2>2, <2>3 DEF Covered, Indexed
<1>4. SharedLedger => NothingIsMissed
  BY DEF NothingIsMissed
<1> QED BY <1>1, <1>2, <1>3, <1>4, SharingStays, PTL DEF Spec

-----------------------------------------------------------------------------
(* The cursor never moves back *)

\* A run leaves its row when it ends, and only then.
RowsOfEndedRuns == \A r \in Runs : phase[r] # "over" => store[r] = NoRun

\* No step adds a row for a run that is under way.
LEMMA RowStep ==
    ASSUME TypeOK, RowsOfEndedRuns, [Next]_vars
    PROVE  RowsOfEndedRuns'
<1>1. CASE UNCHANGED store
  <2>1. \A r \in Runs : phase[r] = "over" => phase'[r] = "over"
    <3>1. ASSUME NEW q \in Runs, RunStep(q)
          PROVE  \A r \in Runs : phase[r] = "over" => phase'[r] = "over"
      BY <3>1
      DEF RunStep, Begin, ReadCursor, PullFiles, PullIssues, SkipUnchanged, Embed,
          Record, StoreChunk, Succeed, Fail, Finish, TypeOK
    <3> QED BY <3>1 DEF Next, Tick, Change, vars
  <2> QED BY <1>1, <2>1 DEF RowsOfEndedRuns
<1>2. ASSUME NEW q \in Runs, NEW row, Finish(q, row) PROVE RowsOfEndedRuns'
  BY <1>2 DEF Finish, RowsOfEndedRuns, TypeOK
<1> QED BY <1>1, <1>2
    DEF Next, RunStep, Tick, Change, Begin, ReadCursor, PullFiles, PullIssues,
        SkipUnchanged, Embed, Record, StoreChunk, Succeed, Fail, vars

\* Every cursor of the store stays there.
LEMMA CursorsGrow ==
    ASSUME TypeOK, RowsOfEndedRuns, [Next]_vars
    PROVE  Cursors(store) \subseteq Cursors(store)'
<1>1. CASE UNCHANGED store
  BY <1>1 DEF Cursors
<1>2. ASSUME NEW q \in Runs, NEW row, phase[q] # "over", Finish(q, row)
      PROVE  Cursors(store) \subseteq Cursors(store)'
  <2>1. store[q].status # "succeeded"
    BY <1>2 DEF RowsOfEndedRuns, NoRun
  <2>2. \A r \in Runs : r # q => store'[r] = store[r]
    BY <1>2 DEF Finish, TypeOK
  <2> QED BY <2>1, <2>2 DEF Cursors
<1>3. ASSUME NEW q \in Runs, Succeed(q) \/ Fail(q)
      PROVE  phase[q] # "over" /\ \E row : Finish(q, row)
  BY <1>3 DEF Succeed, Fail, BetweenDocuments
<1> QED BY <1>1, <1>2, <1>3
    DEF Next, RunStep, Tick, Change, Begin, ReadCursor, PullFiles, PullIssues,
        SkipUnchanged, Embed, Record, StoreChunk, vars

\* latest_cursor never moves back, in whatever order overlapping runs end.
THEOREM CursorIsMonotone == Spec => CursorNeverRegresses
<1>1. Init => TypeOK /\ RowsOfEndedRuns
  BY IndexingAssumption
  DEF Init, TypeOK, OptTimestamp, None, NoRun, Phases, RowsOfEndedRuns
<1>2. TypeOK /\ RowsOfEndedRuns /\ [Next]_vars => TypeOK' /\ RowsOfEndedRuns'
  BY TypeStep, RowStep
<1>3. TypeOK /\ TypeOK' /\ RowsOfEndedRuns /\ [Next]_vars
        => [LatestCursor(store)' >= LatestCursor(store)]_vars
  <2> SUFFICES ASSUME TypeOK, TypeOK', RowsOfEndedRuns, [Next]_vars
               PROVE  LatestCursor(store') >= LatestCursor(store)
    BY DEF LatestCursor, Cursors
  <2>1. Cursors(store) \subseteq Cursors(store')
    BY CursorsGrow DEF Cursors
  <2>2. /\ LatestCursor(store) \in OptTimestamp
        /\ LatestCursor(store) \in Cursors(store) \cup {None}
    BY LatestCursorIsGreatest DEF TypeOK
  <2>3. /\ LatestCursor(store') \in OptTimestamp
        /\ \A u \in Cursors(store') \cup {None} : u <= LatestCursor(store')
    BY LatestCursorIsGreatest DEF TypeOK
  <2> QED BY <2>1, <2>2, <2>3, IndexingAssumption DEF OptTimestamp
<1> QED BY <1>1, <1>2, <1>3, PTL DEF Spec, CursorNeverRegresses

-----------------------------------------------------------------------------
(* With a shared ledger no chunk is stored twice *)

\* The inductive invariant: all runs see one ledger, it names all that is stored
\* or about to be, and no chunk that is about to be stored is stored already or
\* about to be stored by another run.
OnceInv ==
    /\ \A q, r \in Runs : ledger[q] = ledger[r]
    /\ \A r \in Runs : Stored \cup pending[r] \subseteq ledger[r]
    /\ \A r \in Runs : pending[r] \cap Stored = {}
    /\ \A q, r \in Runs : q # r => pending[q] \cap pending[r] = {}
    /\ \A k \in Keys : copies[k] <= 1

\* Every step keeps it.
LEMMA OnceStep ==
    ASSUME SharedLedger, TypeOK, OnceInv, [Next]_vars
    PROVE  OnceInv'
<1>1. CASE UNCHANGED <<ledger, pending, copies>>
  BY <1>1 DEF OnceInv, Stored
<1>2. ASSUME NEW r \in Runs, NEW k \in work[r], Record(r, k) PROVE OnceInv'
  <2>1. /\ \A q \in Runs : ledger'[q] = ledger[q] \cup {k}
        /\ pending'[r] = {k} \ ledger[r] /\ pending[r] = {}
        /\ \A q \in Runs : q # r => pending'[q] = pending[q]
        /\ copies' = copies
    BY <1>2 DEF Record, LedgerSharers, TypeOK
  <2>2. Stored' = Stored
    BY <2>1 DEF Stored
  <2>3. \A q \in Runs : pending[q] \subseteq ledger[r] /\ Stored \subseteq ledger[r]
    BY DEF OnceInv
  <2>4. \A q, p \in Runs : ledger'[q] = ledger'[p]
    <3> TAKE q \in Runs, p \in Runs
    <3>1. ledger[q] = ledger[p]
      BY DEF OnceInv
    <3>2. ledger'[q] = ledger[q] \cup {k} /\ ledger'[p] = ledger[p] \cup {k}
      BY <2>1
    <3> QED BY <3>1, <3>2
  <2>5. \A q \in Runs : Stored' \cup pending'[q] \subseteq ledger'[q]
    BY <2>1, <2>2 DEF OnceInv
  <2>6. \A q \in Runs : pending'[q] \cap Stored' = {}
    BY <2>1, <2>2, <2>3 DEF OnceInv
  <2>7. \A q, p \in Runs : q # p => pending'[q] \cap pending'[p] = {}
    <3> SUFFICES ASSUME NEW q \in Runs, NEW p \in Runs, q # p
                 PROVE  pending'[q] \cap pending'[p] = {}
      OBVIOUS
    <3>1. CASE q = r
      BY <2>1, <2>3, <3>1
    <3>2. CASE p = r
      BY <2>1, <2>3, <3>2
    <3>3. CASE q # r /\ p # r
      BY <2>1, <3>3 DEF OnceInv
    <3> QED BY <3>1, <3>2, <3>3
  <2> QED BY <2>1, <2>4, <2>5, <2>6, <2>7 DEF OnceInv
<1>3. ASSUME NEW r \in Runs, StoreChunk(r) PROVE OnceInv'
  <2>1. /\ ledger' = ledger
        /\ pending'[r] = {}
        /\ \A q \in Runs : q # r => pending'[q] = pending[q]
        /\ \A k \in Keys : copies'[k] = IF k \in pending[r] THEN copies[k] + 1 ELSE copies[k]
    BY <1>3 DEF StoreChunk, TypeOK
  <2>2. \A k \in Keys : copies[k] \in Nat
    BY DEF TypeOK
  <2>3. pending[r] \subseteq Keys
    BY DEF TypeOK
  <2>4. Stored' = Stored \cup pending[r]
    BY <2>1, <2>2, <2>3 DEF Stored
  <2>5. \A k \in pending[r] : copies[k] = 0
    BY <2>2, <2>3 DEF OnceInv, Stored
  <2>6. \A k \in Keys : copies'[k] <= 1
    BY <2>1, <2>2, <2>5 DEF OnceInv
  <2> QED BY <2>1, <2>4, <2>6 DEF OnceInv
<1>4. ASSUME NEW r \in Runs, NEW row, Finish(r, row) PROVE OnceInv'
  <2>1. /\ ledger' = ledger /\ copies' = copies
        /\ pending'[r] = {}
        /\ \A q \in Runs : q # r => pending'[q] = pending[q]
    BY <1>4 DEF Finish, TypeOK
  <2>2. Stored' = Stored
    BY <2>1 DEF Stored
  <2> QED BY <2>1, <2>2 DEF OnceInv
<1> QED BY <1>1, <1>2, <1>3, <1>4
    DEF Next, RunStep, Tick, Change, Begin, ReadCursor, PullFiles, PullIssues,
        SkipUnchanged, Embed, Succeed, Fail, pipelineVars, vars

\* With a shared ledger (with_ledger) no chunk is stored twice, for any number
\* of runs that index the same documents at the same time.
THEOREM NoChunkIsStoredTwice == Spec => []StoredOnce
<1>1. Init => TypeOK /\ OnceInv
  BY IndexingAssumption
  DEF Init, TypeOK, OptTimestamp, None, NoRun, Phases, OnceInv, Stored
<1>2. TypeOK /\ [Next]_vars => TypeOK'
  BY TypeStep
<1>3. SharedLedger /\ TypeOK /\ OnceInv /\ [Next]_vars => OnceInv'
  BY OnceStep
<1>4. OnceInv \/ ~SharedLedger => StoredOnce
  BY DEF OnceInv, StoredOnce
<1> QED BY <1>1, <1>2, <1>3, <1>4, SharingStays, PTL DEF Spec
-----------------------------------------------------------------------------
(* Sorting *)

\* earlier[x] is what comes before x in a strict total order of S.
Orders(S, earlier) ==
    /\ IsFiniteSet(S)
    /\ \A x \in S : earlier[x] \in SUBSET S /\ x \notin earlier[x]
    /\ \A x, y \in S : x # y => x \in earlier[y] \/ y \in earlier[x]
    /\ \A x, y \in S : x \in earlier[y] => earlier[x] \subseteq earlier[y]

\* The elements of S, each once, in that order.
InOrder(s, S, earlier) ==
    /\ \A x \in S : \E k \in DOMAIN s : s[k] = x
    /\ \A i, j \in DOMAIN s : i < j => s[i] \in earlier[s[j]]

\* In a total order no two elements have the same number of predecessors.
LEMMA RanksDiffer ==
    ASSUME NEW S, NEW earlier, Orders(S, earlier), NEW x \in S
    PROVE  /\ Cardinality(S) \in Nat /\ Cardinality(earlier[x]) \in 0 .. Cardinality(S) - 1
           /\ \A y \in S : x \in earlier[y] => Cardinality(earlier[x]) < Cardinality(earlier[y])
           /\ \A y \in S : Cardinality(earlier[x]) = Cardinality(earlier[y]) => x = y
<1>1. \A y \in S : /\ IsFiniteSet(earlier[y]) /\ Cardinality(earlier[y]) \in Nat
                   /\ earlier[y] \in SUBSET S
  <2> SUFFICES ASSUME NEW y \in S
               PROVE  /\ IsFiniteSet(earlier[y]) /\ Cardinality(earlier[y]) \in Nat
                      /\ earlier[y] \in SUBSET S
    OBVIOUS
  <2>1. earlier[y] \in SUBSET S /\ IsFiniteSet(S)
    BY DEF Orders
  <2>2. IsFiniteSet(earlier[y])
    BY <2>1, FS_Subset
  <2> QED BY <2>1, <2>2, FS_CardinalityType
<1>2. IsFiniteSet(S) /\ Cardinality(S) \in Nat
  BY FS_CardinalityType DEF Orders
<1>3. Cardinality(earlier[x]) < Cardinality(S)
  <2>1. IsFiniteSet(S \ {x}) /\ Cardinality(S \ {x}) = Cardinality(S) - 1
    BY <1>2, FS_RemoveElement
  <2>2. earlier[x] \in SUBSET (S \ {x})
    BY DEF Orders
  <2>3. Cardinality(earlier[x]) <= Cardinality(S \ {x})
    BY <2>1, <2>2, FS_Subset
  <2> QED BY <1>1, <1>2, <2>1, <2>3
<1>4. ASSUME NEW y \in S, NEW z \in S, y \in earlier[z]
      PROVE  Cardinality(earlier[y]) < Cardinality(earlier[z])
  <2>1. y \notin earlier[y] /\ earlier[y] \cup {y} \in SUBSET earlier[z]
    BY <1>4 DEF Orders
  <2>2. Cardinality(earlier[y] \cup {y}) = Cardinality(earlier[y]) + 1
    BY <1>1, <2>1, FS_AddElement
  <2>3. Cardinality(earlier[y] \cup {y}) <= Cardinality(earlier[z])
    BY <1>1, <2>1, FS_Subset
  <2> QED BY <1>1, <2>2, <2>3
<1>5. \A y \in S : Cardinality(earlier[x]) = Cardinality(earlier[y]) => x = y
  <2> SUFFICES ASSUME NEW y \in S, Cardinality(earlier[x]) = Cardinality(earlier[y]), x # y
               PROVE  FALSE
    OBVIOUS
  <2>1. x \in earlier[y] \/ y \in earlier[x]
    BY DEF Orders
  <2> QED BY <1>1, <1>4, <2>1
<1> QED BY <1>1, <1>2, <1>3, <1>4, <1>5

\* A listing has the elements in their order.
LEMMA ListingLists ==
    ASSUME NEW S, NEW earlier, Orders(S, earlier), NEW s, s = Listing(S, earlier)
    PROVE  /\ Cardinality(S) \in Nat /\ s \in [1 .. Cardinality(S) -> S]
           /\ InOrder(s, S, earlier)
           /\ \A k \in 1 .. Cardinality(S) : Cardinality(earlier[s[k]]) = k - 1
<1> DEFINE n == Cardinality(S)
           place == [x \in S |-> Cardinality(earlier[x]) + 1]
<1>1. n \in Nat /\ IsFiniteSet(S)
  BY FS_CardinalityType DEF Orders
<1>2. \A x \in S : Cardinality(earlier[x]) \in 0 .. n - 1
  BY RanksDiffer
<1>3. place \in [S -> 1 .. n] /\ \A x \in S : place[x] = Cardinality(earlier[x]) + 1
  BY <1>1, <1>2
<1> HIDE DEF place
<1>4. \A x, y \in S : place[x] = place[y] => x = y
  <2> SUFFICES ASSUME NEW x \in S, NEW y \in S, place[x] = place[y] PROVE x = y
    OBVIOUS
  <2>1. Cardinality(earlier[x]) = Cardinality(earlier[y])
    BY <1>1, <1>2, <1>3
  <2> QED BY <2>1, RanksDiffer
<1>5. place \in Injection(S, 1 .. n)
  BY <1>3, <1>4, Zenon DEF Injection, IsInjective
<1>6. IsFiniteSet(1 .. n) /\ Cardinality(1 .. n) = n
  BY <1>1, FS_Interval
<1>7. place \in Surjection(S, 1 .. n)
  BY <1>5, <1>6, FS_Injection
<1>8. \A k \in 1 .. n : \E x \in S : place[x] = k
  BY <1>7 DEF Surjection
<1>9. \A k \in 1 .. n : \E x \in S : Cardinality(earlier[x]) = k - 1
  BY <1>1, <1>2, <1>3, <1>8
<1>10. DOMAIN s = 1 .. n /\ s \in [1 .. n -> S] /\ \A k \in 1 .. n : Cardinality(earlier[s[k]]) = k - 1
  <2>1. s = [k \in 1 .. n |-> CHOOSE x \in S : Cardinality(earlier[x]) = k - 1]
    BY DEF Listing
  <2> QED BY <1>9, <2>1
<1>11. \A x \in S : \E k \in DOMAIN s : s[k] = x
  <2> SUFFICES ASSUME NEW x \in S PROVE \E k \in 1 .. n : s[k] = x
    BY <1>10
  <2>1. PICK k : k = Cardinality(earlier[x]) + 1 /\ k \in 1 .. n
    BY <1>1, <1>2
  <2>2. s[k] \in S /\ Cardinality(earlier[s[k]]) = Cardinality(earlier[x])
    BY <1>1, <1>2, <1>10, <2>1
  <2> QED BY <2>1, <2>2, RanksDiffer
<1>12. \A i, j \in DOMAIN s : i < j => s[i] \in earlier[s[j]]
  <2> SUFFICES ASSUME NEW i \in 1 .. n, NEW j \in 1 .. n, i < j PROVE s[i] \in earlier[s[j]]
    BY <1>10
  <2>1. /\ s[i] \in S /\ s[j] \in S /\ Cardinality(earlier[s[i]]) = i - 1
        /\ Cardinality(earlier[s[j]]) = j - 1
    BY <1>10
  <2>2. s[i] \in earlier[s[j]] \/ s[j] \in earlier[s[i]]
    BY <1>1, <2>1 DEF Orders
  <2>3. s[j] \in earlier[s[i]] => Cardinality(earlier[s[j]]) < Cardinality(earlier[s[i]])
    BY <2>1, RanksDiffer
  <2> QED BY <1>1, <2>1, <2>2, <2>3
<1> QED BY <1>1, <1>10, <1>11, <1>12 DEF InOrder

\* It is the only sequence that does.
LEMMA ListingIsOnly ==
    ASSUME NEW S, NEW earlier, Orders(S, earlier), NEW m \in Nat, NEW t \in [1 .. m -> S],
           InOrder(t, S, earlier)
    PROVE  t = Listing(S, earlier)
<1>1. DOMAIN t = 1 .. m
  OBVIOUS
<1>2. \A k \in 1 .. m : Cardinality(earlier[t[k]]) = k - 1
  <2> SUFFICES ASSUME NEW k \in 1 .. m PROVE Cardinality(earlier[t[k]]) = k - 1
    OBVIOUS
  <2> DEFINE I == 1 .. k - 1
             f == [i \in I |-> t[i]]
             E == earlier[t[k]]
  <2>1. k \in Nat /\ k - 1 \in Nat /\ \A i \in I : i \in 1 .. m /\ i < k /\ i \in Nat
    OBVIOUS
  <2>2. \A i \in I : t[i] \in E
    BY <1>1, <2>1 DEF InOrder
  <2>3. \A y \in E : \E i \in I : t[i] = y
    <3> SUFFICES ASSUME NEW y \in E PROVE \E i \in I : t[i] = y
      OBVIOUS
    <3>1. y \in S /\ t[k] \in S
      BY DEF Orders
    <3>2. PICK j \in 1 .. m : t[j] = y
      BY <1>1, <3>1 DEF InOrder
    <3>3. ~(k < j)
      <4> SUFFICES ASSUME k < j PROVE FALSE
        OBVIOUS
      <4>1. t[k] \in earlier[y]
        BY <1>1, <3>2 DEF InOrder
      <4>2. earlier[y] \subseteq earlier[t[k]]
        BY <3>1 DEF Orders
      <4> QED BY <3>1, <4>1, <4>2 DEF Orders
    <3>4. k # j
      BY <3>1, <3>2 DEF Orders
    <3>5. j \in I
      BY <2>1, <3>2, <3>3, <3>4
    <3> QED BY <3>2, <3>5
  <2>4. \A i, j \in I : t[i] = t[j] => i = j
    <3> SUFFICES ASSUME NEW i \in I, NEW j \in I, t[i] = t[j], i # j PROVE FALSE
      OBVIOUS
    <3>1. t[i] \in S /\ t[j] \in S /\ (i < j \/ j < i)
      BY <2>1
    <3>2. t[i] \in earlier[t[j]] \/ t[j] \in earlier[t[i]]
      BY <1>1, <2>1, <3>1 DEF InOrder
    <3> QED BY <3>1, <3>2 DEF Orders
  <2> HIDE DEF E, I
  <2>5. f \in [I -> E] /\ \A i \in I : f[i] = t[i]
    BY <2>2
  <2> HIDE DEF f
  <2>6. f \in Bijection(I, E)
    <3>1. f \in Injection(I, E)
      BY <2>4, <2>5, Zenon DEF Injection, IsInjective
    <3>2. f \in Surjection(I, E)
      BY <2>3, <2>5, Zenon DEF Surjection
    <3> QED BY <3>1, <3>2 DEF Bijection
  <2>7. ExistsBijection(I, E)
    BY <2>6 DEF ExistsBijection
  <2>8. IsFiniteSet(I) /\ Cardinality(I) = k - 1
    <3>1. IsFiniteSet(1 .. k - 1) /\ Cardinality(1 .. k - 1) = k - 1
      BY <2>1, FS_Interval
    <3> QED BY <3>1 DEF I
  <2>9. Cardinality(E) = Cardinality(I)
    BY <2>7, <2>8, FS_Bijection
  <2> QED BY <2>8, <2>9 DEF E
<1> DEFINE n == Cardinality(S)
<1>3. PICK s : s = Listing(S, earlier)
  OBVIOUS
<1>4. /\ n \in Nat /\ s \in [1 .. n -> S] /\ \A k \in 1 .. n : Cardinality(earlier[s[k]]) = k - 1
      /\ \A x \in S : Cardinality(earlier[x]) \in 0 .. n - 1
  BY <1>3, ListingLists, RanksDiffer
<1> HIDE DEF n
<1>5. m = n
  <2>1. m <= n
    <3> SUFFICES ASSUME m > n PROVE FALSE
      BY <1>4
    <3>1. m \in 1 .. m /\ t[m] \in S
      BY <1>4
    <3>2. Cardinality(earlier[t[m]]) = m - 1 /\ Cardinality(earlier[t[m]]) \in 0 .. n - 1
      BY <1>2, <1>4, <3>1
    <3> QED BY <1>4, <3>2
  <2>2. n <= m
    <3> SUFFICES ASSUME n > m PROVE FALSE
      BY <1>4
    <3>1. n \in 1 .. n /\ s[n] \in S /\ Cardinality(earlier[s[n]]) = n - 1
      BY <1>4
    <3>2. PICK j \in 1 .. m : t[j] = s[n]
      BY <1>1, <3>1 DEF InOrder
    <3>3. Cardinality(earlier[s[n]]) = j - 1
      BY <1>2, <3>2
    <3> QED BY <1>4, <3>1, <3>2, <3>3
  <2> QED BY <1>4, <2>1, <2>2
<1>6. \A k \in 1 .. n : t[k] = s[k]
  <2> SUFFICES ASSUME NEW k \in 1 .. n PROVE t[k] = s[k]
    OBVIOUS
  <2>1. t[k] \in S /\ s[k] \in S /\ Cardinality(earlier[t[k]]) = Cardinality(earlier[s[k]])
    BY <1>2, <1>4, <1>5
  <2> QED BY <2>1, RanksDiffer
<1> QED BY <1>3, <1>4, <1>5, <1>6


\* s, of n places, has the elements of t at these places, each place once.
Picks(s, t, order, n, places) ==
    /\ order \in [1 .. n -> places]
    /\ \A p \in places : \E k \in 1 .. n : order[k] = p
    /\ \A i, j \in 1 .. n : order[i] = order[j] => i = j
    /\ DOMAIN s = 1 .. n
    /\ \A k \in 1 .. n : s[k] = t[order[k]]

Rising(order) == \A i, j \in DOMAIN order : i < j => order[i] < order[j]

\* A set of positions in ascending order.
LEMMA AscendingLists ==
    ASSUME NEW n \in Nat, NEW T \in SUBSET (1 .. n), NEW s, s = Ascending(T)
    PROVE  /\ IsFiniteSet(T) /\ Cardinality(T) \in 0 .. n
           /\ s \in [1 .. Cardinality(T) -> T] /\ Rising(s)
           /\ \A p \in T : \E k \in 1 .. Cardinality(T) : s[k] = p
           /\ \A i, j \in 1 .. Cardinality(T) : s[i] = s[j] => i = j
<1>1. IsFiniteSet(T) /\ Cardinality(T) \in 0 .. n
  <2>1. IsFiniteSet(1 .. n) /\ Cardinality(1 .. n) = n
    BY FS_Interval
  <2>2. IsFiniteSet(T) /\ Cardinality(T) <= n
    BY <2>1, FS_Subset
  <2> QED BY <2>2, FS_CardinalityType
<1> DEFINE k == Cardinality(T)
<1>2. PICK earlier : earlier = [i \in T |-> {j \in T : j < i}]
  OBVIOUS
<1>3. \A i \in T : i \in Nat
  OBVIOUS
<1>4. Orders(T, earlier)
  <2>1. \A x \in T : earlier[x] \in SUBSET T /\ x \notin earlier[x]
    BY <1>2, <1>3
  <2>2. \A x, y \in T : x # y => x \in earlier[y] \/ y \in earlier[x]
    <3> SUFFICES ASSUME NEW x \in T, NEW y \in T, x # y PROVE x \in earlier[y] \/ y \in earlier[x]
      OBVIOUS
    <3>1. x \in Nat /\ y \in Nat
      BY <1>3
    <3>2. x < y \/ y < x
      BY <3>1
    <3>3. earlier[x] = {j \in T : j < x} /\ earlier[y] = {j \in T : j < y}
      BY <1>2
    <3> QED BY <3>2, <3>3
  <2>3. \A x, y \in T : x \in earlier[y] => earlier[x] \subseteq earlier[y]
    <3> SUFFICES ASSUME NEW x \in T, NEW y \in T, x \in earlier[y], NEW z \in earlier[x]
                 PROVE  z \in earlier[y]
      OBVIOUS
    <3>1. x < y /\ z < x /\ z \in T
      BY <1>2
    <3>2. x \in Nat /\ y \in Nat /\ z \in Nat
      BY <1>3, <3>1
    <3>3. z < y
      BY <3>1, <3>2
    <3> QED BY <1>2, <3>1, <3>3
  <2> QED BY <1>1, <2>1, <2>2, <2>3 DEF Orders
<1>5. s = Listing(T, earlier)
  BY <1>2 DEF Ascending
<1>6. s \in [1 .. k -> T] /\ InOrder(s, T, earlier)
  BY <1>4, <1>5, ListingLists
<1>7. DOMAIN s = 1 .. k /\ k \in Nat
  BY <1>1, <1>6
<1>8. \A i, j \in 1 .. k : i < j => s[i] < s[j]
  BY <1>2, <1>6, <1>7 DEF InOrder
<1>9. \A i, j \in 1 .. k : s[i] = s[j] => i = j
  <2> SUFFICES ASSUME NEW i \in 1 .. k, NEW j \in 1 .. k, s[i] = s[j], i # j PROVE FALSE
    OBVIOUS
  <2>1. s[i] \in T /\ s[j] \in T
    BY <1>6
  <2>2. s[i] \in Nat /\ s[j] \in Nat
    BY <1>3, <2>1
  <2>3. i < j \/ j < i
    BY <1>7
  <2> QED BY <1>8, <2>2, <2>3
<1> QED BY <1>1, <1>6, <1>7, <1>8, <1>9 DEF InOrder, Rising

\* What a filter keeps, in the order it was in.
LEMMA AtPicks ==
    ASSUME NEW S, NEW t \in Seq(S), NEW places \in SUBSET DOMAIN t, NEW s, s = At(t, places)
    PROVE  /\ IsFiniteSet(places) /\ Cardinality(places) \in 0 .. Len(t)
           /\ s \in Seq(S) /\ Len(s) = Cardinality(places)
           /\ \E order : Picks(s, t, order, Cardinality(places), places) /\ Rising(order)
<1>1. Len(t) \in Nat /\ DOMAIN t = 1 .. Len(t) /\ \A p \in DOMAIN t : t[p] \in S
  OBVIOUS
<1>2. PICK order : order = Ascending(places)
  OBVIOUS
<1>3. PICK n : n = Cardinality(places)
  OBVIOUS
<1>4. /\ IsFiniteSet(places) /\ n \in 0 .. Len(t)
      /\ order \in [1 .. n -> places] /\ Rising(order)
      /\ \A p \in places : \E k \in 1 .. n : order[k] = p
      /\ \A i, j \in 1 .. n : order[i] = order[j] => i = j
  BY <1>1, <1>2, <1>3, AscendingLists
<1>5. DOMAIN order = 1 .. n /\ n \in Nat
  BY <1>1, <1>4
<1>6. s = [k \in 1 .. n |-> t[order[k]]]
  BY <1>2, <1>5 DEF At
<1>7. \A k \in 1 .. n : t[order[k]] \in S
  BY <1>1, <1>4
<1>8. s \in Seq(S) /\ Len(s) = n /\ DOMAIN s = 1 .. n /\ \A k \in 1 .. n : s[k] = t[order[k]]
  BY <1>5, <1>6, <1>7
<1> QED BY <1>3, <1>4, <1>8 DEF Picks

\* A stable sort keeps every element, the better ones first.
LEMMA StableSortPicks ==
    ASSUME NEW S, NEW t \in Seq(S), NEW score \in [DOMAIN t -> Int], NEW s, s = StableSort(t, score)
    PROVE  /\ s \in Seq(S) /\ Len(s) = Len(t)
           /\ \E order : /\ Picks(s, t, order, Len(t), DOMAIN t)
                         /\ \A i, j \in DOMAIN t : i < j => score[order[i]] >= score[order[j]]
<1>1. PICK n : n = Len(t) /\ n \in Nat /\ DOMAIN t = 1 .. n /\ \A p \in 1 .. n : t[p] \in S
  OBVIOUS
<1>2. PICK P : P = 1 .. n /\ IsFiniteSet(P) /\ Cardinality(P) = n
  <2>1. IsFiniteSet(1 .. n) /\ Cardinality(1 .. n) = n
    <3>1. n \in Nat
      BY <1>1
    <3> QED BY <3>1, FS_Interval
  <2> QED BY <2>1, Zenon
<1>3. DOMAIN t = P /\ \A p \in P : p \in Nat /\ score[p] \in Int
  BY <1>1, <1>2
<1>4. PICK earlier : earlier = Better(score, P)
  OBVIOUS
<1>5. \A i \in P : earlier[i] = {j \in P : score[j] > score[i] \/ (score[j] = score[i] /\ j < i)}
  BY <1>4 DEF Better
<1>6. Orders(P, earlier)
  <2>1. \A x \in P : earlier[x] \in SUBSET P /\ x \notin earlier[x]
    BY <1>3, <1>5
  <2>2. \A x, y \in P : x # y => x \in earlier[y] \/ y \in earlier[x]
    BY <1>3, <1>5
  <2>3. \A x, y \in P : x \in earlier[y] => earlier[x] \subseteq earlier[y]
    BY <1>3, <1>5
  <2> QED BY <1>2, <2>1, <2>2, <2>3 DEF Orders
<1>7. PICK order : order = Listing(P, earlier)
  OBVIOUS
<1>8. order \in [1 .. n -> P] /\ InOrder(order, P, earlier)
  BY <1>2, <1>6, <1>7, ListingLists
<1>9. s = [k \in 1 .. n |-> t[order[k]]]
  BY <1>1, <1>2, <1>4, <1>7 DEF StableSort
<1>10. \A k \in 1 .. n : order[k] \in P /\ t[order[k]] \in S
  BY <1>1, <1>2, <1>8
<1>11. s \in Seq(S) /\ Len(s) = n /\ DOMAIN s = 1 .. n /\ \A k \in 1 .. n : s[k] = t[order[k]]
  BY <1>1, <1>9, <1>10
<1>12. \A i, j \in 1 .. n : i < j => order[i] \in earlier[order[j]]
  BY <1>8 DEF InOrder
<1>13. \A i, j \in 1 .. n : i < j => score[order[i]] >= score[order[j]]
  <2> SUFFICES ASSUME NEW i \in 1 .. n, NEW j \in 1 .. n, i < j
               PROVE  score[order[i]] >= score[order[j]]
    OBVIOUS
  <2>1. PICK p, q : p = order[i] /\ q = order[j]
    OBVIOUS
  <2>2. p \in P /\ q \in P /\ p \in earlier[q] /\ score[p] \in Int /\ score[q] \in Int
    BY <1>3, <1>10, <1>12, <2>1
  <2>3. score[p] > score[q] \/ score[p] = score[q]
    BY <1>5, <2>2
  <2> QED BY <2>1, <2>2, <2>3
<1>14. \A i, j \in 1 .. n : order[i] = order[j] => i = j
  <2> SUFFICES ASSUME NEW i \in 1 .. n, NEW j \in 1 .. n, order[i] = order[j], i # j PROVE FALSE
    OBVIOUS
  <2>1. i < j \/ j < i
    BY <1>1
  <2> QED BY <1>6, <1>10, <1>12, <2>1 DEF Orders
<1>15. \A p \in P : \E k \in 1 .. n : order[k] = p
  BY <1>8 DEF InOrder
<1>16. Picks(s, t, order, n, P)
  BY <1>2, <1>8, <1>11, <1>14, <1>15 DEF Picks
<1> QED BY <1>1, <1>2, <1>3, <1>11, <1>13, <1>16

\* truncate keeps the front.
LEMMA TakeIsFront ==
    ASSUME NEW S, NEW t \in Seq(S), NEW n \in Nat, NEW s, s = Take(t, n)
    PROVE  /\ s \in Seq(S) /\ Len(s) = Smaller(n, Len(t)) /\ Len(s) \in Nat
           /\ Len(s) <= Len(t) /\ Len(s) <= n
           /\ \A k \in 1 .. Len(s) : s[k] = t[k]
<1>1. PICK m : m = Smaller(n, Len(t)) /\ m \in Nat /\ m <= Len(t) /\ m <= n
  BY DEF Smaller
<1>2. s = SubSeq(t, 1, m)
  BY <1>1 DEF Take, Smaller
<1> QED BY <1>1, <1>2

\* Hits of different documents by a score.
LEMMA RankedLists ==
    ASSUME NEW S, IsFiniteSet(S), NEW score \in [S -> Int], NEW flip \in BOOLEAN,
           \A h \in S : h.doc \in Nat, \A g, h \in S : g.doc = h.doc => g = h,
           NEW s, s = Ranked(score, flip)
    PROVE  /\ Cardinality(S) \in Nat /\ s \in [1 .. Cardinality(S) -> S]
           /\ \A h \in S : \E k \in 1 .. Cardinality(S) : s[k] = h
           /\ \A i, j \in 1 .. Cardinality(S) : s[i] = s[j] => i = j
           /\ \A i, j \in 1 .. Cardinality(S) : i < j => score[s[i]] >= score[s[j]]
<1>1. PICK earlier : earlier = Ahead(score, flip)
  OBVIOUS
<1>2. \A h, g \in S :
        g \in earlier[h] <=> \/ score[g] > score[h]
                             \/ score[g] = score[h] /\ (IF flip THEN g.doc > h.doc ELSE g.doc < h.doc)
  BY <1>1 DEF Ahead
<1>3. \A h \in S : earlier[h] \in SUBSET S /\ score[h] \in Int
  BY <1>1 DEF Ahead
<1>4. Orders(S, earlier)
  <2>1. \A x \in S : x \notin earlier[x]
    <3> SUFFICES ASSUME NEW x \in S, x \in earlier[x] PROVE FALSE
      OBVIOUS
    <3>1. ~(score[x] > score[x]) /\ ~(x.doc > x.doc) /\ ~(x.doc < x.doc)
      BY <1>3
    <3> QED BY <1>2, <3>1
  <2>2. ASSUME NEW x \in S, NEW y \in S, x # y PROVE x \in earlier[y] \/ y \in earlier[x]
    <3>1. score[x] > score[y] \/ score[y] > score[x] \/ score[x] = score[y]
      BY <1>3
    <3>2. x.doc > y.doc \/ x.doc < y.doc
      BY <2>2
    <3>3. (x.doc > y.doc <=> y.doc < x.doc) /\ (x.doc < y.doc <=> y.doc > x.doc)
      OBVIOUS
    <3> QED BY <1>2, <3>1, <3>2, <3>3
  <2>3. ASSUME NEW x \in S, NEW y \in S, x \in earlier[y], NEW z \in earlier[x]
        PROVE  z \in earlier[y]
    <3>1. z \in S
      BY <1>3
    <3>2. /\ score[x] \in Int /\ score[y] \in Int /\ score[z] \in Int
          /\ x.doc \in Nat /\ y.doc \in Nat /\ z.doc \in Nat
      BY <1>3, <3>1
    <3>3. \/ score[x] > score[y]
          \/ score[x] = score[y] /\ (IF flip THEN x.doc > y.doc ELSE x.doc < y.doc)
      BY <1>2, <2>3
    <3>4. \/ score[z] > score[x]
          \/ score[z] = score[x] /\ (IF flip THEN z.doc > x.doc ELSE z.doc < x.doc)
      BY <1>2, <3>1
    <3>5. \/ score[z] > score[y]
          \/ score[z] = score[y] /\ (IF flip THEN z.doc > y.doc ELSE z.doc < y.doc)
      BY <3>2, <3>3, <3>4
    <3> QED BY <1>2, <3>1, <3>5
  <2> QED BY <1>3, <2>1, <2>2, <2>3 DEF Orders
<1>5. DOMAIN score = S /\ s = Listing(S, earlier)
  BY <1>1 DEF Ranked
<1>6. PICK n : n = Cardinality(S) /\ n \in Nat /\ s \in [1 .. n -> S] /\ InOrder(s, S, earlier)
  BY <1>4, <1>5, ListingLists
<1>7. DOMAIN s = 1 .. n
  BY <1>6
<1>8. \A i, j \in 1 .. n : i < j => s[i] \in earlier[s[j]]
  BY <1>6, <1>7 DEF InOrder
<1>9. ASSUME NEW i \in 1 .. n, NEW j \in 1 .. n, i < j
      PROVE  score[s[i]] >= score[s[j]] /\ s[i] # s[j]
  <2>1. PICK g, h : g = s[i] /\ h = s[j] /\ g \in S /\ h \in S /\ g \in earlier[h]
    BY <1>6, <1>8, <1>9
  <2>2. score[g] \in Int /\ score[h] \in Int /\ g # h
    BY <1>3, <1>4, <2>1 DEF Orders
  <2>3. score[g] > score[h] \/ score[g] = score[h]
    BY <1>2, <2>1
  <2> QED BY <2>1, <2>2, <2>3
<1>10. \A i, j \in 1 .. n : s[i] = s[j] => i = j
  <2> SUFFICES ASSUME NEW i \in 1 .. n, NEW j \in 1 .. n, s[i] = s[j], i # j PROVE FALSE
    OBVIOUS
  <2>1. i < j \/ j < i
    BY <1>6
  <2> QED BY <1>9, <2>1
<1>11. \A h \in S : \E k \in 1 .. n : s[k] = h
  BY <1>6, <1>7 DEF InOrder
<1> QED BY <1>6, <1>9, <1>10, <1>11

-----------------------------------------------------------------------------
(* The knowledge base *)

AnyHit == [doc : Docs, n : Nat]
Ingest == [step : {"meta", "acl", "inner"}, doc : Docs, rev : Revisions, n : Nat]

\* The rows and the side tables name revisions that were given, and after the
\* one whose access list the table holds none had a list.
StoreInv ==
    /\ given \in [Docs -> Seq(Revisions)]
    /\ stored \in [Docs -> Nat] /\ settled \in [Docs -> Nat] /\ aclTable \in [Docs -> Nat]
    /\ metaTable \in [Docs -> Revisions \cup {Nil}]
    /\ ingesting \in [Ingesters -> Ingest \cup {NoIngest}]
    /\ ingests \in Nat
    /\ \A d \in Docs : /\ stored[d] <= Len(given[d]) /\ settled[d] <= Len(given[d])
                       /\ aclTable[d] <= Len(given[d])
    /\ \A i \in Ingesters : ingesting[i].step = "inner" =>
         ingesting[i].n \in 1 .. Len(given[ingesting[i].doc])
    /\ SideTables => \A d \in Docs, n \in Nat :
         n > aclTable[d] /\ n <= Len(given[d]) => given[d][n].acl = Nil

\* Revisions are only added.
GivenGrows ==
    \A d \in Docs : /\ Len(given[d]) <= Len(given'[d])
                    /\ \A n \in 1 .. Len(given[d]) : given'[d][n] = given[d][n]

\* One more revision of a document.
LEMMA RevisionAdded ==
    ASSUME StoreInv, NEW d \in Docs, NEW rev \in Revisions,
           given' = [given EXCEPT ![d] = Append(@, rev)]
    PROVE  /\ given' \in [Docs -> Seq(Revisions)] /\ GivenGrows
           /\ Len(given[d]) \in Nat /\ Len(given'[d]) = Len(given[d]) + 1
           /\ given'[d][Len(given[d]) + 1] = rev
           /\ \A c \in Docs : c # d => given'[c] = given[c]
<1>1. given \in [Docs -> Seq(Revisions)] /\ given[d] \in Seq(Revisions)
  BY DEF StoreInv
<1>2. PICK s : s = given[d] /\ s \in Seq(Revisions)
  BY <1>1
<1>3. /\ Append(s, rev) \in Seq(Revisions) /\ Len(s) \in Nat /\ Len(Append(s, rev)) = Len(s) + 1
      /\ Append(s, rev)[Len(s) + 1] = rev /\ \A n \in 1 .. Len(s) : Append(s, rev)[n] = s[n]
  BY <1>2
<1>4. given' = [given EXCEPT ![d] = Append(s, rev)]
  BY <1>2
<1>5. /\ given' \in [Docs -> Seq(Revisions)] /\ given'[d] = Append(s, rev)
      /\ \A c \in Docs : c # d => given'[c] = given[c]
  BY <1>1, <1>3, <1>4
<1>6. \A c \in Docs : given[c] \in Seq(Revisions) /\ Len(given[c]) \in Nat
  BY <1>1
<1>7. GivenGrows
  <2> SUFFICES ASSUME NEW c \in Docs
               PROVE  /\ Len(given[c]) <= Len(given'[c])
                      /\ \A n \in 1 .. Len(given[c]) : given'[c][n] = given[c][n]
    BY DEF GivenGrows
  <2>1. CASE c = d
    BY <1>2, <1>3, <1>5, <2>1
  <2>2. CASE c # d
    BY <1>5, <1>6, <2>2
  <2> QED BY <2>1, <2>2
<1> QED BY <1>2, <1>3, <1>5, <1>7

\* What an ingest in progress is.
LEMMA IngestIsTyped ==
    ASSUME StoreInv, NEW i \in Ingesters, ingesting[i].step # "idle"
    PROVE  /\ ingesting[i] \in Ingest /\ ingesting[i].doc \in Docs
           /\ ingesting[i].rev \in Revisions /\ ingesting[i].n \in Nat
<1>1. ingesting[i] \in Ingest \cup {NoIngest} /\ NoIngest.step = "idle"
  BY DEF StoreInv, NoIngest
<1>2. ingesting[i] \in Ingest
  BY <1>1
<1> QED BY <1>2 DEF Ingest

\* A step of an ingest that adds no revision.
LEMMA IngestMovesOn ==
    ASSUME StoreInv, NEW i \in Ingesters, NEW p \in Ingest \cup {NoIngest},
           ingesting' = [ingesting EXCEPT ![i] = p], p.step # "inner",
           ingests' \in Nat, metaTable' \in [Docs -> Revisions \cup {Nil}],
           UNCHANGED <<layer, given, aclTable, settled>>,
           stored' \in [Docs -> Nat], \A d \in Docs : stored'[d] <= Len(given[d])
    PROVE  StoreInv' /\ GivenGrows
<1>1. ingesting' \in [Ingesters -> Ingest \cup {NoIngest}]
  BY DEF StoreInv
<1>2. \A j \in Ingesters : ingesting'[j] = IF j = i THEN p ELSE ingesting[j]
  BY DEF StoreInv
<1>3. \A j \in Ingesters : ingesting'[j].step = "inner" =>
         ingesting'[j].n \in 1 .. Len(given'[ingesting'[j].doc])
  <2> SUFFICES ASSUME NEW j \in Ingesters, ingesting'[j].step = "inner"
               PROVE  ingesting'[j].n \in 1 .. Len(given'[ingesting'[j].doc])
    OBVIOUS
  <2>1. j # i /\ ingesting'[j] = ingesting[j]
    BY <1>2
  <2> QED BY <2>1 DEF StoreInv
<1>4. SideTables' = SideTables
  BY DEF SideTables
<1>5. \A d \in Docs : Len(given[d]) \in Nat
  BY DEF StoreInv
<1> QED BY <1>1, <1>3, <1>4, <1>5 DEF StoreInv, GivenGrows

\* An ingest starts.
LEMMA IngestStartKeeps ==
    ASSUME StoreInv, NEW i \in Ingesters, NEW d \in Moving, NEW rev \in Revisions,
           IngestStart(i, d, rev), layer' = layer
    PROVE  StoreInv' /\ GivenGrows
<1>1. /\ ingests' = ingests + 1 /\ UNCHANGED <<given, stored, aclTable, metaTable, settled>>
      /\ ingesting' = [ingesting EXCEPT ![i] =
            [step |-> IF layer = "curated" THEN "meta" ELSE "acl", doc |-> d, rev |-> rev, n |-> 0]]
  BY DEF IngestStart
<1>2. d \in Docs
  BY KnowledgeAssumption
<1>3. PICK p : p = [step |-> IF layer = "curated" THEN "meta" ELSE "acl", doc |-> d, rev |-> rev, n |-> 0]
  OBVIOUS
<1>4. p \in Ingest /\ p.step # "inner"
  BY <1>2, <1>3 DEF Ingest
<1>5. /\ ingests' \in Nat /\ metaTable' \in [Docs -> Revisions \cup {Nil}]
      /\ stored' \in [Docs -> Nat] /\ \A c \in Docs : stored'[c] <= Len(given[c])
  BY <1>1 DEF StoreInv
<1> QED BY <1>1, <1>3, <1>4, <1>5, IngestMovesOn

\* The curation data are recorded.
LEMMA RecordMetaKeeps ==
    ASSUME StoreInv, NEW i \in Ingesters, RecordMeta(i), layer' = layer
    PROVE  StoreInv' /\ GivenGrows
<1>1. /\ ingesting[i].step = "meta" /\ UNCHANGED <<given, stored, aclTable, settled, ingests>>
      /\ metaTable' = [metaTable EXCEPT ![ingesting[i].doc] = ingesting[i].rev]
      /\ ingesting' = [ingesting EXCEPT ![i].step = "acl"]
  BY DEF RecordMeta
<1>2. ingesting[i] \in Ingest /\ ingesting[i].doc \in Docs /\ ingesting[i].rev \in Revisions
  BY <1>1, IngestIsTyped
<1>3. PICK p : p = [ingesting[i] EXCEPT !.step = "acl"]
  OBVIOUS
<1>4. p \in Ingest /\ p.step # "inner"
  BY <1>2, <1>3 DEF Ingest
<1>5. ingesting' = [ingesting EXCEPT ![i] = p]
  BY <1>1, <1>3
<1>6. /\ ingests' \in Nat /\ metaTable' \in [Docs -> Revisions \cup {Nil}]
      /\ stored' \in [Docs -> Nat] /\ \A c \in Docs : stored'[c] <= Len(given[c])
  BY <1>1, <1>2 DEF StoreInv
<1> QED BY <1>1, <1>4, <1>5, <1>6, IngestMovesOn

\* The access list is recorded, or its absence shows in the revision.
LEMMA RecordAclKeeps ==
    ASSUME StoreInv, NEW i \in Ingesters, RecordAcl(i), layer' = layer
    PROVE  StoreInv' /\ GivenGrows
<1>1. PICK q, d, rev, m :
        q = ingesting[i] /\ d = ingesting[i].doc /\ rev = ingesting[i].rev /\ m = Len(given[d])
  OBVIOUS
<1>2. /\ q.step = "acl" /\ UNCHANGED <<stored, metaTable, settled, ingests>>
      /\ given' = [given EXCEPT ![d] = Append(@, rev)]
      /\ aclTable' = IF rev.acl = Nil THEN aclTable ELSE [aclTable EXCEPT ![d] = m + 1]
      /\ ingesting' = [ingesting EXCEPT ![i].step = "inner", ![i].n = m + 1]
  BY <1>1 DEF RecordAcl
<1>3. q \in Ingest /\ d \in Docs /\ rev \in Revisions
  BY <1>1, <1>2, IngestIsTyped
<1>4. /\ given' \in [Docs -> Seq(Revisions)] /\ GivenGrows /\ m \in Nat /\ Len(given'[d]) = m + 1
      /\ given'[d][m + 1] = rev /\ \A c \in Docs : c # d => given'[c] = given[c]
  BY <1>1, <1>2, <1>3, RevisionAdded
<1>5. PICK p : p = [q EXCEPT !.step = "inner", !.n = m + 1]
  OBVIOUS
<1>6. p \in Ingest /\ p.doc = d /\ p.n = m + 1
  <2>1. PICK n : n = m + 1 /\ n \in Nat
    BY <1>4
  <2>2. p = [q EXCEPT !.step = "inner", !.n = n] /\ q.doc = d
    BY <1>1, <1>5, <2>1
  <2> QED BY <1>3, <2>1, <2>2 DEF Ingest
<1>7. ingesting \in [Ingesters -> Ingest \cup {NoIngest}] /\ ingesting' = [ingesting EXCEPT ![i] = p]
  BY <1>1, <1>2, <1>5 DEF StoreInv
<1>8. /\ ingesting' \in [Ingesters -> Ingest \cup {NoIngest}]
      /\ \A j \in Ingesters : ingesting'[j] = IF j = i THEN p ELSE ingesting[j]
  BY <1>6, <1>7
<1>9. \A c \in Docs : Len(given[c]) \in Nat /\ Len(given'[c]) \in Nat /\ Len(given[c]) <= Len(given'[c])
  BY <1>4 DEF StoreInv, GivenGrows
<1>10. \A j \in Ingesters : ingesting'[j].step = "inner" =>
         ingesting'[j].n \in 1 .. Len(given'[ingesting'[j].doc])
  <2> SUFFICES ASSUME NEW j \in Ingesters, ingesting'[j].step = "inner"
               PROVE  ingesting'[j].n \in 1 .. Len(given'[ingesting'[j].doc])
    OBVIOUS
  <2>1. CASE j = i
    BY <1>4, <1>6, <1>8, <2>1
  <2>2. CASE j # i
    <3>1. ingesting'[j] = ingesting[j] /\ ingesting[j].step = "inner"
      BY <1>8, <2>2
    <3>2. ingesting[j].n \in 1 .. Len(given[ingesting[j].doc]) /\ ingesting[j].doc \in Docs
      BY <3>1, IngestIsTyped DEF StoreInv
    <3> QED BY <1>9, <3>1, <3>2
  <2> QED BY <2>1, <2>2
<1>11. /\ aclTable' \in [Docs -> Nat]
       /\ \A c \in Docs : c # d => aclTable'[c] = aclTable[c]
       /\ rev.acl = Nil => aclTable'[d] = aclTable[d]
       /\ rev.acl # Nil => aclTable'[d] = m + 1
  BY <1>2, <1>3, <1>4 DEF StoreInv
<1>12. \A c \in Docs : stored[c] \in Nat /\ settled[c] \in Nat /\ aclTable[c] \in Nat
  BY DEF StoreInv
<1>13. ASSUME NEW c \in Docs
       PROVE  /\ stored'[c] <= Len(given'[c]) /\ settled'[c] <= Len(given'[c])
              /\ aclTable'[c] <= Len(given'[c])
  <2>1. stored[c] <= Len(given[c]) /\ settled[c] <= Len(given[c]) /\ aclTable[c] <= Len(given[c])
    BY DEF StoreInv
  <2>2. stored'[c] <= Len(given'[c]) /\ settled'[c] <= Len(given'[c])
    BY <1>2, <1>9, <1>12, <2>1
  <2>3. aclTable'[c] = aclTable[c] \/ (c = d /\ aclTable'[c] = m + 1)
    BY <1>11
  <2>4. aclTable'[c] <= Len(given'[c])
    BY <1>4, <1>9, <1>12, <2>1, <2>3
  <2> QED BY <2>2, <2>4
<1>14. ASSUME NEW c \in Docs, NEW n \in Nat, n > aclTable'[c], n <= Len(given'[c])
       PROVE  given'[c][n].acl = Nil
  <2>0. SideTables
    BY DEF RecordAcl
  <2>1. \A k \in Nat : k > aclTable[c] /\ k <= Len(given[c]) => given[c][k].acl = Nil
    BY <2>0 DEF StoreInv
  <2>2. CASE c # d
    BY <1>4, <1>11, <1>14, <2>1, <2>2
  <2>3. CASE c = d
    <3>1. rev.acl = Nil /\ aclTable'[d] = aclTable[d]
      BY <1>4, <1>11, <1>14, <2>3
    <3>2. CASE n = m + 1
      BY <1>4, <2>3, <3>1, <3>2
    <3>3. CASE n # m + 1
      <4>1. n \in 1 .. m /\ m = Len(given[c])
        BY <1>1, <1>4, <1>12, <1>14, <2>3, <3>1, <3>3
      <4>2. given'[c][n] = given[c][n]
        BY <1>4, <4>1 DEF GivenGrows
      <4> QED BY <1>14, <2>1, <2>3, <3>1, <4>1, <4>2
    <3> QED BY <3>2, <3>3
  <2> QED BY <2>2, <2>3
<1>15. /\ stored' \in [Docs -> Nat] /\ settled' \in [Docs -> Nat] /\ ingests' \in Nat
       /\ metaTable' \in [Docs -> Revisions \cup {Nil}]
  BY <1>2 DEF StoreInv
<1> QED BY <1>4, <1>8, <1>10, <1>11, <1>13, <1>14, <1>15 DEF StoreInv

\* The document goes to the store, as the revision that was recorded.
LEMMA IngestInnerKeeps ==
    ASSUME StoreInv, NEW i \in Ingesters, IngestInner(i), layer' = layer
    PROVE  StoreInv' /\ GivenGrows
<1>1. PICK q : q = ingesting[i]
  OBVIOUS
<1>2. /\ q.step = "inner" /\ UNCHANGED <<given, aclTable, metaTable, settled, ingests>>
      /\ stored' = [stored EXCEPT ![q.doc] = q.n] /\ ingesting' = [ingesting EXCEPT ![i] = NoIngest]
  BY <1>1 DEF IngestInner
<1>3. q.doc \in Docs /\ q.n \in Nat /\ q.n \in 1 .. Len(given[q.doc])
  BY <1>1, <1>2, IngestIsTyped DEF StoreInv
<1>4. stored \in [Docs -> Nat] /\ \A d \in Docs : stored[d] <= Len(given[d]) /\ Len(given[d]) \in Nat
  BY DEF StoreInv
<1>5. stored' \in [Docs -> Nat] /\ \A d \in Docs : stored'[d] = IF d = q.doc THEN q.n ELSE stored[d]
  BY <1>2, <1>3, <1>4
<1>6. \A d \in Docs : stored'[d] <= Len(given[d])
  BY <1>3, <1>4, <1>5
<1>7. NoIngest.step # "inner" /\ ingests' \in Nat /\ metaTable' \in [Docs -> Revisions \cup {Nil}]
  BY <1>2 DEF NoIngest, StoreInv
<1> QED BY <1>2, <1>5, <1>6, <1>7, IngestMovesOn

\* A row is written.
LEMMA IngestRowKeeps ==
    ASSUME StoreInv, NEW i \in Ingesters, IngestRow(i), layer' = layer
    PROVE  StoreInv' /\ GivenGrows
<1>1. PICK q, d, rev, m :
        q = ingesting[i] /\ d = ingesting[i].doc /\ rev = ingesting[i].rev /\ m = Len(given[d])
  OBVIOUS
<1>2. /\ ~SideTables /\ q.step = "acl" /\ UNCHANGED <<aclTable, metaTable, settled, ingests>>
      /\ given' = [given EXCEPT ![d] = Append(@, rev)]
      /\ stored' = [stored EXCEPT ![d] = m + 1]
      /\ ingesting' = [ingesting EXCEPT ![i] = NoIngest]
  BY <1>1 DEF IngestRow
<1>3. d \in Docs /\ rev \in Revisions
  BY <1>1, <1>2, IngestIsTyped
<1>4. /\ given' \in [Docs -> Seq(Revisions)] /\ GivenGrows /\ m \in Nat /\ Len(given'[d]) = m + 1
  BY <1>1, <1>2, <1>3, RevisionAdded
<1>5. \A c \in Docs : Len(given[c]) \in Nat /\ Len(given'[c]) \in Nat /\ Len(given[c]) <= Len(given'[c])
  BY <1>4 DEF StoreInv, GivenGrows
<1>6. /\ ingesting' \in [Ingesters -> Ingest \cup {NoIngest}]
      /\ \A j \in Ingesters : ingesting'[j] = IF j = i THEN NoIngest ELSE ingesting[j]
  BY <1>2 DEF StoreInv
<1>7. \A j \in Ingesters : ingesting'[j].step = "inner" =>
         ingesting'[j].n \in 1 .. Len(given'[ingesting'[j].doc])
  <2> SUFFICES ASSUME NEW j \in Ingesters, ingesting'[j].step = "inner"
               PROVE  ingesting'[j].n \in 1 .. Len(given'[ingesting'[j].doc])
    OBVIOUS
  <2>1. ingesting'[j] = ingesting[j] /\ ingesting[j].step = "inner"
    BY <1>6 DEF NoIngest
  <2>2. ingesting[j].n \in 1 .. Len(given[ingesting[j].doc]) /\ ingesting[j].doc \in Docs
    BY <2>1, IngestIsTyped DEF StoreInv
  <2> QED BY <1>5, <2>1, <2>2
<1>8. /\ stored' \in [Docs -> Nat] /\ settled' \in [Docs -> Nat] /\ aclTable' \in [Docs -> Nat]
      /\ metaTable' \in [Docs -> Revisions \cup {Nil}] /\ ingests' \in Nat
      /\ \A c \in Docs : stored'[c] = IF c = d THEN m + 1 ELSE stored[c]
      /\ \A c \in Docs : stored[c] \in Nat /\ settled[c] \in Nat /\ aclTable[c] \in Nat
  BY <1>2, <1>4 DEF StoreInv
<1>9. ASSUME NEW c \in Docs
      PROVE  /\ stored'[c] <= Len(given'[c]) /\ settled'[c] <= Len(given'[c])
             /\ aclTable'[c] <= Len(given'[c])
  <2>1. stored[c] <= Len(given[c]) /\ settled[c] <= Len(given[c]) /\ aclTable[c] <= Len(given[c])
    BY DEF StoreInv
  <2>2. settled'[c] = settled[c] /\ aclTable'[c] = aclTable[c]
    BY <1>2
  <2>3. stored'[c] <= Len(given'[c])
    <3>1. CASE c = d
      BY <1>4, <1>8, <3>1
    <3>2. CASE c # d
      BY <1>5, <1>8, <2>1, <3>2
    <3> QED BY <3>1, <3>2
  <2>4. settled'[c] <= Len(given'[c]) /\ aclTable'[c] <= Len(given'[c])
    BY <1>5, <1>8, <2>1, <2>2
  <2> QED BY <2>3, <2>4
<1>10. ~SideTables'
  BY <1>2 DEF SideTables
<1> QED BY <1>4, <1>6, <1>7, <1>8, <1>9, <1>10 DEF StoreInv

\* Every step of an ingest, and of replication.
LEMMA KnowledgeStep ==
    ASSUME StoreInv, IngestNext, layer' = layer
    PROVE  StoreInv' /\ GivenGrows
<1>1. ASSUME NEW i \in Ingesters, IngestFails(i) PROVE StoreInv' /\ GivenGrows
  <2>1. /\ UNCHANGED <<given, stored, aclTable, metaTable, settled, ingests>>
        /\ ingesting' = [ingesting EXCEPT ![i] = NoIngest]
    BY <1>1 DEF IngestFails
  <2>2. NoIngest.step # "inner"
    BY DEF NoIngest
  <2>3. /\ ingests' \in Nat /\ metaTable' \in [Docs -> Revisions \cup {Nil}]
        /\ stored' \in [Docs -> Nat] /\ \A c \in Docs : stored'[c] <= Len(given[c])
    BY <2>1 DEF StoreInv
  <2> QED BY <2>1, <2>2, <2>3, IngestMovesOn
<1>2. ASSUME NEW d \in Docs, Settle(d) PROVE StoreInv' /\ GivenGrows
  <2>1. /\ settled' = [settled EXCEPT ![d] = stored[d]]
        /\ UNCHANGED <<given, stored, aclTable, metaTable, ingesting, ingests>>
    BY <1>2 DEF Settle
  <2>2. settled' \in [Docs -> Nat] /\ \A c \in Docs : settled'[c] <= Len(given'[c])
    BY <2>1 DEF StoreInv
  <2>3. SideTables' = SideTables
    BY DEF SideTables
  <2>4. \A c \in Docs : Len(given[c]) \in Nat
    BY DEF StoreInv
  <2> QED BY <2>1, <2>2, <2>3, <2>4 DEF StoreInv, GivenGrows
<1> QED BY <1>1, <1>2, IngestStartKeeps, RecordMetaKeeps, RecordAclKeeps, IngestInnerKeeps,
           IngestRowKeeps DEF IngestNext

-----------------------------------------------------------------------------
(* Hits *)

DistinctDocs(s) == \A j, k \in DOMAIN s : s[j].doc = s[k].doc => j = k

\* s has elements of t, none more often than t.
Sub(s, t) ==
    \E order \in [DOMAIN s -> DOMAIN t] :
        /\ \A i, j \in DOMAIN s : order[i] = order[j] => i = j
        /\ \A k \in DOMAIN s : s[k] = t[order[k]]

\* A sequence's positions and elements.
LEMMA SeqHas ==
    ASSUME NEW S, NEW s \in Seq(S)
    PROVE  Len(s) \in Nat /\ DOMAIN s = 1 .. Len(s) /\ \A k \in DOMAIN s : s[k] \in S
OBVIOUS

\* What holds of the elements of a sequence holds of those of a part.
LEMMA SubKeeps ==
    ASSUME NEW s, NEW t, Sub(s, t)
    PROVE  /\ \A k \in DOMAIN s : \E j \in DOMAIN t : s[k] = t[j]
           /\ ToSet(s) \subseteq ToSet(t)
           /\ DistinctDocs(t) => DistinctDocs(s)
<1>1. PICK order \in [DOMAIN s -> DOMAIN t] :
        /\ \A i, j \in DOMAIN s : order[i] = order[j] => i = j
        /\ \A k \in DOMAIN s : s[k] = t[order[k]]
  BY DEF Sub
<1>2. \A k \in DOMAIN s : order[k] \in DOMAIN t
  OBVIOUS
<1>3. \A k \in DOMAIN s : \E j \in DOMAIN t : s[k] = t[j]
  BY <1>1, <1>2
<1>4. ToSet(s) \subseteq ToSet(t)
  BY <1>3 DEF ToSet
<1>5. DistinctDocs(t) => DistinctDocs(s)
  BY <1>1, <1>2 DEF DistinctDocs
<1> QED BY <1>3, <1>4, <1>5

\* A part of a part is a part.
LEMMA SubOfSub ==
    ASSUME NEW s, NEW t, NEW u, Sub(s, t), Sub(t, u)
    PROVE  Sub(s, u)
<1>1. PICK f \in [DOMAIN s -> DOMAIN t] :
        /\ \A i, j \in DOMAIN s : f[i] = f[j] => i = j
        /\ \A k \in DOMAIN s : s[k] = t[f[k]]
  BY DEF Sub
<1>2. PICK g \in [DOMAIN t -> DOMAIN u] :
        /\ \A i, j \in DOMAIN t : g[i] = g[j] => i = j
        /\ \A k \in DOMAIN t : t[k] = u[g[k]]
  BY DEF Sub
<1>3. PICK h : h = [k \in DOMAIN s |-> g[f[k]]]
  OBVIOUS
<1>4. \A k \in DOMAIN s : f[k] \in DOMAIN t /\ g[f[k]] \in DOMAIN u /\ h[k] = g[f[k]]
  BY <1>3
<1>5. h \in [DOMAIN s -> DOMAIN u]
  BY <1>3, <1>4
<1>6. \A i, j \in DOMAIN s : h[i] = h[j] => i = j
  BY <1>1, <1>2, <1>4
<1>7. \A k \in DOMAIN s : s[k] = u[h[k]]
  BY <1>1, <1>2, <1>4
<1> QED BY <1>5, <1>6, <1>7 DEF Sub

\* Picking by an order without repetitions gives a part.
LEMMA PicksIsSub ==
    ASSUME NEW s, NEW t, NEW order, NEW n \in Nat, NEW places \in SUBSET DOMAIN t,
           Picks(s, t, order, n, places)
    PROVE  Sub(s, t)
<1>1. /\ order \in [1 .. n -> places] /\ DOMAIN s = 1 .. n
      /\ \A i, j \in 1 .. n : order[i] = order[j] => i = j
      /\ \A k \in 1 .. n : s[k] = t[order[k]]
  BY DEF Picks
<1>2. order \in [DOMAIN s -> DOMAIN t]
  BY <1>1
<1> QED BY <1>1, <1>2 DEF Sub

\* truncate, filter and sort_by give parts.
LEMMA TakeIsSub ==
    ASSUME NEW S, NEW t \in Seq(S), NEW n \in Nat
    PROVE  Take(t, n) \in Seq(S) /\ Sub(Take(t, n), t)
<1>1. PICK s : s = Take(t, n)
  OBVIOUS
<1>2. s \in Seq(S) /\ Len(s) \in Nat /\ Len(s) <= Len(t) /\ \A k \in 1 .. Len(s) : s[k] = t[k]
  BY <1>1, TakeIsFront
<1>3. DOMAIN s = 1 .. Len(s) /\ DOMAIN t = 1 .. Len(t) /\ Len(t) \in Nat
  BY <1>2
<1>4. PICK order : order = [k \in DOMAIN s |-> k]
  OBVIOUS
<1>5. \A k \in DOMAIN s : k \in DOMAIN t /\ order[k] = k
  BY <1>2, <1>3, <1>4
<1>6. order \in [DOMAIN s -> DOMAIN t]
  BY <1>4, <1>5
<1> QED BY <1>1, <1>2, <1>3, <1>5, <1>6 DEF Sub

\* The same for a filter.
LEMMA AtIsSub ==
    ASSUME NEW S, NEW t \in Seq(S), NEW places \in SUBSET DOMAIN t
    PROVE  At(t, places) \in Seq(S) /\ Sub(At(t, places), t)
<1>1. PICK s : s = At(t, places)
  OBVIOUS
<1>2. s \in Seq(S) /\ Cardinality(places) \in Nat
      /\ \E order : Picks(s, t, order, Cardinality(places), places)
  BY <1>1, AtPicks
<1>3. Sub(s, t)
  BY <1>2, PicksIsSub
<1> QED BY <1>1, <1>2, <1>3

\* The same for a stable sort.
LEMMA StableSortIsSub ==
    ASSUME NEW S, NEW t \in Seq(S), NEW score \in [DOMAIN t -> Int]
    PROVE  StableSort(t, score) \in Seq(S) /\ Sub(StableSort(t, score), t)
<1>1. PICK s : s = StableSort(t, score)
  OBVIOUS
<1>2. s \in Seq(S) /\ Len(t) \in Nat /\ \E order : Picks(s, t, order, Len(t), DOMAIN t)
  BY <1>1, StableSortPicks
<1>3. Sub(s, t)
  BY <1>2, PicksIsSub
<1> QED BY <1>1, <1>2, <1>3

\* Hits of different documents are finitely many.
LEMMA HitsAreFinite ==
    ASSUME NEW S \in SUBSET AnyHit, \A g, h \in S : g.doc = h.doc => g = h
    PROVE  IsFiniteSet(S) /\ Cardinality(S) \in Nat /\ \A h \in S : h.doc \in Nat
<1>1. IsFiniteSet(Docs) /\ Docs \subseteq Nat
  BY KnowledgeAssumption
<1>2. PICK f : f = [h \in S |-> h.doc]
  OBVIOUS
<1>3. \A h \in S : h.doc \in Docs
  BY DEF AnyHit
<1>4. f \in [S -> Docs] /\ \A h \in S : f[h] = h.doc
  BY <1>2, <1>3
<1>5. \A g, h \in S : f[g] = f[h] => g = h
  BY <1>4
<1>6. f \in Injection(S, Docs)
  BY <1>4, <1>5, Zenon DEF Injection, IsInjective
<1>7. IsFiniteSet(S)
  BY <1>1, <1>6, FS_Injection
<1> QED BY <1>1, <1>3, <1>7, FS_CardinalityType

\* Ranking hits of different documents.
LEMMA RankedHits ==
    ASSUME NEW S \in SUBSET AnyHit, \A g, h \in S : g.doc = h.doc => g = h,
           NEW score \in [S -> Int], NEW flip \in BOOLEAN, NEW s, s = Ranked(score, flip)
    PROVE  /\ s \in Seq(S) /\ s \in Seq(AnyHit) /\ ToSet(s) = S /\ Len(s) = Cardinality(S)
           /\ IsFiniteSet(S) /\ Cardinality(S) \in Nat /\ DistinctDocs(s)
           /\ \A i, j \in 1 .. Len(s) : i < j => score[s[i]] >= score[s[j]]
<1>1. IsFiniteSet(S) /\ Cardinality(S) \in Nat /\ \A h \in S : h.doc \in Nat
  BY HitsAreFinite
<1>2. PICK n : n = Cardinality(S) /\ n \in Nat
  BY <1>1
<1>3. /\ s \in [1 .. n -> S] /\ \A h \in S : \E k \in 1 .. n : s[k] = h
      /\ \A i, j \in 1 .. n : s[i] = s[j] => i = j
      /\ \A i, j \in 1 .. n : i < j => score[s[i]] >= score[s[j]]
  BY <1>1, <1>2, RankedLists
<1>4. s \in Seq(S) /\ Len(s) = n /\ DOMAIN s = 1 .. n /\ \A k \in 1 .. n : s[k] \in S
  <2>1. s \in [1 .. n -> S]
    BY <1>3
  <2>2. s \in Seq(S) /\ Len(s) = n
    BY <1>2, <2>1
  <2>3. DOMAIN s = 1 .. n /\ \A k \in 1 .. n : s[k] \in S
    BY <2>1
  <2> QED BY <2>2, <2>3
<1>5. s \in Seq(AnyHit)
  BY <1>4
<1>6. ToSet(s) = S
  <2>1. ToSet(s) = {s[k] : k \in 1 .. n}
    BY <1>4 DEF ToSet
  <2>2. ToSet(s) \subseteq S
    BY <1>4, <2>1
  <2>3. ASSUME NEW h \in S PROVE h \in ToSet(s)
    <3>1. PICK k \in 1 .. n : s[k] = h
      BY <1>3
    <3> QED BY <2>1, <3>1
  <2> QED BY <2>2, <2>3
<1>7. DistinctDocs(s)
  BY <1>3, <1>4 DEF DistinctDocs
<1> QED BY <1>1, <1>2, <1>3, <1>4, <1>5, <1>6, <1>7

\* A hit's revision was given.
KnownIn(revs, h) == h.doc \in Docs /\ h.n \in 1 .. Len(revs[h.doc])
Known(h) == KnownIn(given, h)

\* The turn's requester may read it, or a later revision of its document.
OpenIn(revs, ctx, h) == \E n \in h.n .. Len(revs[h.doc]) : Allows(ctx, revs[h.doc][n].acl)
Open(h) == OpenIn(given, as.ctx, h)

\* The scores of a known hit.
LEMMA KnownHasScores ==
    ASSUME StoreInv, NEW h \in AnyHit, Known(h)
    PROVE  /\ Rev(h) \in Revisions /\ Keyword(h) \in Nat /\ Cosine(h) \in Int /\ Boosted(h) \in Int
<1>1. h.doc \in Docs /\ given[h.doc] \in Seq(Revisions) /\ h.n \in 1 .. Len(given[h.doc])
  BY DEF Known, KnownIn, StoreInv
<1>2. Rev(h) \in Revisions
  <2>1. PICK s : s = given[h.doc] /\ s \in Seq(Revisions)
    BY <1>1
  <2> QED BY <1>1, <2>1 DEF Rev
<1>3. Keyword(h) \in Nat /\ Cosine(h) \in Int
  BY <1>2, KnowledgeAssumption DEF Keyword, Cosine
<1>4. MetaOf(h).boost \in Int
  <2>1. CASE metaTable[h.doc] = Nil
    BY <2>1 DEF MetaOf, EmptyMeta
  <2>2. CASE metaTable[h.doc] # Nil
    <3>1. PICK rev : rev = metaTable[h.doc] /\ rev \in Revisions
      BY <1>1, <2>2 DEF StoreInv
    <3>2. rev.boost \in Int \cup {Nil}
      BY <3>1, KnowledgeAssumption
    <3>3. ParseBoost(rev.boost) \in Int
      BY <3>2 DEF ParseBoost
    <3>4. MetaOf(h) = DocMeta(rev)
      BY <2>2, <3>1 DEF MetaOf
    <3> QED BY <3>3, <3>4 DEF DocMeta
  <2> QED BY <2>1, <2>2
<1>5. Boosted(h) \in Int
  <2>1. PICK a, b : a = Keyword(h) /\ b = MetaOf(h).boost /\ a \in Int /\ b \in Int
    BY <1>3, <1>4
  <2>2. a * b \in Int
    BY <2>1
  <2> QED BY <2>1, <2>2 DEF Boosted
<1> QED BY <1>2, <1>3, <1>5

\* The rows of the store.
LEMMA InStoreIs ==
    ASSUME StoreInv
    PROVE  /\ InStore \in SUBSET AnyHit
           /\ \A h \in InStore : Known(h) /\ h.n = stored[h.doc]
           /\ \A g, h \in InStore : g.doc = h.doc => g = h
<1>1. \A d \in Docs : stored[d] \in Nat /\ stored[d] <= Len(given[d]) /\ Len(given[d]) \in Nat
  BY DEF StoreInv
<1>2. ASSUME NEW h \in InStore
      PROVE  h \in AnyHit /\ Known(h) /\ h.n = stored[h.doc] /\ h = Hit(h.doc, stored[h.doc])
  <2>1. PICK d \in Docs : stored[d] > 0 /\ h = Hit(d, stored[d])
    BY DEF InStore
  <2>2. h.doc = d /\ h.n = stored[d]
    BY <2>1 DEF Hit
  <2> QED BY <1>1, <2>1, <2>2 DEF AnyHit, Known, KnownIn, Hit
<1>3. ASSUME NEW g \in InStore, NEW h \in InStore, g.doc = h.doc PROVE g = h
  BY <1>2, <1>3
<1> QED BY <1>2, <1>3

\* A hit that is known or open stays so.
LEMMA OpenStays ==
    ASSUME StoreInv, StoreInv', GivenGrows, as' = as, NEW h \in AnyHit, Known(h)
    PROVE  Known(h)' /\ (Open(h) => Open(h)')
<1>1. h.doc \in Docs /\ h.n \in Nat /\ h.n \in 1 .. Len(given[h.doc])
  BY DEF AnyHit, Known, KnownIn
<1>2. PICK d, a, b : d = h.doc /\ a = Len(given[d]) /\ b = Len(given'[d])
  OBVIOUS
<1>3. /\ a \in Nat /\ b \in Nat /\ a <= b /\ d \in Docs
      /\ \A n \in 1 .. a : given'[d][n] = given[d][n]
  BY <1>1, <1>2 DEF GivenGrows, StoreInv
<1>4. Known(h)'
  BY <1>1, <1>2, <1>3 DEF Known, KnownIn
<1>5. ASSUME Open(h) PROVE Open(h)'
  <2>1. PICK n \in h.n .. a : Allows(as.ctx, given[d][n].acl)
    BY <1>2, <1>5 DEF Open, OpenIn
  <2>2. n \in 1 .. a /\ n \in h.n .. b
    BY <1>1, <1>2, <1>3
  <2>3. Allows(as.ctx, given'[d][n].acl)
    BY <1>3, <2>1, <2>2
  <2> QED BY <1>2, <2>2, <2>3, Zenon DEF Open, OpenIn
<1> QED BY <1>4, <1>5

\* What the requester may read now is open.
LEMMA ReadableIsOpen ==
    ASSUME StoreInv, NEW h \in AnyHit, Known(h), Allows(as.ctx, Rev(h).acl)
    PROVE  Open(h)
<1>1. h.n \in Nat /\ Len(given[h.doc]) \in Nat /\ h.n \in 1 .. Len(given[h.doc])
  BY DEF AnyHit, Known, KnownIn, StoreInv
<1>2. PICK n, m : n = h.n /\ m = Len(given[h.doc])
  OBVIOUS
<1>3. n \in n .. m
  BY <1>1, <1>2
<1>4. Allows(as.ctx, given[h.doc][n].acl)
  BY <1>2 DEF Rev
<1> QED BY <1>2, <1>3, <1>4, Zenon DEF Open, OpenIn

\* What the table of access lists lets pass is open: the list is that of the
\* hit's revision or of a later one, or the revision has none.
LEMMA PassingIsOpen ==
    ASSUME StoreInv, SideTables, NEW h \in AnyHit, Known(h), AclPasses(as.ctx, h)
    PROVE  Open(h)
<1>1. PICK d, k, m : d = h.doc /\ k = aclTable[d] /\ m = Len(given[d])
  OBVIOUS
<1>2. /\ d \in Docs /\ h.n \in Nat /\ k \in Nat /\ m \in Nat /\ h.n \in 1 .. m /\ k <= m
      /\ \A n \in Nat : n > k /\ n <= m => given[d][n].acl = Nil
  BY <1>1 DEF AnyHit, Known, KnownIn, StoreInv
<1>3. CASE k >= h.n
  <2>1. k # 0 /\ k \in h.n .. m
    BY <1>2, <1>3
  <2>2. Allows(as.ctx, given[d][k].acl)
    BY <1>1, <2>1 DEF AclPasses
  <2> QED BY <1>1, <2>1, <2>2 DEF Open, OpenIn
<1>4. CASE k < h.n
  <2>1. given[d][h.n].acl = Nil
    BY <1>2, <1>4
  <2> QED BY <1>1, <2>1, ReadableIsOpen DEF Rev, Allows
<1> QED BY <1>2, <1>3, <1>4

-----------------------------------------------------------------------------
(* Queries *)

QuerySteps == {"idle", "fetch", "filter", "sparse", "answered", "failed"}
QueryRecord ==
    [step : QuerySteps, ctx : {as.ctx, Nil}, filter : {as.filter, Nil}, limit : Nat,
     hits : Seq(AnyHit), scanned : Nat, quiet : BOOLEAN]

\* The query is the turn's; its hits are of different documents, and open to
\* the requester once they are filtered.
QueryInv ==
    /\ query \in QueryRecord
    /\ query.step # "idle" => query.ctx = as.ctx /\ query.filter = as.filter
    /\ query.step = "filter" => SideTables
    /\ query.step = "sparse" => layer = "postgres"
    /\ query.step \in {"idle", "failed"} \/ (query.step = "fetch" /\ layer # "dynamo") =>
         query.hits = <<>>
    /\ \A k \in DOMAIN query.hits :
         /\ Known(query.hits[k])
         /\ query.step # "filter" => Open(query.hits[k])
         /\ query.step = "fetch" => query.hits[k].doc <= query.scanned
    /\ DistinctDocs(query.hits)
    /\ query.step = "answered" => Len(query.hits) <= query.limit

\* The query gets new hits.
LEMMA QueryGoesTo ==
    ASSUME QueryInv, UNCHANGED <<layer, as, given>>, query.step # "idle",
           NEW to \in {"filter", "sparse", "answered", "failed"}, NEW hits \in Seq(AnyHit),
           query' = [query EXCEPT !.step = to, !.hits = hits],
           to = "filter" => SideTables, to = "sparse" => layer = "postgres",
           to = "failed" => hits = <<>>, DistinctDocs(hits),
           to = "answered" => Len(hits) <= query.limit,
           \A k \in DOMAIN hits : Known(hits[k]) /\ (to # "filter" => Open(hits[k]))
    PROVE  QueryInv' /\ query'.step = to /\ query'.hits = hits /\ query'.quiet = query.quiet
           /\ query'.limit = query.limit
<1>1. query \in QueryRecord /\ query.ctx = as.ctx /\ query.filter = as.filter
  BY DEF QueryInv
<1>2. /\ query' \in QueryRecord /\ query'.step = to /\ query'.hits = hits
      /\ query'.ctx = as.ctx /\ query'.filter = as.filter
      /\ query'.quiet = query.quiet /\ query'.limit = query.limit
  BY <1>1 DEF QueryRecord, QuerySteps
<1>3. query' \in QueryRecord'
  BY <1>2 DEF QueryRecord
<1>4. SideTables' = SideTables /\ DistinctDocs(query.hits)' = DistinctDocs(hits)
  BY <1>2 DEF SideTables, DistinctDocs
<1>5. \A k \in DOMAIN hits : /\ KnownIn(given', hits[k])
                             /\ to # "filter" => OpenIn(given', as'.ctx, hits[k])
  BY DEF Known, Open
<1>6. (\A k \in DOMAIN query.hits : /\ Known(query.hits[k])
                                    /\ query.step # "filter" => Open(query.hits[k]))'
  BY <1>2, <1>5 DEF Known, Open
<1> QED BY <1>2, <1>3, <1>4, <1>6 DEF QueryInv

\* An ingest leaves the query alone, or it is no longer undisturbed.
LEMMA IngestSparesQuery ==
    ASSUME IngestNext
    PROVE  query' = query \/ query' = [query EXCEPT !.quiet = FALSE]
BY DEF IngestNext, IngestStart, RecordMeta, RecordAcl, IngestInner, IngestRow, IngestFails,
       Settle, Disturb

\* While documents are ingested, the hits stay open.
LEMMA QueryOutlivesIngest ==
    ASSUME StoreInv, QueryInv, IngestNext, UNCHANGED <<layer, as>>
    PROVE  QueryInv'
<1>1. StoreInv' /\ GivenGrows
  BY KnowledgeStep
<1>2. query \in QueryRecord
  BY DEF QueryInv
<1>3. /\ query' \in QueryRecord /\ query'.step = query.step /\ query'.ctx = query.ctx
      /\ query'.filter = query.filter /\ query'.hits = query.hits
      /\ query'.scanned = query.scanned /\ query'.limit = query.limit
  BY <1>2, IngestSparesQuery DEF QueryRecord
<1>4. query' \in QueryRecord'
  BY <1>3 DEF QueryRecord
<1>5. query.hits \in Seq(AnyHit)
  BY <1>2 DEF QueryRecord
<1>6. ASSUME NEW k \in DOMAIN query'.hits
      PROVE  /\ KnownIn(given', query'.hits[k])
             /\ query'.step # "filter" => OpenIn(given', as'.ctx, query'.hits[k])
             /\ query'.step = "fetch" => query'.hits[k].doc <= query'.scanned
  <2>1. PICK h : h = query.hits[k]
    OBVIOUS
  <2>2. /\ h \in AnyHit /\ Known(h) /\ (query.step # "filter" => Open(h))
        /\ query.step = "fetch" => h.doc <= query.scanned
    BY <1>3, <1>5, <2>1 DEF QueryInv
  <2>3. Known(h)' /\ (Open(h) => Open(h)')
    BY <1>1, <2>2, OpenStays
  <2>4. KnownIn(given', h) /\ (Open(h) => OpenIn(given', as'.ctx, h))
    BY <2>3 DEF Known, Open
  <2> QED BY <1>3, <2>1, <2>2, <2>4
<1>7. SideTables' = SideTables /\ DistinctDocs(query.hits)' = DistinctDocs(query.hits)
  BY <1>3 DEF SideTables, DistinctDocs
<1>8. (\A k \in DOMAIN query.hits :
         /\ Known(query.hits[k])
         /\ query.step # "filter" => Open(query.hits[k])
         /\ query.step = "fetch" => query.hits[k].doc <= query.scanned)'
  BY <1>6 DEF Known, Open
<1> QED BY <1>3, <1>4, <1>7, <1>8 DEF QueryInv

\* The candidates of the in-memory store.
LEMMA FoundRanks ==
    ASSUME StoreInv, NEW r, r = Ranked([h \in Found |-> Keyword(h)], FALSE)
    PROVE  /\ Found \in SUBSET InStore /\ Found \in SUBSET AnyHit
           /\ r \in Seq(AnyHit) /\ ToSet(r) = Found /\ Len(r) = Cardinality(Found)
           /\ IsFiniteSet(Found) /\ Cardinality(Found) \in Nat /\ DistinctDocs(r)
           /\ \A k \in DOMAIN r : r[k] \in Found /\ Known(r[k])
           /\ \A i, j \in 1 .. Len(r) : i < j => Keyword(r[i]) >= Keyword(r[j])
<1>1. /\ InStore \in SUBSET AnyHit /\ \A h \in InStore : Known(h)
      /\ \A g, h \in InStore : g.doc = h.doc => g = h
  BY InStoreIs
<1>2. Found \in SUBSET InStore /\ Found \in SUBSET AnyHit
  BY <1>1 DEF Found
<1>3. PICK score : score = [h \in Found |-> Keyword(h)]
  OBVIOUS
<1>4. \A h \in Found : score[h] = Keyword(h) /\ Keyword(h) \in Int
  BY <1>1, <1>2, <1>3, KnownHasScores
<1>5. score \in [Found -> Int] /\ \A g, h \in Found : g.doc = h.doc => g = h
  BY <1>1, <1>2, <1>3, <1>4
<1>6. /\ r \in Seq(AnyHit) /\ ToSet(r) = Found /\ Len(r) = Cardinality(Found) /\ r \in Seq(Found)
      /\ IsFiniteSet(Found) /\ Cardinality(Found) \in Nat /\ DistinctDocs(r)
      /\ \A i, j \in 1 .. Len(r) : i < j => score[r[i]] >= score[r[j]]
  BY <1>2, <1>3, <1>5, RankedHits
<1>7. \A k \in DOMAIN r : r[k] \in Found /\ Known(r[k])
  <2> SUFFICES ASSUME NEW k \in DOMAIN r PROVE r[k] \in Found /\ Known(r[k])
    OBVIOUS
  <2>1. r \in Seq(Found)
    BY <1>6
  <2>2. r[k] \in Found
    BY <2>1, SeqHas, Zenon
  <2> QED BY <1>1, <1>2, <2>2
<1>8. \A i \in 1 .. Len(r) : score[r[i]] = Keyword(r[i])
  <2>1. r \in Seq(AnyHit)
    BY <1>6
  <2>2. DOMAIN r = 1 .. Len(r)
    BY <2>1, SeqHas, Zenon
  <2> QED BY <1>4, <1>7, <2>2
<1> QED BY <1>2, <1>6, <1>7, <1>8

\* The candidates are fetched.
LEMMA FetchKeeps ==
    ASSUME StoreInv, QueryInv, FetchCandidates, UNCHANGED <<layer, as>>
    PROVE  QueryInv'
<1>1. PICK r : r = Ranked([h \in Found |-> Keyword(h)], FALSE)
  OBVIOUS
<1>2. PICK n : n = CandidateN(query.limit)
  OBVIOUS
<1>3. PICK hits : hits = Take(r, n)
  OBVIOUS
<1>4. /\ SideTables /\ query.step = "fetch" /\ UNCHANGED knowVars
      /\ query' = [query EXCEPT !.step = "filter", !.hits = hits]
  BY <1>1, <1>2, <1>3 DEF FetchCandidates
<1>5. r \in Seq(AnyHit) /\ DistinctDocs(r) /\ \A k \in DOMAIN r : Known(r[k])
  BY <1>1, FoundRanks
<1>6. n \in Nat
  <2>1. query.limit \in Nat /\ OverfetchFactor \in Nat /\ OverfetchFloor \in Nat
    BY KnowledgeAssumption DEF QueryInv, QueryRecord
  <2>2. query.limit * OverfetchFactor \in Nat
    BY <2>1
  <2> QED BY <1>2, <2>1, <2>2 DEF CandidateN, Larger
<1>7. hits \in Seq(AnyHit) /\ Sub(hits, r)
  BY <1>3, <1>5, <1>6, TakeIsSub
<1>8. DistinctDocs(hits) /\ \A k \in DOMAIN hits : Known(hits[k])
  BY <1>5, <1>7, SubKeeps
<1> QED BY <1>4, <1>7, <1>8, QueryGoesTo DEF knowVars

\* AclReader and CuratedReader keep only hits that pass.
LEMMA FilterGives ==
    ASSUME StoreInv, QueryInv, query.step = "filter", NEW hits,
           hits = IF layer = "acl" THEN FilterByAcl(query) ELSE FilterByCuration(query)
    PROVE  /\ hits \in Seq(AnyHit) /\ Sub(hits, query.hits) /\ Len(hits) <= query.limit
           /\ \A k \in DOMAIN hits : AclPasses(as.ctx, hits[k])
<1>1. PICK t : t = query.hits /\ t \in Seq(AnyHit) /\ \A k \in DOMAIN t : Known(t[k])
  BY DEF QueryInv, QueryRecord
<1>2. query.limit \in Nat /\ query.ctx = as.ctx
  BY DEF QueryInv, QueryRecord
<1>3. ASSUME NEW places \in SUBSET DOMAIN t, NEW kept, kept = At(t, places),
             \A k \in places : AclPasses(as.ctx, t[k])
      PROVE  /\ kept \in Seq(AnyHit) /\ Sub(kept, t)
             /\ \A k \in DOMAIN kept : AclPasses(as.ctx, kept[k]) /\ Known(kept[k])
  <2>1. kept \in Seq(AnyHit) /\ Sub(kept, t)
    BY <1>1, <1>3, AtIsSub
  <2>2. PICK order, n : Picks(kept, t, order, n, places)
    BY <1>1, <1>3, AtPicks
  <2>3. \A k \in DOMAIN kept : kept[k] = t[order[k]] /\ order[k] \in places
    BY <2>2 DEF Picks
  <2> QED BY <1>1, <1>3, <2>1, <2>3
<1>4. CASE layer = "acl"
  <2>1. PICK places : places = {k \in DOMAIN t : AclPasses(as.ctx, t[k])}
    OBVIOUS
  <2>2. PICK kept : kept = At(t, places)
    OBVIOUS
  <2>3. hits = Take(kept, query.limit)
    BY <1>1, <1>2, <1>4, <2>1, <2>2 DEF FilterByAcl
  <2>4. places \in SUBSET DOMAIN t /\ \A k \in places : AclPasses(as.ctx, t[k])
    BY <2>1
  <2>5. /\ kept \in Seq(AnyHit) /\ Sub(kept, t)
        /\ \A k \in DOMAIN kept : AclPasses(as.ctx, kept[k])
    BY <1>3, <2>2, <2>4
  <2>6. hits \in Seq(AnyHit) /\ Sub(hits, kept)
    BY <1>2, <2>3, <2>5, TakeIsSub
  <2>10. Len(hits) <= query.limit
    BY <1>2, <2>3, <2>5, TakeIsFront
  <2>7. \A k \in DOMAIN hits : \E j \in DOMAIN kept : hits[k] = kept[j]
    BY <2>6, SubKeeps
  <2>8. \A k \in DOMAIN hits : AclPasses(as.ctx, hits[k])
    BY <2>5, <2>7
  <2>9. Sub(hits, t)
    BY <2>5, <2>6, SubOfSub
  <2> QED BY <1>1, <2>6, <2>8, <2>9, <2>10
<1>5. CASE layer # "acl"
  <2>1. PICK places : places = {k \in DOMAIN t : /\ AclPasses(as.ctx, t[k])
                                                 /\ Matches(query.filter, MetaOf(t[k]))}
    OBVIOUS
  <2>2. PICK kept : kept = At(t, places)
    OBVIOUS
  <2>3. PICK score : score = [k \in DOMAIN kept |-> Boosted(kept[k])]
    OBVIOUS
  <2>4. PICK sorted : sorted = StableSort(kept, score)
    OBVIOUS
  <2>5. hits = Take(sorted, query.limit)
    BY <1>1, <1>2, <1>5, <2>1, <2>2, <2>3, <2>4 DEF FilterByCuration
  <2>12. places \in SUBSET DOMAIN t /\ \A k \in places : AclPasses(as.ctx, t[k])
    BY <2>1
  <2>6. /\ kept \in Seq(AnyHit) /\ Sub(kept, t)
        /\ \A k \in DOMAIN kept : AclPasses(as.ctx, kept[k]) /\ Known(kept[k])
    BY <1>3, <2>2, <2>12
  <2>13. \A k \in DOMAIN kept : kept[k] \in AnyHit
    BY <2>6
  <2>7. \A k \in DOMAIN kept : Boosted(kept[k]) \in Int
    BY <2>6, <2>13, KnownHasScores
  <2>8. score \in [DOMAIN kept -> Int]
    BY <2>3, <2>7
  <2>9. sorted \in Seq(AnyHit) /\ Sub(sorted, kept)
    BY <2>4, <2>6, <2>8, StableSortIsSub
  <2>10. hits \in Seq(AnyHit) /\ Sub(hits, sorted)
    BY <1>2, <2>5, <2>9, TakeIsSub
  <2>17. Len(hits) <= query.limit
    BY <1>2, <2>5, <2>9, TakeIsFront
  <2>11. Sub(hits, kept)
    BY <2>9, <2>10, SubOfSub
  <2>14. \A k \in DOMAIN hits : \E j \in DOMAIN kept : hits[k] = kept[j]
    BY <2>11, SubKeeps
  <2>15. \A k \in DOMAIN hits : AclPasses(as.ctx, hits[k])
    BY <2>6, <2>14
  <2>16. Sub(hits, t)
    BY <2>6, <2>11, SubOfSub
  <2> QED BY <1>1, <2>10, <2>15, <2>16, <2>17
<1> QED BY <1>4, <1>5

\* The candidates are filtered.
LEMMA FilterKeeps ==
    ASSUME StoreInv, QueryInv, FilterCandidates, UNCHANGED <<layer, as>>
    PROVE  QueryInv'
<1>1. PICK hits : hits = IF layer = "acl" THEN FilterByAcl(query) ELSE FilterByCuration(query)
  OBVIOUS
<1>2. /\ SideTables /\ query.step = "filter" /\ UNCHANGED knowVars
      /\ query' = [query EXCEPT !.step = "answered", !.hits = hits]
  BY <1>1 DEF FilterCandidates
<1>3. /\ hits \in Seq(AnyHit) /\ Sub(hits, query.hits) /\ Len(hits) <= query.limit
      /\ \A k \in DOMAIN hits : AclPasses(as.ctx, hits[k])
  BY <1>1, <1>2, FilterGives
<1>4. DistinctDocs(hits) /\ \A k \in DOMAIN hits : Known(hits[k])
  BY <1>3, SubKeeps DEF QueryInv
<1>5. \A k \in DOMAIN hits : hits[k] \in AnyHit
  BY <1>3
<1>6. \A k \in DOMAIN hits : Open(hits[k])
  BY <1>2, <1>3, <1>4, <1>5, PassingIsOpen
<1> QED BY <1>2, <1>3, <1>4, <1>6, QueryGoesTo DEF knowVars

\* The rows an arm returns are rows of the store that the requester may read.
LEMMA ArmGives ==
    ASSUME StoreInv, QueryInv, query.step # "idle", NEW S \in SUBSET InStore,
           NEW score \in [S -> Int], NEW rows, rows = ArmRows(score, query),
           NEW open, open = {h \in S : Allows(as.ctx, Rev(h).acl)}
    PROVE  /\ rows \in Seq(AnyHit) /\ ToSet(rows) \subseteq open
           /\ DistinctDocs(rows) /\ \A k \in DOMAIN rows : Known(rows[k]) /\ Open(rows[k])
           /\ IsFiniteSet(open) /\ Cardinality(open) \in Nat /\ query.limit \in Nat
           /\ Len(rows) >= Smaller(query.limit, Cardinality(open))
           /\ Len(rows) <= Cardinality(open)
<1>1. /\ InStore \in SUBSET AnyHit /\ \A h \in InStore : Known(h)
      /\ \A g, h \in InStore : g.doc = h.doc => g = h
  BY InStoreIs
<1>2. query.limit \in Nat /\ query.ctx = as.ctx
  BY DEF QueryInv, QueryRecord
<1>3. open \in SUBSET InStore /\ open \in SUBSET AnyHit /\ open \in SUBSET S
  BY <1>1
<1>4. PICK sc : sc = [h \in open |-> score[h]]
  OBVIOUS
<1>5. \A h \in open : score[h] \in Int
  BY <1>3
<1>6. sc \in [open -> Int]
  BY <1>4, <1>5
<1>7. PICK r : r = Ranked(sc, FALSE)
  OBVIOUS
<1>8. PICK n : n = Larger(4 * query.limit, OverfetchFloor)
  OBVIOUS
<1>9. rows = Take(r, n)
  <2>1. DOMAIN score = S
    OBVIOUS
  <2>2. open = {h \in DOMAIN score : Allows(query.ctx, Rev(h).acl)}
    BY <1>2, <2>1
  <2> QED BY <1>4, <1>7, <1>8, <2>2 DEF ArmRows
<1>10. n \in Nat /\ n >= query.limit
  BY <1>2, <1>8, KnowledgeAssumption DEF Larger
<1>11. \A g, h \in open : g.doc = h.doc => g = h
  BY <1>1, <1>3
<1>12. /\ r \in Seq(AnyHit) /\ ToSet(r) = open /\ Len(r) = Cardinality(open)
       /\ IsFiniteSet(open) /\ Cardinality(open) \in Nat /\ DistinctDocs(r)
  BY <1>3, <1>6, <1>7, <1>11, RankedHits
<1>13. rows \in Seq(AnyHit) /\ Sub(rows, r)
  BY <1>9, <1>10, <1>12, TakeIsSub
<1>14. Len(rows) = Smaller(n, Len(r))
  BY <1>9, <1>10, <1>12, TakeIsFront
<1>15. DistinctDocs(rows) /\ ToSet(rows) \subseteq open
  BY <1>12, <1>13, SubKeeps
<1>16. ASSUME NEW k \in DOMAIN rows PROVE Known(rows[k]) /\ Open(rows[k])
  <2>1. rows[k] \in ToSet(rows)
    BY DEF ToSet
  <2>2. PICK h : h = rows[k]
    OBVIOUS
  <2>3. h \in AnyHit /\ Known(h) /\ Allows(as.ctx, Rev(h).acl)
    BY <1>1, <1>3, <1>15, <2>1, <2>2
  <2>4. Open(h)
    BY <2>3, ReadableIsOpen
  <2> QED BY <2>2, <2>3, <2>4
<1>17. Len(rows) >= Smaller(query.limit, Cardinality(open)) /\ Len(rows) <= Cardinality(open)
  BY <1>2, <1>10, <1>12, <1>14 DEF Smaller
<1> QED BY <1>2, <1>12, <1>13, <1>15, <1>16, <1>17

\* The dense arm scores every row it comes upon.
LEMMA DenseScores ==
    ASSUME StoreInv, NEW seen \in SUBSET InStore
    PROVE  [h \in seen |-> Cosine(h)] \in [seen -> Int]
<1>1. \A h \in seen : Cosine(h) \in Int
  BY InStoreIs, KnownHasScores
<1> QED BY <1>1

\* The sparse arm those that match.
LEMMA SparseScores ==
    ASSUME StoreInv
    PROVE  [h \in Found |-> Keyword(h)] \in [Found -> Int] /\ Found \in SUBSET InStore
<1>1. Found \in SUBSET InStore
  BY DEF Found
<1>2. \A h \in Found : Keyword(h) \in Int
  BY <1>1, InStoreIs, KnownHasScores
<1> QED BY <1>1, <1>2

\* The dense arm's statement.
LEMMA DenseKeeps ==
    ASSUME StoreInv, QueryInv, DenseArm, UNCHANGED <<layer, as>>
    PROVE  QueryInv'
<1> PICK seen \in SUBSET InStore :
        query' = [query EXCEPT !.step = "sparse",
                               !.hits = ArmRows([h \in seen |-> Cosine(h)], query)]
  BY DEF DenseArm
<1>1. PICK rows : rows = ArmRows([h \in seen |-> Cosine(h)], query)
  OBVIOUS
<1>2. /\ layer = "postgres" /\ query.step = "fetch" /\ UNCHANGED knowVars
      /\ query' = [query EXCEPT !.step = "sparse", !.hits = rows]
  BY <1>1 DEF DenseArm
<1>3. /\ rows \in Seq(AnyHit) /\ DistinctDocs(rows)
      /\ \A k \in DOMAIN rows : Known(rows[k]) /\ Open(rows[k])
  BY <1>1, <1>2, DenseScores, ArmGives
<1> QED BY <1>2, <1>3, QueryGoesTo DEF knowVars

\* A rank's score is a number.
LEMMA RankScores ==
    ASSUME NEW rows \in Seq(AnyHit), NEW d
    PROVE  RankScore(d, rows) \in Int
<1>1. PICK at : at = {r \in DOMAIN rows : rows[r].doc = d}
  OBVIOUS
<1>2. CASE at = {}
  BY <1>1, <1>2 DEF RankScore
<1>3. CASE at # {}
  <2>1. PICK r : r = (CHOOSE x \in at : TRUE) /\ r \in at
    BY <1>3
  <2>2. r \in Nat \ {0} /\ RrfK \in Nat
    BY <1>1, <2>1, KnowledgeAssumption
  <2>3. PICK m : m = RrfK + (r - 1) + 1 /\ m \in Nat \ {0}
    BY <2>2
  <2>4. 1000000 \div m \in Int
    BY <2>3
  <2>5. RankScore(d, rows) = 1000000 \div m
    BY <1>1, <1>3, <2>1, <2>3 DEF RankScore, Contribution
  <2> QED BY <2>4, <2>5
<1> QED BY <1>2, <1>3

\* Rows from a set that has a row of each document of the two arms.
FusedOf(hits, dense, sparse, limit) ==
    \E S \in SUBSET (ToSet(dense) \cup ToSet(sparse)) :
        /\ \A h \in ToSet(dense) \cup ToSet(sparse) : \E g \in S : g.doc = h.doc
        /\ IsFiniteSet(S) /\ Cardinality(S) \in Nat
        /\ ToSet(hits) \subseteq S /\ Len(hits) = Smaller(limit, Cardinality(S))

\* Fusing two arms keeps one row of each document.
LEMMA FuseGives ==
    ASSUME NEW dense \in Seq(AnyHit), NEW sparse \in Seq(AnyHit), NEW limit \in Nat,
           DistinctDocs(dense), DistinctDocs(sparse), NEW flip \in BOOLEAN,
           NEW hits, hits = Fuse(dense, sparse, limit, flip)
    PROVE  /\ hits \in Seq(AnyHit) /\ ToSet(hits) \subseteq ToSet(dense) \cup ToSet(sparse)
           /\ DistinctDocs(hits) /\ Len(hits) <= limit
           /\ FusedOf(hits, dense, sparse, limit)
<1>1. PICK D, P : D = ToSet(dense) /\ P = ToSet(sparse)
  OBVIOUS
<1>2. PICK late : late = {h \in P : \A g \in D : g.doc # h.doc}
  OBVIOUS
<1>3. PICK S : S = D \cup late
  OBVIOUS
<1>4. PICK fused : fused = [h \in S |-> RankScore(h.doc, dense) + RankScore(h.doc, sparse)]
  OBVIOUS
<1>5. PICK r : r = Ranked(fused, flip)
  OBVIOUS
<1>6. hits = Take(r, limit)
  BY <1>1, <1>2, <1>3, <1>4, <1>5 DEF Fuse
<1>7. \A t \in {dense, sparse} : t \in Seq(AnyHit) /\ DistinctDocs(t)
  OBVIOUS
<1>8. ASSUME NEW t \in Seq(AnyHit), DistinctDocs(t)
      PROVE  ToSet(t) \in SUBSET AnyHit /\ \A g, h \in ToSet(t) : g.doc = h.doc => g = h
  <2>1. ToSet(t) \in SUBSET AnyHit
    BY <1>8, SeqHas DEF ToSet
  <2>2. ASSUME NEW g \in ToSet(t), NEW h \in ToSet(t), g.doc = h.doc PROVE g = h
    <3>1. PICK j \in DOMAIN t, k \in DOMAIN t : t[j] = g /\ t[k] = h
      BY DEF ToSet
    <3> QED BY <1>8, <2>2, <3>1 DEF DistinctDocs
  <2> QED BY <2>1, <2>2
<1>9. /\ D \in SUBSET AnyHit /\ P \in SUBSET AnyHit
      /\ \A g, h \in D : g.doc = h.doc => g = h
      /\ \A g, h \in P : g.doc = h.doc => g = h
  BY <1>1, <1>8
<1>10. /\ S \in SUBSET AnyHit /\ S \in SUBSET (D \cup P) /\ D \subseteq S
       /\ \A g, h \in S : g.doc = h.doc => g = h
  BY <1>2, <1>3, <1>9
<1>11. \A h \in S : RankScore(h.doc, dense) + RankScore(h.doc, sparse) \in Int
  <2> SUFFICES ASSUME NEW h \in S
               PROVE  RankScore(h.doc, dense) + RankScore(h.doc, sparse) \in Int
    OBVIOUS
  <2>1. RankScore(h.doc, dense) \in Int /\ RankScore(h.doc, sparse) \in Int
    BY RankScores
  <2> QED BY <2>1
<1>12. fused \in [S -> Int]
  BY <1>4, <1>11
<1>13. /\ r \in Seq(AnyHit) /\ ToSet(r) = S /\ Len(r) = Cardinality(S)
       /\ IsFiniteSet(S) /\ Cardinality(S) \in Nat /\ DistinctDocs(r)
  BY <1>5, <1>10, <1>12, RankedHits
<1>14. hits \in Seq(AnyHit) /\ Sub(hits, r) /\ Len(hits) = Smaller(limit, Len(r)) /\ Len(hits) <= limit
  BY <1>6, <1>13, TakeIsSub, TakeIsFront
<1>15. DistinctDocs(hits) /\ ToSet(hits) \subseteq S
  BY <1>13, <1>14, SubKeeps
<1>16. FusedOf(hits, dense, sparse, limit)
  <2>1. \A h \in D \cup P : \E g \in S : g.doc = h.doc
    BY <1>2, <1>3
  <2>2. Len(hits) = Smaller(limit, Cardinality(S))
    BY <1>13, <1>14
  <2> QED BY <1>1, <1>10, <1>13, <1>15, <2>1, <2>2 DEF FusedOf
<1> QED BY <1>1, <1>10, <1>14, <1>15, <1>16

\* The sparse arm's statement, and the fusion.
LEMMA SparseKeeps ==
    ASSUME StoreInv, QueryInv, SparseArm, UNCHANGED <<layer, as>>
    PROVE  QueryInv'
<1>1. PICK rows, dense :
        rows = ArmRows([h \in Found |-> Keyword(h)], query) /\ dense = query.hits
  OBVIOUS
<1>2. PICK flip \in BOOLEAN :
        query' = [query EXCEPT !.step = "answered", !.hits = Fuse(query.hits, rows, query.limit, flip)]
  BY <1>1 DEF SparseArm
<1>3. layer = "postgres" /\ query.step = "sparse" /\ UNCHANGED knowVars
  BY DEF SparseArm
<1>4. PICK hits : hits = Fuse(dense, rows, query.limit, flip)
  OBVIOUS
<1>5. /\ rows \in Seq(AnyHit) /\ DistinctDocs(rows) /\ query.limit \in Nat
      /\ \A k \in DOMAIN rows : Known(rows[k]) /\ Open(rows[k])
  BY <1>1, <1>3, SparseScores, ArmGives
<1>6. /\ dense \in Seq(AnyHit) /\ DistinctDocs(dense)
      /\ \A k \in DOMAIN dense : Known(dense[k]) /\ Open(dense[k])
  BY <1>1, <1>3 DEF QueryInv, QueryRecord
<1>7. /\ hits \in Seq(AnyHit) /\ DistinctDocs(hits) /\ Len(hits) <= query.limit
      /\ ToSet(hits) \subseteq ToSet(dense) \cup ToSet(rows)
  <2>1. PICK n : n = query.limit /\ n \in Nat
    BY <1>5
  <2>2. hits = Fuse(dense, rows, n, flip)
    BY <1>4, <2>1
  <2> QED BY <1>5, <1>6, <2>1, <2>2, FuseGives, Zenon
<1>8. \A h \in ToSet(dense) \cup ToSet(rows) : Known(h) /\ Open(h)
  BY <1>5, <1>6 DEF ToSet
<1>9. \A k \in DOMAIN hits : hits[k] \in ToSet(hits)
  BY DEF ToSet
<1>10. \A k \in DOMAIN hits : Known(hits[k]) /\ Open(hits[k])
  BY <1>7, <1>8, <1>9
<1>11. query' = [query EXCEPT !.step = "answered", !.hits = hits]
  BY <1>1, <1>2, <1>4
<1> QED BY <1>3, <1>7, <1>10, <1>11, QueryGoesTo DEF knowVars

\* The next page of a scan: a row as a replica has it.
LEMMA ScanPageKeeps ==
    ASSUME StoreInv, QueryInv, ScanPage, UNCHANGED <<layer, as>>
    PROVE  /\ QueryInv' /\ UNCHANGED knowVars
           /\ \E d \in Docs : \E n \in {stored[d], settled[d]} :
                /\ d > query.scanned /\ \A e \in Docs : e > query.scanned => d <= e
                /\ query'.step = "fetch" /\ query'.scanned = d /\ query'.quiet = query.quiet
                /\ query'.limit = query.limit
                /\ query'.hits = IF n > 0 /\ Allows(as.ctx, given[d][n].acl)
                                 THEN Append(query.hits, Hit(d, n)) ELSE query.hits
<1>1. layer = "dynamo" /\ query.step = "fetch" /\ UNCHANGED knowVars
  BY DEF ScanPage
<1>2. PICK d \in Docs : d > query.scanned /\ \E n \in {stored[d], settled[d]} :
        /\ \A e \in Docs : e > query.scanned => d <= e
        /\ query' = [query EXCEPT !.scanned = d,
               !.hits = IF n > 0 /\ Allows(query.ctx, given[d][n].acl)
                        THEN Append(@, Hit(d, n)) ELSE @]
  BY DEF ScanPage
<1>3. PICK n \in {stored[d], settled[d]} :
        /\ \A e \in Docs : e > query.scanned => d <= e
        /\ query' = [query EXCEPT !.scanned = d,
               !.hits = IF n > 0 /\ Allows(query.ctx, given[d][n].acl)
                        THEN Append(@, Hit(d, n)) ELSE @]
  BY <1>2
<1>5. /\ query \in QueryRecord /\ query.ctx = as.ctx /\ query.filter = as.filter
      /\ query.hits \in Seq(AnyHit) /\ query.scanned \in Nat
  BY <1>1 DEF QueryInv, QueryRecord
<1>6. d \in Docs /\ d \in Nat /\ d > query.scanned /\ \A e \in Docs : e > query.scanned => d <= e
  BY <1>2, <1>3, KnowledgeAssumption
<1>7. query' = [query EXCEPT !.scanned = d,
            !.hits = IF n > 0 /\ Allows(as.ctx, given[d][n].acl)
                     THEN Append(@, Hit(d, n)) ELSE @]
  BY <1>3, <1>5
<1>8. PICK t, hits, h :
        /\ t = query.hits /\ h = Hit(d, n)
        /\ hits = IF n > 0 /\ Allows(as.ctx, given[d][n].acl) THEN Append(t, h) ELSE t
  OBVIOUS
<1>9. n \in Nat /\ n <= Len(given[d]) /\ Len(given[d]) \in Nat
  BY <1>3, <1>6 DEF StoreInv
<1>10. h \in AnyHit /\ h.doc = d /\ h.n = n
  BY <1>6, <1>8, <1>9 DEF AnyHit, Hit
<1>11. t \in Seq(AnyHit) /\ hits \in Seq(AnyHit)
  <2>1. t \in Seq(AnyHit)
    BY <1>5, <1>8
  <2>2. Append(t, h) \in Seq(AnyHit)
    BY <2>1, <1>10
  <2>3. hits \in {Append(t, h), t}
    BY <1>8
  <2> QED BY <2>1, <2>2, <2>3
<1>12. /\ query' \in QueryRecord /\ query'.step = "fetch" /\ query'.hits = hits
       /\ query'.ctx = as.ctx /\ query'.filter = as.filter /\ query'.scanned = d
       /\ query'.quiet = query.quiet /\ query'.limit = query.limit
  <2>1. query' = [query EXCEPT !.scanned = d, !.hits = hits]
    BY <1>7, <1>8
  <2> QED BY <1>1, <1>3, <1>5, <1>6, <1>11, <2>1 DEF QueryRecord
<1>13. query' \in QueryRecord'
  BY <1>12 DEF QueryRecord
<1>14. /\ \A k \in DOMAIN t : Known(t[k]) /\ Open(t[k]) /\ t[k].doc <= query.scanned /\ t[k].doc \in Nat
       /\ DistinctDocs(t)
  <2>1. \A k \in DOMAIN t : t[k] \in AnyHit
    BY <1>11, SeqHas
  <2> QED BY <1>1, <1>8, <2>1, KnowledgeAssumption DEF QueryInv, AnyHit
<1>15. /\ \A k \in DOMAIN hits : Known(hits[k]) /\ Open(hits[k]) /\ hits[k].doc <= d
       /\ DistinctDocs(hits)
  <2>1. CASE hits = t
    BY <1>5, <1>6, <1>14, <2>1
  <2>2. CASE hits # t
    <3>1. n > 0 /\ Allows(as.ctx, given[d][n].acl) /\ hits = Append(t, h)
      BY <1>8, <2>2
    <3>2. Known(h) /\ Rev(h) = given[d][n]
      BY <1>6, <1>9, <1>10, <3>1 DEF Known, KnownIn, Rev
    <3>3. Open(h)
      BY <1>10, <3>1, <3>2, ReadableIsOpen
    <3>4. PICK m : m = Len(t) /\ m \in Nat /\ DOMAIN t = 1 .. m
      BY <1>11
    <3>5. DOMAIN hits = 1 .. m + 1 /\ hits[m + 1] = h /\ \A k \in 1 .. m : hits[k] = t[k]
      BY <1>10, <1>11, <3>1, <3>4
    <3>6. \A k \in DOMAIN hits : k \in 1 .. m \/ k = m + 1
      BY <3>4, <3>5
    <3>7. \A k \in DOMAIN hits : Known(hits[k]) /\ Open(hits[k]) /\ hits[k].doc <= d
      BY <1>5, <1>6, <1>10, <1>14, <3>2, <3>3, <3>4, <3>5, <3>6
    <3>8. \A k \in 1 .. m : hits[k].doc # d
      BY <1>5, <1>6, <1>14, <3>4, <3>5
    <3>9. DistinctDocs(hits)
      BY <1>10, <1>14, <3>4, <3>5, <3>6, <3>8 DEF DistinctDocs
    <3> QED BY <3>7, <3>9
  <2> QED BY <2>1, <2>2
<1>16. (\A k \in DOMAIN query.hits :
         /\ Known(query.hits[k])
         /\ query.step # "filter" => Open(query.hits[k])
         /\ query.step = "fetch" => query.hits[k].doc <= query.scanned)'
  BY <1>1, <1>12, <1>15 DEF Known, Open, knowVars
<1>17. DistinctDocs(query.hits)'
  BY <1>12, <1>15 DEF DistinctDocs
<1>18. QueryInv'
  BY <1>1, <1>12, <1>13, <1>16, <1>17 DEF QueryInv
<1>19. query'.hits = IF n > 0 /\ Allows(as.ctx, given[d][n].acl)
                     THEN Append(query.hits, Hit(d, n)) ELSE query.hits
  BY <1>8, <1>12
<1>20. \E i \in {stored[d], settled[d]} :
          /\ d > query.scanned /\ \A e \in Docs : e > query.scanned => d <= e
          /\ query'.step = "fetch" /\ query'.scanned = d /\ query'.quiet = query.quiet
          /\ query'.limit = query.limit
          /\ query'.hits = IF i > 0 /\ Allows(as.ctx, given[d][i].acl)
                           THEN Append(query.hits, Hit(d, i)) ELSE query.hits
  BY <1>6, <1>7, <1>12, <1>19
<1> QED BY <1>1, <1>6, <1>18, <1>20

\* The end of a scan.
LEMMA ScanDoneKeeps ==
    ASSUME StoreInv, QueryInv, ScanDone, UNCHANGED <<layer, as>>
    PROVE  QueryInv'
<1>1. PICK t, score : t = query.hits /\ score = [k \in DOMAIN t |-> Cosine(t[k])]
  OBVIOUS
<1>2. PICK sorted : sorted = StableSort(t, score)
  OBVIOUS
<1>3. PICK hits : hits = Take(sorted, query.limit)
  OBVIOUS
<1>4. /\ layer = "dynamo" /\ query.step = "fetch" /\ UNCHANGED knowVars
      /\ query' = [query EXCEPT !.step = "answered", !.hits = hits]
  BY <1>1, <1>2, <1>3 DEF ScanDone
<1>5. /\ t \in Seq(AnyHit) /\ DistinctDocs(t) /\ query.limit \in Nat
      /\ \A k \in DOMAIN t : Known(t[k]) /\ Open(t[k])
  BY <1>1, <1>4 DEF QueryInv, QueryRecord
<1>6. \A k \in DOMAIN t : t[k] \in AnyHit
  BY <1>5, SeqHas
<1>7. \A k \in DOMAIN t : Cosine(t[k]) \in Int
  BY <1>5, <1>6, KnownHasScores
<1>8. score \in [DOMAIN t -> Int]
  BY <1>1, <1>7
<1>9. sorted \in Seq(AnyHit) /\ Sub(sorted, t)
  BY <1>2, <1>5, <1>8, StableSortIsSub
<1>10. hits \in Seq(AnyHit) /\ Sub(hits, sorted) /\ Len(hits) <= query.limit
  <2>1. hits \in Seq(AnyHit) /\ Sub(hits, sorted)
    BY <1>3, <1>5, <1>9, TakeIsSub
  <2>2. Len(hits) <= query.limit
    BY <1>3, <1>5, <1>9, TakeIsFront
  <2> QED BY <2>1, <2>2
<1>11. Sub(hits, t)
  BY <1>9, <1>10, SubOfSub
<1>12. DistinctDocs(hits) /\ \A k \in DOMAIN hits : \E j \in DOMAIN t : hits[k] = t[j]
  BY <1>5, <1>11, SubKeeps
<1>13. \A k \in DOMAIN hits : Known(hits[k]) /\ Open(hits[k])
  BY <1>5, <1>12
<1> QED BY <1>4, <1>10, <1>12, <1>13, QueryGoesTo DEF knowVars

\* A query that fails has no hits.
LEMMA QueryFailsKeeps ==
    ASSUME QueryInv, QueryFails, UNCHANGED <<layer, as>>
    PROVE  QueryInv'
<1>1. PICK none : none = <<>> /\ none \in Seq(AnyHit) /\ DOMAIN none = {}
  <2>1. <<>> \in Seq(AnyHit) /\ DOMAIN <<>> = {}
    OBVIOUS
  <2> QED BY <2>1, Zenon
<1>2. /\ query.step # "idle" /\ UNCHANGED knowVars
      /\ query' = [query EXCEPT !.step = "failed", !.hits = none]
  BY <1>1 DEF QueryFails
<1>3. DistinctDocs(none)
  BY <1>1 DEF DistinctDocs
<1> QED BY <1>1, <1>2, <1>3, QueryGoesTo DEF knowVars

\* Every step of a query.
LEMMA QueryStepKeeps ==
    ASSUME StoreInv, QueryInv, QueryNext, UNCHANGED <<layer, as>>
    PROVE  QueryInv' /\ UNCHANGED knowVars /\ query'.limit = query.limit /\ query'.quiet = query.quiet
<1>1. UNCHANGED knowVars
  BY DEF QueryNext, FetchCandidates, FilterCandidates, DenseArm, SparseArm, ScanPage, ScanDone,
         QueryFails
<1>2. query'.limit = query.limit /\ query'.quiet = query.quiet
  <2>1. query \in QueryRecord
    BY DEF QueryInv
  <2> QED BY <2>1 DEF QueryRecord, QueryNext, FetchCandidates, FilterCandidates, DenseArm,
                      SparseArm, ScanPage, ScanDone, QueryFails
<1> QED BY <1>1, <1>2, FetchKeeps, FilterKeeps, DenseKeeps, SparseKeeps, ScanPageKeeps, ScanDoneKeeps,
           QueryFailsKeeps DEF QueryNext

\* A query that is asked.
LEMMA AskKeeps ==
    ASSUME NEW n \in Nat, query' = Ask(as.ctx, as.filter, n), UNCHANGED <<layer, as>>
    PROVE  /\ QueryInv' /\ query'.step = "fetch" /\ query'.hits = <<>> /\ query'.limit = n
           /\ query'.scanned = 0
           /\ query'.quiet <=> /\ layer = "dynamo" => settled = stored
                               /\ \A i \in Ingesters : ingesting[i] = NoIngest
<1>1. PICK none : none = <<>> /\ none \in Seq(AnyHit) /\ DOMAIN none = {}
  <2>1. <<>> \in Seq(AnyHit) /\ DOMAIN <<>> = {}
    OBVIOUS
  <2> QED BY <2>1, Zenon
<1>2. PICK quiet : quiet = (/\ layer = "dynamo" => settled = stored
                            /\ \A i \in Ingesters : ingesting[i] = NoIngest)
  OBVIOUS
<1>3. quiet \in BOOLEAN
  BY <1>2
<1>4. PICK ctx, filter : ctx = as.ctx /\ filter = as.filter
  OBVIOUS
<1>5. query' = [[step |-> "idle", ctx |-> Nil, filter |-> Nil, limit |-> 0,
                 hits |-> none, scanned |-> 0, quiet |-> FALSE]
                EXCEPT !.step = "fetch", !.ctx = ctx, !.filter = filter, !.limit = n, !.quiet = quiet]
  BY <1>1, <1>2, <1>4 DEF Ask, NoQuery
<1>6. query' = [step |-> "fetch", ctx |-> ctx, filter |-> filter, limit |-> n,
                hits |-> none, scanned |-> 0, quiet |-> quiet]
  BY <1>5
<1>7. as'.ctx = ctx /\ as'.filter = filter
  BY <1>4
<1>8. query' \in QueryRecord'
  BY <1>1, <1>3, <1>6, <1>7 DEF QueryRecord, QuerySteps
<1>9. DOMAIN query'.hits = {} /\ query'.hits = <<>>
  BY <1>1, <1>6
<1>10. DistinctDocs(query.hits)'
  BY <1>9 DEF DistinctDocs
<1>11. QueryInv'
  BY <1>6, <1>7, <1>8, <1>9, <1>10 DEF QueryInv
<1> QED BY <1>2, <1>6, <1>9, <1>11

\* The answer has been taken.
LEMMA NoQueryKeeps ==
    ASSUME query' = NoQuery
    PROVE  QueryInv' /\ query'.step = "idle" /\ query'.hits = <<>> /\ query'.quiet = FALSE
<1>1. PICK none : none = <<>> /\ none \in Seq(AnyHit) /\ DOMAIN none = {}
  <2>1. <<>> \in Seq(AnyHit) /\ DOMAIN <<>> = {}
    OBVIOUS
  <2> QED BY <2>1, Zenon
<1>2. query' = [step |-> "idle", ctx |-> Nil, filter |-> Nil, limit |-> 0,
                hits |-> none, scanned |-> 0, quiet |-> FALSE]
  BY <1>1 DEF NoQuery
<1>3. query' \in QueryRecord'
  BY <1>1, <1>2 DEF QueryRecord, QuerySteps
<1>4. DOMAIN query'.hits = {} /\ query'.hits = <<>>
  BY <1>1, <1>2
<1>5. DistinctDocs(query.hits)'
  BY <1>4 DEF DistinctDocs
<1> QED BY <1>2, <1>3, <1>4, <1>5 DEF QueryInv

-----------------------------------------------------------------------------
(* The turn *)

TurnSteps == {"idle", "mirror", "persist", "engine", "tools", "search", "rerank", "over", "failed"}
TurnRecord ==
    [step : TurnSteps, auto : Seq(AnyHit), ground : Seq(AnyHit), sink : Seq(AnyHit),
     searches : Nat, topK : 0 .. MaxLimit, pool : Seq(AnyHit), last : Seq(AnyHit),
     citations : Seq(AnyHit), still : BOOLEAN, at : Nat]

\* A list of hits that the requester may see.
Shown(s) == s \in Seq(AnyHit) /\ \A k \in DOMAIN s : Known(s[k]) /\ Open(s[k])

\* Candidates in a new order, cut to topK.
Reranked(results, candidates, topK) ==
    Sub(results, candidates) /\ Len(results) = Smaller(topK, Len(candidates))

\* A shown list stays so.
LEMMA ShownStays ==
    ASSUME StoreInv, StoreInv', GivenGrows, as' = as, NEW s, Shown(s)
    PROVE  Shown(s)'
<1>1. s \in Seq(AnyHit) /\ \A k \in DOMAIN s : Known(s[k]) /\ Open(s[k])
  BY DEF Shown
<1>2. ASSUME NEW k \in DOMAIN s PROVE KnownIn(given', s[k]) /\ OpenIn(given', as'.ctx, s[k])
  <2>1. PICK h : h = s[k]
    OBVIOUS
  <2>2. h \in AnyHit /\ Known(h) /\ Open(h)
    BY <1>1, <1>2, <2>1, SeqHas
  <2>3. Known(h)' /\ Open(h)'
    BY <2>2, OpenStays
  <2> QED BY <2>1, <2>3 DEF Known, Open
<1> QED BY <1>1, <1>2 DEF Shown, Known, Open

\* Nothing is shown.
LEMMA NoneIsShown == Shown(<<>>) /\ DistinctDocs(<<>>)
<1>1. <<>> \in Seq(AnyHit) /\ DOMAIN <<>> = {}
  OBVIOUS
<1> QED BY <1>1, Zenon DEF Shown, DistinctDocs

\* What is put together of shown lists is shown.
LEMMA BothAreShown ==
    ASSUME NEW s, NEW t, Shown(s), Shown(t) PROVE Shown(s \o t)
<1>1. /\ s \in Seq(AnyHit) /\ t \in Seq(AnyHit)
      /\ \A k \in DOMAIN s : Known(s[k]) /\ Open(s[k])
      /\ \A k \in DOMAIN t : Known(t[k]) /\ Open(t[k])
  BY DEF Shown
<1>2. PICK m, n : m = Len(s) /\ n = Len(t) /\ m \in Nat /\ n \in Nat
  <2>1. Len(s) \in Nat /\ Len(t) \in Nat
    BY <1>1
  <2> QED BY <2>1, Zenon
<1>3. /\ DOMAIN s = 1 .. m /\ DOMAIN t = 1 .. n /\ s \o t \in Seq(AnyHit)
      /\ DOMAIN (s \o t) = 1 .. m + n
      /\ \A k \in 1 .. m + n : (s \o t)[k] = IF k <= m THEN s[k] ELSE t[k - m]
  <2>1. s \o t \in Seq(AnyHit) /\ Len(s \o t) = m + n
    BY <1>1, <1>2
  <2>2. DOMAIN s = 1 .. m /\ DOMAIN t = 1 .. n /\ DOMAIN (s \o t) = 1 .. m + n
    BY <1>1, <1>2, <2>1
  <2>3. \A k \in 1 .. m + n : (s \o t)[k] = IF k <= m THEN s[k] ELSE t[k - m]
    BY <1>1, <1>2
  <2> QED BY <2>1, <2>2, <2>3
<1>4. ASSUME NEW k \in DOMAIN (s \o t) PROVE Known((s \o t)[k]) /\ Open((s \o t)[k])
  <2>1. k \in 1 .. m + n
    BY <1>3, <1>4
  <2>2. CASE k <= m
    BY <1>1, <1>2, <1>3, <2>1, <2>2
  <2>3. CASE k > m
    <3>1. k - m \in DOMAIN t /\ (s \o t)[k] = t[k - m]
      BY <1>2, <1>3, <2>1, <2>3
    <3> QED BY <1>1, <3>1
  <2> QED BY <1>2, <2>1, <2>2, <2>3
<1> QED BY <1>3, <1>4 DEF Shown

\* A part of a shown list is shown.
LEMMA PartIsShown ==
    ASSUME NEW t, Shown(t), NEW s \in Seq(AnyHit), Sub(s, t)
    PROVE  Shown(s) /\ (DistinctDocs(t) => DistinctDocs(s))
<1>1. t \in Seq(AnyHit) /\ \A k \in DOMAIN t : Known(t[k]) /\ Open(t[k])
  BY DEF Shown
<1>2. \A k \in DOMAIN s : \E j \in DOMAIN t : s[k] = t[j]
  BY DEF Sub
<1>3. \A k \in DOMAIN s : Known(s[k]) /\ Open(s[k])
  BY <1>1, <1>2
<1>4. DistinctDocs(t) => DistinctDocs(s)
  BY <1>1, SubKeeps
<1> QED BY <1>3, <1>4 DEF Shown

\* Counting by a list without repetitions.
LEMMA CountOf ==
    ASSUME NEW T, NEW m \in Nat, NEW f \in [1 .. m -> T],
           \A i, j \in 1 .. m : f[i] = f[j] => i = j, \A x \in T : \E k \in 1 .. m : f[k] = x
    PROVE  IsFiniteSet(T) /\ Cardinality(T) = m
<1>1. f \in Injection(1 .. m, T)
  BY Zenon DEF Injection, IsInjective
<1>2. f \in Surjection(1 .. m, T)
  BY Zenon DEF Surjection
<1>3. ExistsBijection(1 .. m, T)
  BY <1>1, <1>2, Zenon DEF Bijection, ExistsBijection
<1>4. IsFiniteSet(1 .. m) /\ Cardinality(1 .. m) = m
  BY FS_Interval
<1> QED BY <1>3, <1>4, FS_Bijection

\* What the backend returned, without repetitions and positions out of range.
LEMMA PositionsAre ==
    ASSUME NEW n \in Nat, NEW order \in Seq(Nat), NEW s, s = Positions(order, n)
    PROVE  /\ s \in Seq(Nat) /\ \A k \in DOMAIN s : s[k] \in 1 .. n
           /\ \A i, j \in DOMAIN s : s[i] = s[j] => i = j
<1>1. PICK places : places = {k \in DOMAIN order : order[k] \in 1 .. n
                                                   /\ \A j \in 1 .. k - 1 : order[j] # order[k]}
  OBVIOUS
<1>2. /\ order \in Seq(Nat) /\ DOMAIN order = 1 .. Len(order) /\ Len(order) \in Nat
      /\ places \in SUBSET (1 .. Len(order))
  BY <1>1
<1>3. s = At(order, places)
  BY <1>1 DEF Positions
<1>4. PICK c : c = Cardinality(places)
  OBVIOUS
<1>5. s \in Seq(Nat) /\ c \in Nat /\ \E o : Picks(s, order, o, c, places)
  <2>1. order \in Seq(Nat) /\ places \in SUBSET DOMAIN order /\ Len(order) \in Nat
    BY <1>2
  <2>2. /\ s \in Seq(Nat) /\ Cardinality(places) \in 0 .. Len(order)
        /\ \E o : Picks(s, order, o, Cardinality(places), places) /\ Rising(o)
    BY <1>3, <2>1, AtPicks
  <2> QED BY <1>4, <2>1, <2>2
<1>6. PICK o : Picks(s, order, o, c, places)
  BY <1>5
<1>7. /\ DOMAIN s = 1 .. c /\ \A k \in 1 .. c : o[k] \in places /\ s[k] = order[o[k]]
      /\ \A i, j \in 1 .. c : o[i] = o[j] => i = j
  BY <1>6 DEF Picks
<1>8. \A k \in DOMAIN s : s[k] \in 1 .. n
  BY <1>1, <1>7
<1>9. ASSUME NEW i \in DOMAIN s, NEW j \in DOMAIN s, s[i] = s[j] PROVE i = j
  <2>1. PICK p, q : p = o[i] /\ q = o[j] /\ p \in places /\ q \in places
    BY <1>7
  <2>2. order[p] = order[q] /\ p \in Nat /\ q \in Nat /\ p >= 1 /\ q >= 1
    BY <1>2, <1>7, <1>9, <2>1
  <2>3. ~(p < q)
    <3>1. \A k \in 1 .. q - 1 : order[k] # order[q]
      BY <1>1, <2>1
    <3> QED BY <2>2, <3>1
  <2>4. ~(q < p)
    <3>1. \A k \in 1 .. p - 1 : order[k] # order[p]
      BY <1>1, <2>1
    <3> QED BY <2>2, <3>1
  <2>5. p = q
    BY <2>2, <2>3, <2>4
  <2> QED BY <1>7, <2>1, <2>5
<1> QED BY <1>5, <1>8, <1>9

\* s lists the b elements of T.
Lists(s, T, b) ==
    /\ b \in Nat /\ s \in [1 .. b -> T] /\ s \in Seq(Nat) /\ Len(s) = b
    /\ \A p \in T : \E k \in 1 .. b : s[k] = p
    /\ \A i, j \in 1 .. b : s[i] = s[j] => i = j

\* The other positions.
LEMMA RestIs ==
    ASSUME NEW n \in Nat, NEW T \in SUBSET (1 .. n)
    PROVE  Lists(Ascending(T), T, Cardinality(T))
<1> DEFINE rest == Ascending(T)
           b == Cardinality(T)
<1>1. /\ IsFiniteSet(T) /\ b \in 0 .. n /\ rest \in [1 .. b -> T] /\ Rising(rest)
      /\ \A p \in T : \E k \in 1 .. b : rest[k] = p
      /\ \A i, j \in 1 .. b : rest[i] = rest[j] => i = j
  BY AscendingLists
<1> HIDE DEF rest, b
<1>2. b \in Nat /\ T \in SUBSET Nat
  BY <1>1
<1>3. rest \in [1 .. b -> Nat]
  BY <1>1, <1>2
<1>4. rest \in Seq(Nat) /\ Len(rest) = b
  BY <1>2, <1>3
<1>5. Lists(rest, T, b)
  BY <1>1, <1>2, <1>4 DEF Lists
<1> QED BY <1>5 DEF rest, b

\* GatewayReranker::reorder puts every candidate in its place.
LEMMA ReorderReranks ==
    ASSUME NEW S, NEW t \in Seq(S), NEW m \in Nat, NEW order \in [1 .. m -> Nat], NEW topK \in Nat,
           NEW r, r = Reorder(order, t, topK)
    PROVE  r \in Seq(S) /\ Reranked(r, t, topK)
<1>1. PICK n : n = Len(t) /\ n \in Nat /\ DOMAIN t = 1 .. n /\ \A p \in 1 .. n : t[p] \in S
  <2>1. Len(t) \in Nat /\ DOMAIN t = 1 .. Len(t) /\ \A p \in 1 .. Len(t) : t[p] \in S
    OBVIOUS
  <2> QED BY <2>1, Zenon
<1>2. PICK scored, T, rest, all :
        /\ scored = Positions(order, n) /\ T = (1 .. n) \ ToSet(scored)
        /\ rest = Ascending(T) /\ all = scored \o rest
  OBVIOUS
<1>3. /\ scored \in Seq(Nat) /\ \A k \in DOMAIN scored : scored[k] \in 1 .. n
      /\ \A i, j \in DOMAIN scored : scored[i] = scored[j] => i = j
  <2>1. scored = Positions(order, n) /\ n \in Nat /\ order \in Seq(Nat)
    BY <1>1, <1>2
  <2>2. scored \in Seq(Nat)
    BY <2>1, PositionsAre
  <2>3. \A k \in DOMAIN scored : scored[k] \in 1 .. n
    BY <2>1, PositionsAre
  <2>4. \A i, j \in DOMAIN scored : scored[i] = scored[j] => i = j
    BY <2>1, PositionsAre
  <2> QED BY <2>2, <2>3, <2>4
<1>4. PICK a : a = Len(scored) /\ a \in Nat /\ DOMAIN scored = 1 .. a
  <2>1. Len(scored) \in Nat /\ DOMAIN scored = 1 .. Len(scored)
    BY <1>3
  <2> QED BY <2>1, Zenon
<1>5. PICK b : b = Cardinality(T)
  OBVIOUS
<1>6. /\ b \in Nat /\ rest \in [1 .. b -> T] /\ T \in SUBSET (1 .. n)
      /\ \A p \in T : \E k \in 1 .. b : rest[k] = p
      /\ \A i, j \in 1 .. b : rest[i] = rest[j] => i = j
      /\ rest \in Seq(Nat) /\ Len(rest) = b
  <2>1. T \in SUBSET (1 .. n) /\ n \in Nat
    BY <1>1, <1>2
  <2>2. Lists(Ascending(T), T, Cardinality(T))
    BY <2>1, RestIs
  <2>3. Lists(rest, T, b)
    BY <1>2, <1>5, <2>2
  <2> QED BY <2>1, <2>3 DEF Lists
<1>7. rest \in Seq(Nat) /\ Len(rest) = b
  BY <1>6
<1>8. /\ DOMAIN all = 1 .. a + b
      /\ \A k \in 1 .. a + b : all[k] = IF k <= a THEN scored[k] ELSE rest[k - a]
  <2>1. all \in Seq(Nat) /\ Len(all) = a + b
    <3>1. scored \in Seq(Nat) /\ rest \in Seq(Nat) /\ all = scored \o rest
      BY <1>2, <1>3, <1>7
    <3>2. scored \o rest \in Seq(Nat) /\ Len(scored \o rest) = Len(scored) + Len(rest)
      BY <3>1
    <3> QED BY <1>4, <1>7, <3>1, <3>2
  <2>2. DOMAIN all = 1 .. a + b
    BY <1>4, <1>6, <2>1
  <2>3. \A k \in 1 .. a + b : all[k] = IF k <= a THEN scored[k] ELSE rest[k - a]
    <3>1. scored \in Seq(Nat) /\ rest \in Seq(Nat) /\ all = scored \o rest
      BY <1>2, <1>3, <1>7
    <3>2. \A k \in 1 .. Len(scored) + Len(rest) :
             (scored \o rest)[k] = IF k <= Len(scored) THEN scored[k] ELSE rest[k - Len(scored)]
      BY <3>1
    <3> QED BY <1>4, <1>7, <3>1, <3>2
  <2> QED BY <2>2, <2>3
<1>9. ToSet(scored) = {scored[k] : k \in 1 .. a}
  BY <1>4 DEF ToSet
<1>10. \A k \in 1 .. a + b : \/ k \in 1 .. a /\ all[k] = scored[k]
                             \/ k - a \in 1 .. b /\ k > a /\ all[k] = rest[k - a]
  BY <1>4, <1>6, <1>8
<1>11. \A k \in 1 .. a + b : all[k] \in 1 .. n
  <2>1. \A k \in 1 .. a : scored[k] \in 1 .. n
    BY <1>3, <1>4
  <2>2. \A k \in 1 .. b : rest[k] \in 1 .. n
    BY <1>6
  <2> QED BY <1>10, <2>1, <2>2
<1>12. \A i \in 1 .. a, j \in 1 .. b : scored[i] # rest[j]
  <2>1. \A j \in 1 .. b : rest[j] \in T
    BY <1>6
  <2>2. \A p \in T : p \notin ToSet(scored)
    BY <1>2
  <2> QED BY <1>9, <2>1, <2>2
<1>13. ASSUME NEW i \in 1 .. a + b, NEW j \in 1 .. a + b, all[i] = all[j] PROVE i = j
  <2>1. CASE i <= a /\ j <= a
    <3>1. i \in 1 .. a /\ j \in 1 .. a
      BY <1>4, <1>6, <2>1
    <3>2. scored[i] = scored[j]
      BY <1>8, <1>13, <2>1
    <3> QED BY <1>3, <1>4, <3>1, <3>2
  <2>2. CASE i > a /\ j > a
    <3>1. i - a \in 1 .. b /\ j - a \in 1 .. b /\ rest[i - a] = rest[j - a]
      BY <1>4, <1>6, <1>8, <1>13, <2>2
    <3>2. i - a = j - a
      BY <1>6, <3>1
    <3> QED BY <1>4, <3>2
  <2>3. ~(i <= a /\ j > a) /\ ~(j <= a /\ i > a)
    BY <1>4, <1>10, <1>12, <1>13
  <2> QED BY <1>4, <2>1, <2>2, <2>3
<1>14. ASSUME NEW p \in 1 .. n PROVE \E k \in 1 .. a + b : all[k] = p
  <2>1. CASE p \in ToSet(scored)
    <3>1. PICK k \in 1 .. a : scored[k] = p
      BY <1>9, <2>1
    <3>2. k \in 1 .. a + b /\ all[k] = p
      BY <1>4, <1>6, <1>8, <3>1
    <3> QED BY <3>2
  <2>2. CASE p \notin ToSet(scored)
    <3>1. PICK k \in 1 .. b : rest[k] = p
      BY <1>2, <1>6, <2>2
    <3>2. a + k \in 1 .. a + b /\ all[a + k] = p
      <4>1. a + k \in 1 .. a + b /\ ~(a + k <= a) /\ (a + k) - a = k
        BY <1>4, <1>6, <3>1
      <4> QED BY <1>8, <3>1, <4>1
    <3> QED BY <3>2
  <2> QED BY <2>1, <2>2
<1>15. a + b = n
  <2>1. a + b \in Nat /\ all \in [1 .. a + b -> 1 .. n]
    <3>1. all \in Seq(Nat)
      BY <1>2, <1>3, <1>7
    <3>2. all = [k \in DOMAIN all |-> all[k]]
      BY <3>1
    <3> QED BY <1>4, <1>6, <1>8, <1>11, <3>2
  <2>2. Cardinality(1 .. n) = a + b
    BY <1>13, <1>14, <2>1, CountOf
  <2>3. Cardinality(1 .. n) = n
    <3>1. n \in Int /\ 1 \in Int /\ n \in Nat
      BY <1>1
    <3>2. Cardinality(1 .. n) = IF 1 > n THEN 0 ELSE n - 1 + 1
      BY <3>1, FS_Interval
    <3> QED BY <3>1, <3>2
  <2> QED BY <2>2, <2>3
<1>16. PICK u : u = [k \in DOMAIN all |-> t[all[k]]]
  OBVIOUS
<1>17. /\ DOMAIN u = 1 .. n /\ \A k \in 1 .. n : u[k] = t[all[k]] /\ u[k] \in S
  BY <1>1, <1>8, <1>11, <1>15, <1>16
<1>18. u \in [1 .. n -> S]
  BY <1>8, <1>15, <1>16, <1>17
<1>19. u \in Seq(S) /\ Len(u) = n
  BY <1>1, <1>18
<1>20. Sub(u, t)
  <2>1. PICK f : f = [k \in 1 .. n |-> all[k]]
    OBVIOUS
  <2>2. f \in [DOMAIN u -> DOMAIN t] /\ \A k \in 1 .. n : f[k] = all[k]
    BY <1>1, <1>11, <1>15, <1>17, <2>1
  <2>3. \A i, j \in DOMAIN u : f[i] = f[j] => i = j
    BY <1>13, <1>15, <1>17, <2>2
  <2>4. \A k \in DOMAIN u : u[k] = t[f[k]]
    BY <1>17, <2>2
  <2> QED BY <2>2, <2>3, <2>4, Zenon DEF Sub
<1>21. r = Take(u, topK)
  BY <1>1, <1>2, <1>16 DEF Reorder
<1>22. r \in Seq(S) /\ Sub(r, u) /\ Len(r) = Smaller(topK, n)
  BY <1>19, <1>21, TakeIsSub, TakeIsFront
<1> QED BY <1>1, <1>20, <1>22, SubOfSub DEF Reranked

\* A candidate list that is cut, or sorted and cut.
LEMMA CutReranks ==
    ASSUME NEW S, NEW t \in Seq(S), NEW topK \in Nat
    PROVE  Take(t, topK) \in Seq(S) /\ Reranked(Take(t, topK), t, topK)
<1>1. PICK s : s = Take(t, topK)
  OBVIOUS
<1>2. s \in Seq(S) /\ Sub(s, t) /\ Len(s) = Smaller(topK, Len(t))
  BY <1>1, TakeIsSub, TakeIsFront
<1> QED BY <1>1, <1>2 DEF Reranked

\* LexicalReranker::rerank gives as many candidates as it may.
LEMMA LexicalReranks ==
    ASSUME NEW S, NEW t \in Seq(S), NEW topK \in Nat, NEW score \in [DOMAIN t -> Int]
    PROVE  LexicalRerank(t, topK, score) \in Seq(S) /\ Reranked(LexicalRerank(t, topK, score), t, topK)
<1>1. PICK u : u = StableSort(t, score)
  OBVIOUS
<1>2. u \in Seq(S) /\ Sub(u, t)
  BY <1>1, StableSortIsSub
<1>3. Len(u) = Len(t)
  BY <1>1, StableSortPicks
<1>4. PICK s : s = Take(u, topK)
  OBVIOUS
<1>5. s \in Seq(S) /\ Sub(s, u) /\ Len(s) = Smaller(topK, Len(u))
  BY <1>2, <1>4, TakeIsSub, TakeIsFront
<1>6. Sub(s, t)
  BY <1>2, <1>5, SubOfSub
<1>7. LexicalRerank(t, topK, score) = s
  BY <1>1, <1>4 DEF LexicalRerank
<1> QED BY <1>3, <1>5, <1>6, <1>7 DEF Reranked

\* GatewayReranker::rerank, whatever the backend returns.
LEMMA GatewayReranks ==
    ASSUME NEW S, NEW t \in Seq(S), NEW topK \in Nat, NEW r \in GatewayRerank(t, topK)
    PROVE  r \in Seq(S) /\ Reranked(r, t, topK)
<1>1. PICK n : n = Len(t) /\ n \in Nat
  <2>1. Len(t) \in Nat
    OBVIOUS
  <2> QED BY <2>1, Zenon
<1>2. PICK answers : answers = UNION {[1 .. m -> 1 .. n + 1] : m \in 0 .. n}
  OBVIOUS
<1>3. GatewayRerank(t, topK) = {Take(t, topK)} \cup {Reorder(order, t, topK) : order \in answers}
  BY <1>1, <1>2, Zenon DEF GatewayRerank
<1>4. CASE r = Take(t, topK)
  BY <1>4, CutReranks
<1>5. CASE r # Take(t, topK)
  <2>1. PICK order \in answers : r = Reorder(order, t, topK)
    BY <1>3, <1>5
  <2>2. PICK m \in 0 .. n : order \in [1 .. m -> 1 .. n + 1]
    BY <1>2, <2>1
  <2>3. m \in Nat /\ order \in [1 .. m -> Nat]
    <3>1. (1 .. n + 1) \subseteq Nat
      BY <1>1
    <3> QED BY <1>1, <2>2, <3>1
  <2> QED BY <2>1, <2>3, ReorderReranks
<1> QED BY <1>4, <1>5

Rerankers == {"none", "lexical", "gateway"}

\* apply_optional_rerank, whichever stage is configured.
LEMMA StageReranks ==
    ASSUME NEW S, NEW t \in Seq(S), NEW topK \in Nat, NEW score \in [DOMAIN t -> Int],
           NEW stage \in Rerankers, NEW r \in OptionalRerank(stage, t, topK, score)
    PROVE  r \in Seq(S) /\ Reranked(r, t, topK)
<1>1. CASE stage = "none"
  <2>1. r = Take(t, topK)
    BY <1>1 DEF OptionalRerank
  <2> QED BY <2>1, CutReranks
<1>2. CASE stage = "lexical"
  <2>1. r = LexicalRerank(t, topK, score)
    BY <1>2 DEF OptionalRerank
  <2> QED BY <2>1, LexicalReranks
<1>3. CASE stage = "gateway"
  <2>1. r \in GatewayRerank(t, topK)
    BY <1>3 DEF OptionalRerank
  <2> QED BY <2>1, GatewayReranks
<1> QED BY <1>1, <1>2, <1>3 DEF Rerankers

\* The stage that is configured.
LEMMA BuiltReranker ==
    ASSUME NEW mode \in {"off", "lexical", "gateway"}, NEW keyed \in BOOLEAN
    PROVE  BuildReranker(mode, keyed) \in Rerankers
BY DEF BuildReranker, Rerankers

\* FirstOfEach, as a choice of positions.
LEMMA FirstOfEachIs ==
    ASSUME NEW t \in Seq(AnyHit)
    PROVE  /\ FirstOfEach(t) \in Seq(AnyHit) /\ Sub(FirstOfEach(t), t)
           /\ \A h \in ToSet(t) : \E g \in ToSet(FirstOfEach(t)) : g.doc = h.doc
           /\ DistinctDocs(FirstOfEach(t))
           /\ \E order : Rising(order) /\ Picks(FirstOfEach(t), t, order, Len(FirstOfEach(t)),
                  {k \in DOMAIN t : \A j \in 1 .. k - 1 : t[j].doc # t[k].doc})
<1>1. PICK places : places = {k \in DOMAIN t : \A j \in 1 .. k - 1 : t[j].doc # t[k].doc}
  OBVIOUS
<1>2. PICK s : s = FirstOfEach(t)
  OBVIOUS
<1>3. s = At(t, places) /\ places \in SUBSET DOMAIN t
  BY <1>1, <1>2 DEF FirstOfEach
<1>4. s \in Seq(AnyHit) /\ Sub(s, t)
  BY <1>3, AtIsSub
<1>5. Len(s) = Cardinality(places) /\ \E order : Picks(s, t, order, Cardinality(places), places) /\ Rising(order)
  BY <1>3, AtPicks
<1>6. PICK order : Picks(s, t, order, Len(s), places) /\ Rising(order)
  BY <1>5
<1>7. PICK c : c = Len(s) /\ c \in Nat
  <2>1. Len(s) \in Nat
    BY <1>4
  <2> QED BY <2>1, Zenon
<1>8. /\ order \in [1 .. c -> places] /\ DOMAIN s = 1 .. c
      /\ \A k \in 1 .. c : order[k] \in places /\ s[k] = t[order[k]]
      /\ \A i, j \in 1 .. c : order[i] = order[j] => i = j
      /\ \A p \in places : \E k \in 1 .. c : order[k] = p
  BY <1>6, <1>7 DEF Picks
<1>9. PICK n : n = Len(t) /\ n \in Nat /\ DOMAIN t = 1 .. n
  <2>1. Len(t) \in Nat /\ DOMAIN t = 1 .. Len(t)
    OBVIOUS
  <2> QED BY <2>1, Zenon
<1>10. ASSUME NEW i \in DOMAIN s, NEW j \in DOMAIN s, s[i].doc = s[j].doc PROVE i = j
  <2>1. PICK p, q : p = order[i] /\ q = order[j] /\ p \in places /\ q \in places
    BY <1>8
  <2>2. t[p].doc = t[q].doc /\ p \in 1 .. n /\ q \in 1 .. n
    BY <1>3, <1>8, <1>9, <1>10, <2>1
  <2>3. ~(p < q)
    <3>1. \A k \in 1 .. q - 1 : t[k].doc # t[q].doc
      BY <1>1, <2>1
    <3> QED BY <1>9, <2>2, <3>1
  <2>4. ~(q < p)
    <3>1. \A k \in 1 .. p - 1 : t[k].doc # t[p].doc
      BY <1>1, <2>1
    <3> QED BY <1>9, <2>2, <3>1
  <2>5. p = q
    BY <1>9, <2>2, <2>3, <2>4
  <2> QED BY <1>8, <2>1, <2>5
<1>11. DistinctDocs(s)
  BY <1>10 DEF DistinctDocs
<1>12. ASSUME NEW h \in ToSet(t) PROVE \E g \in ToSet(s) : g.doc = h.doc
  <2>1. PICK E : E = {k \in 1 .. n : t[k].doc = h.doc}
    OBVIOUS
  <2>2. E \subseteq Nat /\ E # {}
    BY <1>9, <1>12, <2>1 DEF ToSet
  <2>3. PICK p \in E : \A f \in E : p <= f
    BY <2>2, LeastExists
  <2>4. p \in 1 .. n /\ t[p].doc = h.doc
    BY <2>1
  <2>5. \A j \in 1 .. p - 1 : t[j].doc # t[p].doc
    <3> SUFFICES ASSUME NEW j \in 1 .. p - 1, t[j].doc = t[p].doc PROVE FALSE
      OBVIOUS
    <3>1. j \in E
      BY <1>9, <2>1, <2>4
    <3>2. p <= j
      BY <2>3, <3>1
    <3> QED BY <1>9, <2>4, <3>2
  <2>6. p \in places
    BY <1>1, <1>9, <2>4, <2>5
  <2>7. PICK k \in 1 .. c : order[k] = p
    BY <1>8, <2>6
  <2>8. s[k].doc = h.doc /\ s[k] \in ToSet(s)
    BY <1>8, <2>4, <2>7 DEF ToSet
  <2> QED BY <2>8
<1> QED BY <1>1, <1>2, <1>4, <1>6, <1>11, <1>12

\* The citations c of a turn with these sources.
Cited(c, auto, sink) ==
    /\ Cardinality(DocsIn(c)) = Len(c) /\ Len(c) \in Nat
    /\ Len(c) < MaxCitations => DocsIn(sink) \subseteq DocsIn(c)
    /\ Len(c) >= Smaller(MaxCitations, Cardinality(DocsIn(auto \o sink)))
    /\ AutoLimit <= MaxCitations => DocsIn(auto) \subseteq DocsIn(c)

\* In a rising list of positive numbers none comes later than its own place.
LEMMA RisingIsBehind ==
    ASSUME NEW c \in Nat, NEW n \in Nat, NEW order \in [1 .. c -> 1 .. n], Rising(order),
           \A i, j \in 1 .. c : order[i] = order[j] => i = j, NEW k \in 1 .. c
    PROVE  k <= order[k]
<1>1. PICK p : p = order[k] /\ p \in 1 .. n
  OBVIOUS
<1>2. \A i \in 1 .. k : order[i] \in 1 .. p
  <2> SUFFICES ASSUME NEW i \in 1 .. k PROVE order[i] \in 1 .. p
    OBVIOUS
  <2>1. i \in 1 .. c /\ (i = k \/ i < k) /\ order[i] \in 1 .. n
    OBVIOUS
  <2>2. i < k => order[i] < order[k]
    BY <2>1 DEF Rising
  <2> QED BY <1>1, <2>1, <2>2
<1>3. PICK f : f = [i \in 1 .. k |-> order[i]]
  OBVIOUS
<1>4. f \in [1 .. k -> 1 .. p] /\ \A i \in 1 .. k : f[i] = order[i]
  BY <1>2, <1>3
<1>5. \A i, j \in 1 .. k : f[i] = f[j] => i = j
  BY <1>4
<1>6. f \in Injection(1 .. k, 1 .. p)
  BY <1>4, <1>5, Zenon DEF Injection, IsInjective
<1>7. IsFiniteSet(1 .. p) /\ Cardinality(1 .. p) = p /\ Cardinality(1 .. k) = k
  <2>1. p \in Int /\ k \in Int /\ p >= 1 /\ k >= 1
    BY <1>1
  <2>2. /\ IsFiniteSet(1 .. p) /\ Cardinality(1 .. p) = IF 1 > p THEN 0 ELSE p - 1 + 1
        /\ Cardinality(1 .. k) = IF 1 > k THEN 0 ELSE k - 1 + 1
    BY <2>1, FS_Interval
  <2> QED BY <2>1, <2>2
<1>8. Cardinality(1 .. k) <= Cardinality(1 .. p)
  BY <1>6, <1>7, FS_Injection
<1> QED BY <1>1, <1>7, <1>8

\* A list of hits of different documents has as many documents as hits.
LEMMA DocsOfDistinct ==
    ASSUME NEW s \in Seq(AnyHit), DistinctDocs(s)
    PROVE  IsFiniteSet(DocsIn(s)) /\ Cardinality(DocsIn(s)) = Len(s) /\ Len(s) \in Nat
<1>1. PICK m : m = Len(s) /\ m \in Nat /\ DOMAIN s = 1 .. m
  <2>1. Len(s) \in Nat /\ DOMAIN s = 1 .. Len(s)
    OBVIOUS
  <2> QED BY <2>1, Zenon
<1>2. PICK f, T : f = [k \in 1 .. m |-> s[k].doc] /\ T = DocsIn(s)
  OBVIOUS
<1>3. T = {s[k].doc : k \in 1 .. m}
  BY <1>1, <1>2 DEF DocsIn
<1>4. f \in [1 .. m -> T] /\ \A k \in 1 .. m : f[k] = s[k].doc
  BY <1>2, <1>3
<1>5. \A i, j \in 1 .. m : f[i] = f[j] => i = j
  BY <1>1, <1>4 DEF DistinctDocs
<1>6. \A x \in T : \E k \in 1 .. m : f[k] = x
  BY <1>3, <1>4
<1>7. IsFiniteSet(T) /\ Cardinality(T) = m
  <2>1. /\ m \in Nat /\ f \in [1 .. m -> T]
        /\ \A i, j \in 1 .. m : f[i] = f[j] => i = j
        /\ \A x \in T : \E k \in 1 .. m : f[k] = x
    BY <1>1, <1>4, <1>5, <1>6
  <2> QED BY <2>1, CountOf, Zenon
<1> QED BY <1>1, <1>2, <1>7

\* Nor has it a hit twice.
LEMMA HitsOfDistinct ==
    ASSUME NEW s \in Seq(AnyHit), DistinctDocs(s)
    PROVE  IsFiniteSet(ToSet(s)) /\ Cardinality(ToSet(s)) = Len(s) /\ Len(s) \in Nat
<1>1. PICK m : m = Len(s) /\ m \in Nat /\ DOMAIN s = 1 .. m
  <2>1. Len(s) \in Nat /\ DOMAIN s = 1 .. Len(s)
    OBVIOUS
  <2> QED BY <2>1, Zenon
<1>2. PICK f, T : f = [k \in 1 .. m |-> s[k]] /\ T = ToSet(s)
  OBVIOUS
<1>3. T = {s[k] : k \in 1 .. m}
  BY <1>1, <1>2 DEF ToSet
<1>4. f \in [1 .. m -> T] /\ \A k \in 1 .. m : f[k] = s[k]
  BY <1>2, <1>3
<1>5. \A i, j \in 1 .. m : f[i] = f[j] => i = j
  BY <1>1, <1>4 DEF DistinctDocs
<1>6. \A x \in T : \E k \in 1 .. m : f[k] = x
  BY <1>3, <1>4
<1>7. IsFiniteSet(T) /\ Cardinality(T) = m
  <2>1. /\ m \in Nat /\ f \in [1 .. m -> T]
        /\ \A i, j \in 1 .. m : f[i] = f[j] => i = j
        /\ \A x \in T : \E k \in 1 .. m : f[k] = x
    BY <1>1, <1>4, <1>5, <1>6
  <2> QED BY <2>1, CountOf, Zenon
<1> QED BY <1>1, <1>2, <1>7

\* collect_citations.
LEMMA CitationsAre ==
    ASSUME NEW auto \in Seq(AnyHit), NEW sink \in Seq(AnyHit), DistinctDocs(auto),
           Len(auto) <= AutoLimit
    PROVE  /\ CollectCitations(auto, sink) \in Seq(AnyHit)
           /\ Sub(CollectCitations(auto, sink), auto \o sink)
           /\ Cited(CollectCitations(auto, sink), auto, sink)
           /\ Len(CollectCitations(auto, sink)) <= MaxCitations
<1> PICK t, m, n : t = auto \o sink /\ m = Len(auto) /\ n = Len(t)
  OBVIOUS
<1>1. /\ t = auto \o sink /\ m = Len(auto) /\ n = Len(t) /\ t \in Seq(AnyHit)
      /\ m \in Nat /\ n \in Nat /\ m <= n
      /\ DOMAIN auto = 1 .. m /\ DOMAIN t = 1 .. n
      /\ \A k \in 1 .. m : t[k] = auto[k]
      /\ \A k \in DOMAIN sink : \E j \in 1 .. n : t[j] = sink[k]
  <2>1. /\ auto \o sink \in Seq(AnyHit) /\ Len(auto) \in Nat /\ Len(sink) \in Nat
        /\ Len(auto \o sink) = Len(auto) + Len(sink)
        /\ DOMAIN auto = 1 .. Len(auto) /\ DOMAIN sink = 1 .. Len(sink)
    OBVIOUS
  <2>2. /\ Len(auto \o sink) \in Nat /\ Len(auto) <= Len(auto \o sink)
        /\ DOMAIN (auto \o sink) = 1 .. Len(auto \o sink)
    BY <2>1
  <2>3. \A k \in 1 .. Len(auto) : (auto \o sink)[k] = auto[k]
    OBVIOUS
  <2>4. \A k \in DOMAIN sink : \E j \in 1 .. Len(auto \o sink) : (auto \o sink)[j] = sink[k]
    <3> SUFFICES ASSUME NEW k \in DOMAIN sink
                 PROVE  \E j \in 1 .. Len(auto \o sink) : (auto \o sink)[j] = sink[k]
      OBVIOUS
    <3>1. PICK j : j = Len(auto) + k
      OBVIOUS
    <3>2. j \in 1 .. Len(auto) + Len(sink) /\ ~(j <= Len(auto)) /\ j - Len(auto) = k
      BY <2>1, <3>1
    <3>3. (auto \o sink)[j] = sink[k]
      BY <3>2
    <3> QED BY <2>1, <3>2, <3>3
  <2> QED BY <2>1, <2>2, <2>3, <2>4
<1>2. PICK u, c : u = FirstOfEach(t) /\ c = Take(u, MaxCitations)
  OBVIOUS
<1>3. MaxCitations \in Nat /\ AutoLimit \in Nat
  BY RetrievalAssumption
<1>4. PICK places : places = {k \in DOMAIN t : \A j \in 1 .. k - 1 : t[j].doc # t[k].doc}
  OBVIOUS
<1>5. /\ u \in Seq(AnyHit) /\ Sub(u, t) /\ DistinctDocs(u)
      /\ \A h \in ToSet(t) : \E g \in ToSet(u) : g.doc = h.doc
  BY <1>1, <1>2, FirstOfEachIs
<1>6. PICK order : Rising(order) /\ Picks(u, t, order, Len(u), places)
  BY <1>1, <1>2, <1>4, FirstOfEachIs
<1>7. /\ c \in Seq(AnyHit) /\ Sub(c, u) /\ Len(c) = Smaller(MaxCitations, Len(u))
      /\ Len(c) \in Nat /\ \A k \in 1 .. Len(c) : c[k] = u[k]
  <2>1. u \in Seq(AnyHit) /\ MaxCitations \in Nat /\ c = Take(u, MaxCitations)
    BY <1>2, <1>3, <1>5
  <2>2. c \in Seq(AnyHit) /\ Sub(c, u)
    BY <2>1, TakeIsSub
  <2>3. Len(c) = Smaller(MaxCitations, Len(u)) /\ Len(c) \in Nat /\ \A k \in 1 .. Len(c) : c[k] = u[k]
    BY <2>1, TakeIsFront
  <2> QED BY <2>2, <2>3
<1>8. DistinctDocs(c) /\ Sub(c, t)
  BY <1>5, <1>7, SubKeeps, SubOfSub
<1>9. PICK w, v : w = Len(u) /\ v = Len(c) /\ w \in Nat /\ v \in Nat /\ v <= w /\ v <= MaxCitations
                  /\ v = Smaller(MaxCitations, w)
                  /\ DOMAIN u = 1 .. w /\ DOMAIN c = 1 .. v
  <2>1. Len(u) \in Nat /\ DOMAIN u = 1 .. Len(u) /\ Len(c) \in Nat /\ DOMAIN c = 1 .. Len(c)
    BY <1>5, <1>7
  <2>2. Len(c) <= Len(u) /\ Len(c) <= MaxCitations
    BY <1>3, <1>7, <2>1 DEF Smaller
  <2> QED BY <1>7, <2>1, <2>2, Zenon
<1>10. Cardinality(DocsIn(c)) = v /\ Cardinality(DocsIn(u)) = w
  BY <1>5, <1>7, <1>8, <1>9, DocsOfDistinct
<1>11. DocsIn(u) = DocsIn(t)
  <2>1. ASSUME NEW d \in DocsIn(t) PROVE d \in DocsIn(u)
    <3>1. PICK k \in DOMAIN t : t[k].doc = d
      BY <2>1 DEF DocsIn
    <3>2. PICK g \in ToSet(u) : g.doc = d
      BY <1>5, <3>1 DEF ToSet
    <3>3. PICK j \in DOMAIN u : u[j] = g
      BY DEF ToSet
    <3> QED BY <3>2, <3>3 DEF DocsIn
  <2>2. ASSUME NEW d \in DocsIn(u) PROVE d \in DocsIn(t)
    <3>1. PICK k \in DOMAIN u : u[k].doc = d
      BY <2>2 DEF DocsIn
    <3>2. PICK j \in DOMAIN t : u[k] = t[j]
      BY <1>5 DEF Sub
    <3> QED BY <3>1, <3>2 DEF DocsIn
  <2> QED BY <2>1, <2>2
<1>12. v >= Smaller(MaxCitations, Cardinality(DocsIn(t)))
  BY <1>3, <1>9, <1>10, <1>11 DEF Smaller
<1>13. ASSUME v < MaxCitations PROVE DocsIn(sink) \subseteq DocsIn(c)
  <2>1. v = w
    BY <1>3, <1>9, <1>13 DEF Smaller
  <2>2. DocsIn(c) = DocsIn(u)
    BY <1>7, <1>9, <2>1 DEF DocsIn
  <2>3. DocsIn(sink) \subseteq DocsIn(t)
    <3> SUFFICES ASSUME NEW d \in DocsIn(sink) PROVE d \in DocsIn(t)
      OBVIOUS
    <3>1. PICK k \in DOMAIN sink : sink[k].doc = d
      BY DEF DocsIn
    <3>2. PICK j \in 1 .. n : t[j] = sink[k]
      BY <1>1
    <3> QED BY <1>1, <3>1, <3>2 DEF DocsIn
  <2> QED BY <1>11, <2>2, <2>3
<1>14. ASSUME AutoLimit <= MaxCitations PROVE DocsIn(auto) \subseteq DocsIn(c)
  <2> SUFFICES ASSUME NEW d \in DocsIn(auto) PROVE d \in DocsIn(c)
    OBVIOUS
  <2>1. PICK p \in 1 .. m : auto[p].doc = d
    BY <1>1 DEF DocsIn
  <2>2. p \in 1 .. n /\ t[p] = auto[p] /\ t[p].doc = d
    BY <1>1, <2>1
  <2>3. \A j \in 1 .. p - 1 : t[j].doc # t[p].doc
    <3> SUFFICES ASSUME NEW j \in 1 .. p - 1 PROVE t[j].doc # t[p].doc
      OBVIOUS
    <3>1. j \in 1 .. m /\ j # p
      BY <1>1, <2>1
    <3>2. t[j] = auto[j] /\ auto[j].doc # auto[p].doc
      BY <1>1, <2>1, <3>1 DEF DistinctDocs
    <3> QED BY <2>2, <3>2
  <2>4. p \in places
    BY <1>1, <1>4, <2>2, <2>3
  <2>5. /\ order \in [1 .. w -> places] /\ \A k \in 1 .. w : u[k] = t[order[k]]
        /\ \A i, j \in 1 .. w : order[i] = order[j] => i = j
        /\ \A x \in places : \E k \in 1 .. w : order[k] = x
    BY <1>6, <1>9 DEF Picks
  <2>6. PICK k \in 1 .. w : order[k] = p
    BY <2>4, <2>5
  <2>7. order \in [1 .. w -> 1 .. n]
    BY <1>1, <1>4, <2>5
  <2>8. k <= p
    BY <1>1, <1>6, <1>9, <2>5, <2>6, <2>7, RisingIsBehind
  <2>9. m <= AutoLimit
    BY <1>1
  <2>10. k \in 1 .. v
    BY <1>1, <1>3, <1>9, <1>14, <2>1, <2>6, <2>8, <2>9 DEF Smaller
  <2>11. c[k].doc = d
    BY <1>7, <1>9, <2>2, <2>5, <2>6, <2>10
  <2> QED BY <1>9, <2>10, <2>11 DEF DocsIn
<1>15. Cited(c, auto, sink)
  BY <1>1, <1>9, <1>10, <1>12, <1>13, <1>14 DEF Cited
<1>16. c = CollectCitations(auto, sink)
  BY <1>1, <1>2 DEF CollectCitations
<1> QED BY <1>1, <1>7, <1>8, <1>9, <1>15, <1>16

\* A turn t whose lists are open to its requester; the mirrored sources are
\* within their limit, a search has shown its candidates, and the citations
\* name the sources.
TurnIs(t) ==
    /\ t \in TurnRecord
    /\ Shown(t.auto) /\ Shown(t.ground) /\ Shown(t.sink) /\ Shown(t.pool)
    /\ Shown(t.last) /\ Shown(t.citations)
    /\ DistinctDocs(t.auto) /\ DistinctDocs(t.pool)
    /\ Len(t.auto) <= AutoLimit
    /\ t.step \in {"idle", "mirror", "persist", "engine"} => t.pool = <<>>
    /\ t.step = "tools" /\ t.pool # <<>> => Reranked(t.last, t.pool, t.topK)
    /\ t.step = "over" => Cited(t.citations, t.auto, t.sink)

\* The turn, the limit its automatic query was asked with, and the rerank stage.
TurnInv ==
    /\ TurnIs(turn)
    /\ turn.step = "mirror" => query.limit = AutoLimit
    /\ reranker \in Rerankers

\* While nothing else changes.
LEMMA ShownSame ==
    ASSUME UNCHANGED <<given, as>>, NEW s PROVE Shown(s)' <=> Shown(s)
BY DEF Shown, Known, KnownIn, Open, OpenIn

\* A turn step that leaves the store alone.
LEMMA TurnBecomes ==
    ASSUME UNCHANGED <<given, as>>, NEW t, TurnIs(t), turn' = t PROVE TurnIs(turn)'
<1>1. PICK a, b, c, d, e, f :
        /\ a = t.auto /\ b = t.ground /\ c = t.sink /\ d = t.pool /\ e = t.last /\ f = t.citations
  OBVIOUS
<1>2. /\ Shown(a) /\ Shown(b) /\ Shown(c) /\ Shown(d) /\ Shown(e) /\ Shown(f)
  BY <1>1 DEF TurnIs
<1>3. /\ Shown(a)' /\ Shown(b)' /\ Shown(c)' /\ Shown(d)' /\ Shown(e)' /\ Shown(f)'
  BY <1>2, ShownSame
<1>4. TurnIs(t)'
  <2>1. /\ Shown(t.auto)' /\ Shown(t.ground)' /\ Shown(t.sink)' /\ Shown(t.pool)'
        /\ Shown(t.last)' /\ Shown(t.citations)'
    BY <1>1, <1>3
  <2> QED BY <2>1 DEF TurnIs, TurnRecord
<1> QED BY <1>4

\* While documents are ingested or the query goes on.
LEMMA TurnOutlives ==
    ASSUME StoreInv, StoreInv', GivenGrows, UNCHANGED <<as, turn>>, TurnIs(turn)
    PROVE  TurnIs(turn)'
<1>1. PICK t : t = turn /\ t = turn'
  OBVIOUS
<1>2. TurnIs(t)
  BY <1>1
<1>3. PICK a, b, c, d, e, f :
        /\ a = t.auto /\ b = t.ground /\ c = t.sink /\ d = t.pool /\ e = t.last /\ f = t.citations
  OBVIOUS
<1>4. /\ Shown(a) /\ Shown(b) /\ Shown(c) /\ Shown(d) /\ Shown(e) /\ Shown(f)
  BY <1>2, <1>3 DEF TurnIs
<1>5. /\ Shown(a)' /\ Shown(b)' /\ Shown(c)' /\ Shown(d)' /\ Shown(e)' /\ Shown(f)'
  BY <1>4, ShownStays
<1>6. TurnIs(t)'
  <2>1. /\ Shown(t.auto)' /\ Shown(t.ground)' /\ Shown(t.sink)' /\ Shown(t.pool)'
        /\ Shown(t.last)' /\ Shown(t.citations)'
    BY <1>3, <1>5
  <2> QED BY <1>2, <2>1 DEF TurnIs, TurnRecord
<1> QED BY <1>1, <1>6

\* The answer that the turn takes.
LEMMA AnswerIsShown ==
    ASSUME QueryInv, Answered
    PROVE  Shown(query.hits) /\ DistinctDocs(query.hits) /\ query.hits \in Seq(AnyHit)
           /\ (query.step = "failed" => query.hits = <<>>)
           /\ (query.step = "answered" => Len(query.hits) <= query.limit)
BY DEF QueryInv, QueryRecord, Answered, Shown

\* auto_sources asks.
LEMMA MirrorAskKeeps ==
    ASSUME StoreInv, TurnInv, MirrorAsk, UNCHANGED <<layer, reranker, as>>
    PROVE  TurnInv' /\ QueryInv'
<1>1. PICK t, n : t = [turn EXCEPT !.step = "mirror", !.at = n] /\ n = ingests
  OBVIOUS
<1>2. /\ turn' = t /\ turn.step = "idle" /\ UNCHANGED knowVars
      /\ query' = Ask(as.ctx, as.filter, AutoLimit)
  BY <1>1 DEF MirrorAsk
<1>3. n \in Nat /\ AutoLimit \in Nat
  BY <1>1, RetrievalAssumption DEF StoreInv
<1>4. TurnIs(t)
  <2>1. turn \in TurnRecord /\ TurnIs(turn)
    BY DEF TurnInv, TurnIs
  <2>2. /\ t \in TurnRecord /\ t.step = "mirror" /\ t.auto = turn.auto /\ t.ground = turn.ground
        /\ t.sink = turn.sink /\ t.pool = turn.pool /\ t.last = turn.last
        /\ t.citations = turn.citations
    BY <1>1, <1>3, <2>1 DEF TurnRecord, TurnSteps
  <2> QED BY <1>2, <2>1, <2>2 DEF TurnIs
<1>5. TurnIs(turn)'
  BY <1>2, <1>4, TurnBecomes DEF knowVars
<1>6. QueryInv' /\ query'.limit = AutoLimit
  BY <1>2, <1>3, AskKeeps
<1> QED BY <1>5, <1>6 DEF TurnInv

\* The sources are mirrored.
LEMMA MirrorDoneKeeps ==
    ASSUME TurnInv, QueryInv, MirrorDone, UNCHANGED <<layer, reranker, as>>
    PROVE  TurnInv' /\ QueryInv'
<1>1. PICK hits, still, t :
        /\ hits = query.hits /\ still = (query.quiet /\ query.step = "answered")
        /\ t = [turn EXCEPT !.step = "persist", !.auto = hits, !.still = still]
  OBVIOUS
<1>2. /\ turn' = t /\ turn.step = "mirror" /\ Answered /\ UNCHANGED knowVars /\ query' = NoQuery
  BY <1>1 DEF MirrorDone
<1>3. /\ Shown(hits) /\ DistinctDocs(hits) /\ hits \in Seq(AnyHit) /\ Len(hits) <= AutoLimit
  <2>1. /\ Shown(hits) /\ DistinctDocs(hits) /\ hits \in Seq(AnyHit)
        /\ query.step = "failed" => hits = <<>>
        /\ query.step = "answered" => Len(hits) <= query.limit
    BY <1>1, <1>2, AnswerIsShown
  <2>2. query.step = "failed" => Len(hits) <= AutoLimit
    <3>1. Len(<<>>) = 0 /\ AutoLimit \in Nat
      BY RetrievalAssumption
    <3> QED BY <2>1, <3>1
  <2> QED BY <1>2, <2>1, <2>2 DEF Answered, TurnInv
<1>4. TurnIs(t)
  <2>1. turn \in TurnRecord /\ TurnIs(turn)
    BY DEF TurnInv, TurnIs
  <2>2. still \in BOOLEAN
    BY <1>1 DEF QueryInv, QueryRecord
  <2>3. /\ t \in TurnRecord /\ t.step = "persist" /\ t.auto = hits /\ t.ground = turn.ground
        /\ t.sink = turn.sink /\ t.pool = turn.pool /\ t.last = turn.last
        /\ t.citations = turn.citations
    BY <1>1, <1>3, <2>1, <2>2 DEF TurnRecord, TurnSteps
  <2> QED BY <1>2, <1>3, <2>1, <2>3 DEF TurnIs
<1>5. TurnIs(turn)'
  BY <1>2, <1>4, TurnBecomes DEF knowVars
<1>6. QueryInv'
  BY <1>2, NoQueryKeeps
<1>7. turn'.step = "persist"
  BY <1>1, <1>2 DEF TurnInv, TurnIs, TurnRecord
<1> QED BY <1>5, <1>6, <1>7 DEF TurnInv

\* Steps of the turn that only go to another step, and may ask or stop asking.
LEMMA TurnMovesOn ==
    ASSUME TurnInv, UNCHANGED <<layer, reranker, as, given>>,
           NEW to \in {"engine", "failed"}, to = "engine" => turn.pool = <<>>,
           turn' = [turn EXCEPT !.step = to]
    PROVE  TurnInv'
<1>1. PICK t : t = [turn EXCEPT !.step = to]
  OBVIOUS
<1>2. TurnIs(t)
  <2>1. turn \in TurnRecord /\ TurnIs(turn)
    BY DEF TurnInv, TurnIs
  <2>2. /\ t \in TurnRecord /\ t.step = to /\ t.auto = turn.auto /\ t.ground = turn.ground
        /\ t.sink = turn.sink /\ t.pool = turn.pool /\ t.last = turn.last
        /\ t.citations = turn.citations
    BY <1>1, <2>1 DEF TurnRecord, TurnSteps
  <2> QED BY <2>1, <2>2 DEF TurnIs
<1>3. TurnIs(turn)'
  BY <1>1, <1>2, TurnBecomes
<1>4. turn'.step = to
  BY DEF TurnInv, TurnIs, TurnRecord
<1> QED BY <1>3, <1>4 DEF TurnInv

\* The engine asks.
LEMMA EngineAskKeeps ==
    ASSUME TurnInv, EngineAsk, UNCHANGED <<layer, reranker, as>>
    PROVE  TurnInv' /\ QueryInv'
<1>1. /\ turn' = [turn EXCEPT !.step = "engine"] /\ turn.step = "persist" /\ UNCHANGED knowVars
      /\ query' = Ask(as.ctx, as.filter, AutoLimit)
  BY DEF EngineAsk
<1>2. AutoLimit \in Nat
  BY RetrievalAssumption
<1>3. QueryInv'
  BY <1>1, <1>2, AskKeeps
<1>4. turn.pool = <<>>
  BY <1>1 DEF TurnInv, TurnIs
<1> QED BY <1>1, <1>3, <1>4, TurnMovesOn DEF knowVars

\* The turn fails.
LEMMA TurnFailsKeeps ==
    ASSUME TurnInv, TurnFails, UNCHANGED <<layer, reranker, as>>
    PROVE  TurnInv' /\ QueryInv'
<1>1. turn' = [turn EXCEPT !.step = "failed"] /\ UNCHANGED knowVars /\ query' = NoQuery
  BY DEF TurnFails
<1>2. QueryInv'
  BY <1>1, NoQueryKeeps
<1> QED BY <1>1, <1>2, TurnMovesOn DEF knowVars

\* The first model call is grounded.
LEMMA EngineDoneKeeps ==
    ASSUME TurnInv, QueryInv, EngineDone, UNCHANGED <<layer, reranker, as>>
    PROVE  TurnInv' /\ QueryInv'
<1>1. PICK hits, still, t :
        /\ hits = query.hits
        /\ still = (turn.still /\ query.quiet /\ query.step = "answered" /\ turn.at = ingests)
        /\ t = [turn EXCEPT !.step = "tools", !.ground = hits, !.still = still]
  OBVIOUS
<1>2. /\ turn' = t /\ turn.step = "engine" /\ Answered /\ UNCHANGED knowVars /\ query' = NoQuery
  BY <1>1 DEF EngineDone
<1>3. Shown(hits) /\ hits \in Seq(AnyHit)
  BY <1>1, <1>2, AnswerIsShown
<1>4. TurnIs(t)
  <2>1. turn \in TurnRecord /\ TurnIs(turn)
    BY DEF TurnInv, TurnIs
  <2>2. still \in BOOLEAN
    BY <1>1, <2>1 DEF QueryInv, QueryRecord, TurnRecord
  <2>3. /\ t \in TurnRecord /\ t.step = "tools" /\ t.auto = turn.auto /\ t.ground = hits
        /\ t.sink = turn.sink /\ t.pool = turn.pool /\ t.last = turn.last
        /\ t.citations = turn.citations
    BY <1>1, <1>3, <2>1, <2>2 DEF TurnRecord, TurnSteps
  <2>4. turn.pool = <<>>
    BY <1>2 DEF TurnInv, TurnIs
  <2> QED BY <1>2, <1>3, <2>1, <2>3, <2>4 DEF TurnIs
<1>5. TurnIs(turn)'
  BY <1>2, <1>4, TurnBecomes DEF knowVars
<1>6. QueryInv'
  BY <1>2, NoQueryKeeps
<1>7. turn'.step = "tools"
  BY <1>1, <1>2 DEF TurnInv, TurnIs, TurnRecord
<1> QED BY <1>5, <1>6, <1>7 DEF TurnInv

\* The limit of a search is within bounds.
LEMMA ClampBounds ==
    ASSUME NEW arg \in LimitArgs
    PROVE  ClampLimit(arg) \in 0 .. MaxLimit /\ FetchLimit(ClampLimit(arg)) \in Nat
<1>1. /\ MaxLimit \in Nat /\ DefaultLimit \in 1 .. MaxLimit /\ RerankOverfetch \in Nat
      /\ arg \in Nat \cup {Nil}
  BY RetrievalAssumption
<1>2. PICK limit : limit = ClampLimit(arg)
  OBVIOUS
<1>3. limit \in 0 .. MaxLimit
  BY <1>1, <1>2 DEF ClampLimit, Larger, Smaller
<1>4. limit * RerankOverfetch \in Nat
  BY <1>1, <1>3
<1>5. FetchLimit(limit) \in Nat
  BY <1>1, <1>3, <1>4 DEF FetchLimit
<1> QED BY <1>2, <1>3, <1>5

\* knowledge_search asks.
LEMMA SearchAskKeeps ==
    ASSUME TurnInv, NEW arg \in LimitArgs, SearchAsk(arg), UNCHANGED <<layer, reranker, as>>
    PROVE  TurnInv' /\ QueryInv'
<1>1. PICK limit, fetch, n, t :
        /\ limit = ClampLimit(arg) /\ fetch = FetchLimit(limit) /\ n = turn.searches + 1
        /\ t = [turn EXCEPT !.step = "search", !.searches = n, !.topK = limit]
  OBVIOUS
<1>2. /\ turn' = t /\ turn.step = "tools" /\ UNCHANGED knowVars
      /\ query' = Ask(as.ctx, as.filter, fetch)
  BY <1>1 DEF SearchAsk
<1>3. limit \in 0 .. MaxLimit /\ fetch \in Nat
  BY <1>1, ClampBounds
<1>4. TurnIs(t)
  <2>1. turn \in TurnRecord /\ TurnIs(turn)
    BY DEF TurnInv, TurnIs
  <2>2. n \in Nat
    BY <1>1, <2>1 DEF TurnRecord
  <2>3. /\ t \in TurnRecord /\ t.step = "search" /\ t.auto = turn.auto /\ t.ground = turn.ground
        /\ t.sink = turn.sink /\ t.pool = turn.pool /\ t.last = turn.last
        /\ t.citations = turn.citations
    BY <1>1, <1>3, <2>1, <2>2 DEF TurnRecord, TurnSteps
  <2> QED BY <2>1, <2>3 DEF TurnIs
<1>5. TurnIs(turn)'
  BY <1>2, <1>4, TurnBecomes DEF knowVars
<1>6. QueryInv'
  BY <1>2, <1>3, AskKeeps
<1>7. turn'.step = "search"
  BY <1>1, <1>2 DEF TurnInv, TurnIs, TurnRecord
<1> QED BY <1>5, <1>6, <1>7 DEF TurnInv

\* The candidates arrive.
LEMMA SearchCandidatesKeep ==
    ASSUME TurnInv, QueryInv, SearchCandidates, UNCHANGED <<layer, reranker, as>>
    PROVE  TurnInv' /\ QueryInv'
<1>1. PICK hits, to, none, t :
        /\ hits = query.hits /\ to = (IF query.step = "failed" THEN "tools" ELSE "rerank")
        /\ none = <<>>
        /\ t = [turn EXCEPT !.step = to, !.pool = hits, !.last = none]
  OBVIOUS
<1>2. /\ turn' = t /\ turn.step = "search" /\ Answered /\ UNCHANGED knowVars /\ query' = NoQuery
  BY <1>1 DEF SearchCandidates
<1>3. Shown(hits) /\ hits \in Seq(AnyHit) /\ DistinctDocs(hits) /\ (query.step = "failed" => hits = <<>>)
  BY <1>1, <1>2, AnswerIsShown
<1>4. Shown(none) /\ none \in Seq(AnyHit)
  BY <1>1, NoneIsShown, Zenon DEF Shown
<1>5. to \in {"tools", "rerank"} /\ (to = "tools" => hits = <<>>)
  BY <1>1, <1>3
<1>6. turn \in TurnRecord /\ TurnIs(turn)
  BY DEF TurnInv, TurnIs
<1>7. /\ t \in TurnRecord /\ t.step = to /\ t.auto = turn.auto /\ t.ground = turn.ground
      /\ t.sink = turn.sink /\ t.pool = hits /\ t.last = none
      /\ t.citations = turn.citations
  BY <1>1, <1>3, <1>4, <1>5, <1>6 DEF TurnRecord, TurnSteps
<1>8. TurnIs(t)
  BY <1>3, <1>4, <1>5, <1>6, <1>7 DEF TurnIs
<1>9. TurnIs(turn)'
  BY <1>2, <1>8, TurnBecomes DEF knowVars
<1>10. QueryInv'
  BY <1>2, NoQueryKeeps
<1> QED BY <1>2, <1>5, <1>7, <1>9, <1>10 DEF TurnInv

\* The results are shown.
LEMMA SearchDoneKeeps ==
    ASSUME StoreInv, TurnInv, QueryInv, SearchDone, UNCHANGED <<layer, reranker, as>>
    PROVE  TurnInv' /\ QueryInv'
<1>1. PICK pool, topK, score :
        /\ pool = turn.pool /\ topK = turn.topK
        /\ score = [i \in DOMAIN pool |-> Keyword(pool[i])]
  OBVIOUS
<1>2. turn.step = "rerank" /\ UNCHANGED <<knowVars, query>>
  BY DEF SearchDone
<1>3. PICK results \in OptionalRerank(reranker, pool, topK, score) :
        turn' = [turn EXCEPT !.step = "tools", !.last = results, !.sink = @ \o results]
  BY <1>1 DEF SearchDone
<1>4. turn \in TurnRecord /\ TurnIs(turn) /\ reranker \in Rerankers
  BY DEF TurnInv, TurnIs
<1>5. pool \in Seq(AnyHit) /\ topK \in Nat /\ Shown(pool) /\ Shown(turn.sink)
  BY <1>1, <1>4, RetrievalAssumption DEF TurnIs, TurnRecord
<1>6. score \in [DOMAIN pool -> Int]
  <2>1. \A i \in DOMAIN pool : pool[i] \in AnyHit /\ Known(pool[i])
    BY <1>5, SeqHas DEF Shown
  <2>2. \A i \in DOMAIN pool : Keyword(pool[i]) \in Int
    BY <2>1, KnownHasScores
  <2> QED BY <1>1, <2>2
<1>7. results \in Seq(AnyHit) /\ Reranked(results, pool, topK)
  BY <1>3, <1>4, <1>5, <1>6, StageReranks
<1>8. Shown(results)
  BY <1>5, <1>7, PartIsShown DEF Reranked
<1>9. PICK sink : sink = turn.sink \o results
  OBVIOUS
<1>10. Shown(sink) /\ sink \in Seq(AnyHit)
  <2>1. Shown(sink)
    BY <1>5, <1>8, <1>9, BothAreShown
  <2> QED BY <2>1 DEF Shown
<1>11. PICK t : t = [turn EXCEPT !.step = "tools", !.last = results, !.sink = sink]
  OBVIOUS
<1>12. turn' = t
  BY <1>3, <1>9, <1>11
<1>13. /\ t \in TurnRecord /\ t.step = "tools" /\ t.auto = turn.auto /\ t.ground = turn.ground
       /\ t.sink = sink /\ t.pool = pool /\ t.last = results /\ t.topK = topK
       /\ t.citations = turn.citations
  BY <1>1, <1>4, <1>7, <1>10, <1>11 DEF TurnRecord, TurnSteps
<1>14. TurnIs(t)
  BY <1>1, <1>4, <1>5, <1>7, <1>8, <1>10, <1>13 DEF TurnIs
<1>15. TurnIs(turn)'
  BY <1>2, <1>12, <1>14, TurnBecomes DEF knowVars
<1>16. QueryInv'
  BY <1>2 DEF knowVars, QueryInv, QueryRecord, SideTables, Known, KnownIn, Open, OpenIn
<1> QED BY <1>12, <1>13, <1>15, <1>16 DEF TurnInv

\* The citations are collected.
LEMMA CiteKeeps ==
    ASSUME TurnInv, QueryInv, Cite, UNCHANGED <<layer, reranker, as>>
    PROVE  TurnInv' /\ QueryInv'
<1>1. PICK auto, sink, c, none, t :
        /\ auto = turn.auto /\ sink = turn.sink /\ c = CollectCitations(auto, sink) /\ none = <<>>
        /\ t = [turn EXCEPT !.step = "over", !.pool = none, !.last = none, !.citations = c]
  OBVIOUS
<1>2. turn' = t /\ turn.step = "tools" /\ UNCHANGED <<knowVars, query>>
  BY <1>1 DEF Cite
<1>3. turn \in TurnRecord /\ TurnIs(turn)
  BY DEF TurnInv, TurnIs
<1>4. /\ Shown(auto) /\ Shown(sink) /\ DistinctDocs(auto) /\ Len(auto) <= AutoLimit
      /\ auto \in Seq(AnyHit) /\ sink \in Seq(AnyHit)
  BY <1>1, <1>3 DEF TurnIs, Shown
<1>5. c \in Seq(AnyHit) /\ Sub(c, auto \o sink) /\ Cited(c, auto, sink)
  BY <1>1, <1>4, CitationsAre
<1>6. Shown(c)
  <2>1. Shown(auto \o sink)
    BY <1>4, BothAreShown
  <2> QED BY <1>5, <2>1, PartIsShown
<1>7. Shown(none) /\ none \in Seq(AnyHit) /\ DistinctDocs(none)
  BY <1>1, NoneIsShown, Zenon DEF Shown
<1>8. /\ t \in TurnRecord /\ t.step = "over" /\ t.auto = auto /\ t.ground = turn.ground
      /\ t.sink = sink /\ t.pool = none /\ t.last = none /\ t.citations = c
  BY <1>1, <1>3, <1>5, <1>7 DEF TurnRecord, TurnSteps
<1>9. TurnIs(t)
  BY <1>1, <1>3, <1>4, <1>5, <1>6, <1>7, <1>8 DEF TurnIs
<1>10. TurnIs(turn)'
  BY <1>2, <1>9, TurnBecomes DEF knowVars
<1>11. QueryInv'
  BY <1>2 DEF knowVars, QueryInv, QueryRecord, SideTables, Known, KnownIn, Open, OpenIn
<1> QED BY <1>2, <1>8, <1>10, <1>11 DEF TurnInv

\* Every step of the turn.
LEMMA TurnStepKeeps ==
    ASSUME StoreInv, QueryInv, TurnInv, TurnNext, UNCHANGED <<layer, reranker, as>>
    PROVE  QueryInv' /\ TurnInv' /\ UNCHANGED knowVars
<1>1. UNCHANGED knowVars
  BY DEF TurnNext, MirrorAsk, MirrorDone, EngineAsk, EngineDone, TurnFails, SearchAsk,
         SearchCandidates, SearchDone, Cite
<1> QED BY <1>1, MirrorAskKeeps, MirrorDoneKeeps, EngineAskKeeps, EngineDoneKeeps, TurnFailsKeeps,
           SearchAskKeeps, SearchCandidatesKeep, SearchDoneKeeps, CiteKeeps DEF TurnNext

\* What is in the store, the query and the turn.
RetrievalInv == StoreInv /\ QueryInv /\ TurnInv

\* The knowledge base before the turn.
LEMMA StoreBegins ==
    ASSUME RetrievalInit
    PROVE  StoreInv
<1>1. given \in [Docs -> {<<>>} \cup {<<rev>> : rev \in Revisions}]
  <2>1. given \in Corpora
    BY DEF RetrievalInit
  <2> QED BY <2>1, RetrievalAssumption
<1>2. ASSUME NEW d \in Docs
      PROVE  \/ given[d] = <<>>
             \/ \E rev \in Revisions : given[d] = <<rev>>
  BY <1>1
<1>3. ASSUME NEW d \in Docs
      PROVE  /\ given[d] \in Seq(Revisions) /\ Len(given[d]) \in Nat
             /\ given[d] = <<>> => Len(given[d]) = 0
             /\ given[d] # <<>> => Len(given[d]) = 1 /\ given[d][1] \in Revisions
  <2>1. CASE given[d] = <<>>
    <3>1. <<>> \in Seq(Revisions) /\ Len(<<>>) = 0
      OBVIOUS
    <3> QED BY <2>1, <3>1
  <2>2. CASE given[d] # <<>>
    <3>1. PICK rev \in Revisions : given[d] = <<rev>>
      BY <1>2, <2>2
    <3>2. <<rev>> \in Seq(Revisions) /\ Len(<<rev>>) = 1 /\ <<rev>>[1] = rev
      OBVIOUS
    <3> QED BY <2>2, <3>1, <3>2
  <2> QED BY <2>1, <2>2
<1>4. given \in [Docs -> Seq(Revisions)]
  BY <1>1, <1>3
<1>5. /\ stored = [d \in Docs |-> Len(given[d])] /\ settled = stored
      /\ aclTable = [d \in Docs |->
           IF SideTables /\ given[d] # <<>> /\ given[d][1].acl # Nil THEN 1 ELSE 0]
      /\ metaTable = [d \in Docs |->
           IF layer = "curated" /\ given[d] # <<>> THEN given[d][1] ELSE Nil]
      /\ ingesting = [i \in Ingesters |-> NoIngest] /\ ingests = 0
  BY DEF RetrievalInit
<1>6. \A d \in Docs : /\ stored[d] = Len(given[d]) /\ settled[d] = Len(given[d])
                      /\ aclTable[d] \in Nat /\ aclTable[d] <= Len(given[d])
                      /\ metaTable[d] \in Revisions \cup {Nil}
  BY <1>3, <1>5
<1>7. stored \in [Docs -> Nat] /\ settled \in [Docs -> Nat]
  BY <1>3, <1>5
<1>8. aclTable \in [Docs -> Nat] /\ metaTable \in [Docs -> Revisions \cup {Nil}]
  <2>1. \A d \in Docs : (IF SideTables /\ given[d] # <<>> /\ given[d][1].acl # Nil THEN 1 ELSE 0) \in Nat
    OBVIOUS
  <2>2. aclTable \in [Docs -> Nat]
    BY <1>5, <2>1
  <2>3. \A d \in Docs :
          (IF layer = "curated" /\ given[d] # <<>> THEN given[d][1] ELSE Nil) \in Revisions \cup {Nil}
    BY <1>3
  <2>4. metaTable \in [Docs -> Revisions \cup {Nil}]
    BY <1>5, <2>3
  <2> QED BY <2>2, <2>4
<1>9. /\ ingesting \in [Ingesters -> Ingest \cup {NoIngest}]
      /\ \A i \in Ingesters : ingesting[i].step # "inner"
  BY <1>5 DEF NoIngest
<1>10. SideTables => \A d \in Docs, n \in Nat :
         n > aclTable[d] /\ n <= Len(given[d]) => given[d][n].acl = Nil
  <2> SUFFICES ASSUME SideTables, NEW d \in Docs, NEW n \in Nat,
                      n > aclTable[d], n <= Len(given[d])
               PROVE  given[d][n].acl = Nil
    OBVIOUS
  <2>1. given[d] # <<>> /\ n = 1 /\ aclTable[d] = 0
    BY <1>3, <1>6
  <2>2. aclTable[d] = IF SideTables /\ given[d] # <<>> /\ given[d][1].acl # Nil THEN 1 ELSE 0
    BY <1>5
  <2> QED BY <2>1, <2>2
<1> QED BY <1>4, <1>5, <1>6, <1>7, <1>8, <1>9, <1>10 DEF StoreInv

\* Before the turn there is no query.
LEMMA RetrievalBegins ==
    ASSUME RetrievalInit
    PROVE  RetrievalInv
<1>1. StoreInv
  BY StoreBegins
<1>2. PICK none : none = <<>> /\ none \in Seq(AnyHit) /\ DOMAIN none = {} /\ Len(none) = 0
  <2>1. <<>> \in Seq(AnyHit) /\ DOMAIN <<>> = {} /\ Len(<<>>) = 0
    OBVIOUS
  <2> QED BY <2>1, Zenon
<1>3. /\ query = [step |-> "idle", ctx |-> Nil, filter |-> Nil, limit |-> 0,
                  hits |-> none, scanned |-> 0, quiet |-> FALSE]
      /\ turn = [step |-> "idle", auto |-> none, ground |-> none, sink |-> none,
                 searches |-> 0, topK |-> 0, pool |-> none, last |-> none,
                 citations |-> none, still |-> FALSE, at |-> 0]
  BY <1>2 DEF RetrievalInit, NoQuery, NoTurn
<1>4. QueryInv
  <2>1. query \in QueryRecord
    BY <1>2, <1>3 DEF QueryRecord, QuerySteps
  <2>2. DistinctDocs(none)
    BY <1>2, NoneIsShown
  <2> QED BY <1>2, <1>3, <2>1, <2>2 DEF QueryInv
<1>5. Shown(none) /\ DistinctDocs(none)
  BY <1>2, NoneIsShown
<1>6. reranker \in Rerankers
  <2>1. PICK setup \in Setups : reranker = BuildReranker(setup.mode, setup.keyed)
    BY DEF RetrievalInit
  <2>2. setup.mode \in {"off", "lexical", "gateway"} /\ setup.keyed \in BOOLEAN
    BY RetrievalAssumption
  <2> QED BY <2>1, <2>2, BuiltReranker
<1>7. MaxLimit \in Nat /\ AutoLimit \in Nat
  BY RetrievalAssumption
<1>8. turn \in TurnRecord
  BY <1>2, <1>3, <1>7 DEF TurnRecord, TurnSteps
<1>9. TurnInv
  BY <1>2, <1>3, <1>5, <1>6, <1>7, <1>8 DEF TurnInv, TurnIs
<1> QED BY <1>1, <1>4, <1>9 DEF RetrievalInv

\* Every step keeps what the answers rest on.
LEMMA RetrievalStep ==
    ASSUME RetrievalInv, [RetrievalNext]_retrievalVars
    PROVE  RetrievalInv'
<1>1. StoreInv /\ QueryInv /\ TurnInv
  BY DEF RetrievalInv
<1>2. CASE UNCHANGED <<layer, reranker, as, knowVars, query, turn>>
  <2>1. StoreInv'
    BY <1>1, <1>2 DEF StoreInv, knowVars, SideTables
  <2>2. QueryInv'
    BY <1>1, <1>2 DEF QueryInv, QueryRecord, knowVars, SideTables, Known, KnownIn, Open, OpenIn
  <2>3. PICK t : t = turn
    OBVIOUS
  <2>4. TurnIs(turn)'
    BY <1>1, <1>2, <2>3, TurnBecomes DEF TurnInv, knowVars
  <2> QED BY <1>1, <1>2, <2>1, <2>2, <2>4 DEF RetrievalInv, TurnInv
<1>3. CASE UNCHANGED <<layer, reranker, as>> /\ TurnNext
  <2>1. QueryInv' /\ TurnInv' /\ UNCHANGED knowVars
    BY <1>1, <1>3, TurnStepKeeps
  <2>2. StoreInv'
    BY <1>1, <1>3, <2>1 DEF StoreInv, knowVars, SideTables
  <2> QED BY <2>1, <2>2 DEF RetrievalInv
<1>4. CASE UNCHANGED <<layer, reranker, as, turn>> /\ IngestNext
  <2>1. StoreInv' /\ GivenGrows /\ QueryInv'
    BY <1>1, <1>4, KnowledgeStep, QueryOutlivesIngest
  <2>2. TurnIs(turn)'
    BY <1>1, <1>4, <2>1, TurnOutlives DEF TurnInv
  <2>3. query'.limit = query.limit
    BY <1>1, <1>4, IngestSparesQuery DEF QueryInv, QueryRecord
  <2> QED BY <1>1, <1>4, <2>1, <2>2, <2>3 DEF RetrievalInv, TurnInv
<1>5. CASE UNCHANGED <<layer, reranker, as, turn>> /\ QueryNext
  <2>1. QueryInv' /\ UNCHANGED knowVars /\ query'.limit = query.limit
    BY <1>1, <1>5, QueryStepKeeps
  <2>2. StoreInv'
    BY <1>1, <1>5, <2>1 DEF StoreInv, knowVars, SideTables
  <2>3. PICK t : t = turn
    OBVIOUS
  <2>4. TurnIs(turn)'
    BY <1>1, <1>5, <2>1, <2>3, TurnBecomes DEF TurnInv, knowVars
  <2> QED BY <1>1, <1>5, <2>1, <2>2, <2>4 DEF RetrievalInv, TurnInv
<1> QED BY <1>2, <1>3, <1>4, <1>5 DEF RetrievalNext, retrievalVars

\* What RetrievalInv says of answers and searches is what the runs check.
LEMMA InvShows ==
    ASSUME RetrievalInv
    PROVE  AnswersAreAdmitted /\ RerankKeepsCandidates
<1>1. TurnIs(turn) /\ turn \in TurnRecord
  BY DEF RetrievalInv, TurnInv, TurnIs
<1>2. AnswersAreAdmitted
  <2>1. PICK s : s = turn.auto \o turn.ground \o turn.sink \o turn.citations
    OBVIOUS
  <2>2. Shown(s)
    <3>1. Shown(turn.auto) /\ Shown(turn.ground) /\ Shown(turn.sink) /\ Shown(turn.citations)
      BY <1>1 DEF TurnIs
    <3> QED BY <2>1, <3>1, BothAreShown
  <2>3. \A h \in ToSet(s) : Open(h)
    BY <2>2 DEF ToSet, Shown
  <2> QED BY <2>1, <2>3 DEF AnswersAreAdmitted, Open, OpenIn
<1>3. RerankKeepsCandidates
  <2> SUFFICES ASSUME turn.step = "tools", turn.pool # <<>>
               PROVE  /\ Len(turn.last) = Smaller(turn.topK, Len(turn.pool))
                      /\ ToSet(turn.last) \subseteq ToSet(turn.pool)
                      /\ Cardinality(ToSet(turn.last)) = Len(turn.last)
    BY DEF RerankKeepsCandidates
  <2>1. PICK s, t : s = turn.last /\ t = turn.pool
    OBVIOUS
  <2>2. Sub(s, t) /\ Len(s) = Smaller(turn.topK, Len(t)) /\ DistinctDocs(t) /\ s \in Seq(AnyHit)
    BY <1>1, <2>1 DEF TurnIs, Reranked, TurnRecord
  <2>3. ToSet(s) \subseteq ToSet(t) /\ DistinctDocs(s)
    BY <2>2, SubKeeps
  <2>4. Cardinality(ToSet(s)) = Len(s)
    BY <2>2, <2>3, HitsOfDistinct
  <2> QED BY <2>1, <2>2, <2>3, <2>4
<1> QED BY <1>2, <1>3

\* The invariant of the knowledge base, its query and the turn.
THEOREM RetrievalInvHolds == RetrievalSpec => []RetrievalInv
<1>1. RetrievalInit => RetrievalInv
  BY RetrievalBegins
<1>2. RetrievalInv /\ [RetrievalNext]_retrievalVars => RetrievalInv'
  BY RetrievalStep
<1> QED BY <1>1, <1>2, PTL DEF RetrievalSpec

\* Everything that reaches the model or the citations was open to the
\* requester, whatever is ingested meanwhile (AclReader, CuratedReader, the
\* Postgres and DynamoDB stores).
THEOREM AnswersStayAdmitted == RetrievalSpec => []AnswersAreAdmitted
<1>1. RetrievalInv => AnswersAreAdmitted
  BY InvShows
<1> QED BY <1>1, RetrievalInvHolds, PTL

\* The rerank stage neither loses, repeats nor invents a candidate, whatever
\* the gateway returns (GatewayReranker::reorder, LexicalReranker::rerank).
THEOREM CandidatesSurviveRerank == RetrievalSpec => []RerankKeepsCandidates
<1>1. RetrievalInv => RerankKeepsCandidates
  BY InvShows
<1> QED BY <1>1, RetrievalInvHolds, PTL

-----------------------------------------------------------------------------
(* Undisturbed queries *)

\* No ingest is under way, and every replica has what is stored.
AtRest ==
    /\ layer = "dynamo" => settled = stored
    /\ \A i \in Ingesters : ingesting[i] = NoIngest

\* What a scan collects, in the order of the keys.
Readable == {h \in InStore : Allows(as.ctx, Rev(h).acl)}
KeyOrder(S) == [h \in S |-> {g \in S : g.doc < h.doc}]
InKeyOrder(s, S) ==
    /\ s \in Seq(AnyHit) /\ ToSet(s) = S
    /\ \A i, j \in DOMAIN s : i < j => s[i].doc < s[j].doc

\* The answers of the readers, as functions of the store.
Candidates(limit) == Take(Ranked([h \in Found |-> Keyword(h)], FALSE), CandidateN(limit))
ByAcl(t, limit) == Take(At(t, {k \in DOMAIN t : AclPasses(as.ctx, t[k])}), limit)
Curated(t) ==
    At(t, {k \in DOMAIN t : AclPasses(as.ctx, t[k]) /\ Matches(as.filter, MetaOf(t[k]))})
ByBoost(t, limit) == Take(StableSort(t, [k \in DOMAIN t |-> Boosted(t[k])]), limit)
ByCosine(t, limit) == Take(StableSort(t, [k \in DOMAIN t |-> Cosine(t[k])]), limit)
Reply(limit) ==
    IF layer = "acl" THEN ByAcl(Candidates(limit), limit)
    ELSE IF layer = "curated" THEN ByBoost(Curated(Candidates(limit)), limit)
    ELSE ByCosine(Listing(Readable, KeyOrder(Readable)), limit)

\* Postgres: readable rows, not too many, and all that match unless it is full.
Fused(hits, limit) ==
    /\ ToSet(hits) \subseteq Readable /\ Len(hits) <= limit
    /\ Len(hits) # limit => Found \cap Readable \subseteq ToSet(hits)

\* A query q that nothing has disturbed.
QuietIs(q) ==
    /\ AtRest
    /\ q.step = "fetch" /\ layer = "dynamo" =>
         InKeyOrder(q.hits, {h \in Readable : h.doc <= q.scanned})
    /\ q.step = "filter" => q.hits = Candidates(q.limit)
    /\ q.step = "sparse" => ToSet(q.hits) \subseteq Readable
    /\ q.step = "answered" =>
         IF layer = "postgres" THEN Fused(q.hits, q.limit) ELSE q.hits = Reply(q.limit)

QuietInv == layer \in Layers /\ (query.quiet => QuietIs(query))

\* While the store stands still, so does what the readers see.
LEMMA StoreSame ==
    ASSUME UNCHANGED <<layer, as, given, stored, aclTable, metaTable>>
    PROVE  /\ InStore' = InStore /\ Found' = Found /\ Readable' = Readable
           /\ \A h : /\ Keyword(h)' = Keyword(h) /\ Cosine(h)' = Cosine(h)
                     /\ AclPasses(as.ctx, h)' = AclPasses(as.ctx, h)
                     /\ MetaOf(h)' = MetaOf(h) /\ Boosted(h)' = Boosted(h)
<1>1. InStore' = InStore
  BY DEF InStore
<1>2. \A h : Rev(h)' = Rev(h)
  BY DEF Rev
<1>3. \A h : Keyword(h)' = Keyword(h) /\ Cosine(h)' = Cosine(h)
  BY <1>2 DEF Keyword, Cosine
<1>4. Found' = Found
  BY <1>1, <1>3 DEF Found
<1>5. Readable' = Readable
  BY <1>1, <1>2 DEF Readable
<1>6. \A h : MetaOf(h)' = MetaOf(h)
  BY DEF MetaOf
<1>7. \A h : Boosted(h)' = Boosted(h)
  BY <1>3, <1>6 DEF Boosted
<1>8. \A h : AclPasses(as.ctx, h)' = AclPasses(as.ctx, h)
  BY DEF AclPasses
<1> QED BY <1>1, <1>3, <1>4, <1>5, <1>6, <1>7, <1>8

\* The answer to an undisturbed query depends on the store alone.
LEMMA ReplySame ==
    ASSUME UNCHANGED <<layer, as, given, stored, aclTable, metaTable>>, NEW n
    PROVE  Candidates(n)' = Candidates(n) /\ Reply(n)' = Reply(n)
<1>1. Candidates(n)' = Candidates(n)
  <2>1. PICK f : f = [h \in Found |-> Keyword(h)]
    OBVIOUS
  <2>2. [h \in Found |-> Keyword(h)]' = f
    BY <2>1, StoreSame
  <2> QED BY <2>1, <2>2 DEF Candidates
<1>2. ASSUME NEW t PROVE ByAcl(t, n)' = ByAcl(t, n)
  <2>1. {k \in DOMAIN t : AclPasses(as.ctx, t[k])}' = {k \in DOMAIN t : AclPasses(as.ctx, t[k])}
    BY StoreSame
  <2> QED BY <2>1 DEF ByAcl
<1>3. ASSUME NEW t PROVE Curated(t)' = Curated(t)
  <2>1. {k \in DOMAIN t : AclPasses(as.ctx, t[k]) /\ Matches(as.filter, MetaOf(t[k]))}'
          = {k \in DOMAIN t : AclPasses(as.ctx, t[k]) /\ Matches(as.filter, MetaOf(t[k]))}
    BY StoreSame
  <2> QED BY <2>1 DEF Curated
<1>4. ASSUME NEW t PROVE ByBoost(t, n)' = ByBoost(t, n)
  <2>1. [k \in DOMAIN t |-> Boosted(t[k])]' = [k \in DOMAIN t |-> Boosted(t[k])]
    BY StoreSame
  <2> QED BY <2>1 DEF ByBoost
<1>5. ASSUME NEW t PROVE ByCosine(t, n)' = ByCosine(t, n)
  <2>1. [k \in DOMAIN t |-> Cosine(t[k])]' = [k \in DOMAIN t |-> Cosine(t[k])]
    BY StoreSame
  <2> QED BY <2>1 DEF ByCosine
<1>6. PICK c, l : c = Candidates(n) /\ l = Listing(Readable, KeyOrder(Readable))
  OBVIOUS
<1>7. Candidates(n)' = c /\ Listing(Readable, KeyOrder(Readable))' = l
  BY <1>1, <1>6, StoreSame
<1>8. PICK u : u = Curated(c)
  OBVIOUS
<1>9. /\ ByAcl(c, n)' = ByAcl(c, n) /\ Curated(c)' = u /\ ByBoost(u, n)' = ByBoost(u, n)
      /\ ByCosine(l, n)' = ByCosine(l, n)
  BY <1>2, <1>3, <1>4, <1>5, <1>8
<1> QED BY <1>1, <1>6, <1>7, <1>8, <1>9 DEF Reply

\* What the requester may read has no document twice.
LEMMA ReadableIs ==
    ASSUME StoreInv
    PROVE  /\ Readable \in SUBSET InStore /\ Readable \in SUBSET AnyHit
           /\ IsFiniteSet(Readable) /\ Cardinality(Readable) \in Nat
           /\ \A h \in Readable : Known(h) /\ h.doc \in Docs /\ h.doc \in Nat /\ h.doc > 0
           /\ \A g, h \in Readable : g.doc = h.doc => g = h
<1>1. Readable \in SUBSET InStore
  BY DEF Readable
<1>2. /\ Readable \in SUBSET AnyHit /\ \A h \in Readable : Known(h)
      /\ \A g, h \in Readable : g.doc = h.doc => g = h
  BY <1>1, InStoreIs
<1>3. \A h \in Readable : h.doc \in Docs /\ h.doc \in Nat /\ h.doc > 0
  <2>1. \A h \in Readable : h.doc \in Docs
    BY <1>2 DEF AnyHit
  <2>2. \A d \in Docs : d \in Nat /\ d > 0
    <3>1. Docs \subseteq Nat \ {0}
      BY KnowledgeAssumption
    <3> QED BY <3>1
  <2> QED BY <2>1, <2>2
<1>4. IsFiniteSet(Readable) /\ Cardinality(Readable) \in Nat
  BY <1>2, HitsAreFinite
<1> QED BY <1>1, <1>2, <1>3, <1>4

\* The order of the keys is total.
LEMMA KeysOrder ==
    ASSUME NEW S \in SUBSET AnyHit, \A g, h \in S : g.doc = h.doc => g = h,
           NEW earlier, earlier = KeyOrder(S)
    PROVE  Orders(S, earlier) /\ \A h \in S : earlier[h] = {g \in S : g.doc < h.doc}
<1>1. IsFiniteSet(S) /\ \A h \in S : h.doc \in Nat
  BY HitsAreFinite
<1>2. \A h \in S : earlier[h] = {g \in S : g.doc < h.doc}
  BY DEF KeyOrder
<1>3. Orders(S, earlier)
  <2>1. \A x \in S : earlier[x] \in SUBSET S /\ x \notin earlier[x]
    BY <1>1, <1>2
  <2>2. ASSUME NEW x \in S, NEW y \in S, x # y PROVE x \in earlier[y] \/ y \in earlier[x]
    <3>1. x.doc # y.doc /\ x.doc \in Nat /\ y.doc \in Nat
      BY <1>1, <2>2
    <3>2. x.doc < y.doc \/ y.doc < x.doc
      BY <3>1
    <3> QED BY <1>2, <3>2
  <2>3. ASSUME NEW x \in S, NEW y \in S, x \in earlier[y] PROVE earlier[x] \subseteq earlier[y]
    <3> SUFFICES ASSUME NEW z \in earlier[x] PROVE z \in earlier[y]
      OBVIOUS
    <3>1. z \in S /\ z.doc < x.doc /\ x.doc < y.doc
      BY <1>2, <2>3
    <3>2. z.doc \in Nat /\ x.doc \in Nat /\ y.doc \in Nat
      BY <1>1, <3>1
    <3>3. z.doc < y.doc
      BY <3>1, <3>2
    <3> QED BY <1>2, <3>1, <3>3
  <2> QED BY <1>1, <2>1, <2>2, <2>3 DEF Orders
<1> QED BY <1>2, <1>3

\* Hits in the order of their keys are the listing of them.
LEMMA KeyOrderLists ==
    ASSUME NEW S \in SUBSET AnyHit, \A g, h \in S : g.doc = h.doc => g = h,
           NEW t, InKeyOrder(t, S)
    PROVE  t = Listing(S, KeyOrder(S))
<1>1. PICK earlier : earlier = KeyOrder(S)
  OBVIOUS
<1>2. Orders(S, earlier) /\ \A h \in S : earlier[h] = {g \in S : g.doc < h.doc}
  BY <1>1, KeysOrder
<1>3. PICK m : m = Len(t) /\ m \in Nat /\ DOMAIN t = 1 .. m
  <2>1. Len(t) \in Nat /\ DOMAIN t = 1 .. Len(t)
    BY DEF InKeyOrder
  <2> QED BY <2>1, Zenon
<1>4. \A k \in 1 .. m : t[k] \in S
  BY <1>3 DEF InKeyOrder, ToSet
<1>5. t \in [1 .. m -> S]
  <2>1. t \in Seq(AnyHit)
    BY DEF InKeyOrder
  <2>2. t = [k \in DOMAIN t |-> t[k]]
    BY <2>1
  <2> QED BY <1>3, <1>4, <2>2
<1>6. \A x \in S : \E k \in DOMAIN t : t[k] = x
  BY DEF InKeyOrder, ToSet
<1>7. \A i, j \in DOMAIN t : i < j => t[i] \in earlier[t[j]]
  BY <1>2, <1>3, <1>4 DEF InKeyOrder
<1>8. InOrder(t, S, earlier)
  BY <1>6, <1>7 DEF InOrder
<1> QED BY <1>1, <1>2, <1>3, <1>5, <1>8, ListingIsOnly

\* The listing has each of them once.
LEMMA KeyListing ==
    ASSUME NEW S \in SUBSET AnyHit, \A g, h \in S : g.doc = h.doc => g = h,
           NEW t, t = Listing(S, KeyOrder(S))
    PROVE  t \in Seq(AnyHit) /\ ToSet(t) = S /\ Len(t) = Cardinality(S) /\ Cardinality(S) \in Nat
<1>1. PICK earlier : earlier = KeyOrder(S)
  OBVIOUS
<1>2. Orders(S, earlier)
  BY <1>1, KeysOrder
<1>3. Cardinality(S) \in Nat /\ t \in [1 .. Cardinality(S) -> S] /\ InOrder(t, S, earlier)
  BY <1>1, <1>2, ListingLists
<1>4. PICK c : c = Cardinality(S) /\ c \in Nat
  BY <1>3
<1>5. t \in Seq(S) /\ Len(t) = c /\ DOMAIN t = 1 .. c
  BY <1>3, <1>4
<1>6. t \in Seq(AnyHit)
  BY <1>5
<1>7. \A x \in S : \E k \in DOMAIN t : t[k] = x
  BY <1>3 DEF InOrder
<1>8. ToSet(t) = S
  BY <1>3, <1>4, <1>5, <1>7 DEF ToSet
<1> QED BY <1>4, <1>5, <1>6, <1>8

\* A scan that nothing disturbs collects what is readable up to where it is.
LEMMA QuietScan ==
    ASSUME StoreInv, QueryInv, AtRest, ScanPage, UNCHANGED <<layer, as>>,
           InKeyOrder(query.hits, {h \in Readable : h.doc <= query.scanned})
    PROVE  InKeyOrder(query'.hits, {h \in Readable : h.doc <= query'.scanned})
<1> PICK d \in Docs : \E n \in {stored[d], settled[d]} :
        /\ d > query.scanned /\ \A e \in Docs : e > query.scanned => d <= e
        /\ query'.scanned = d
        /\ query'.hits = IF n > 0 /\ Allows(as.ctx, given[d][n].acl)
                         THEN Append(query.hits, Hit(d, n)) ELSE query.hits
  BY ScanPageKeeps
<1>1. PICK n \in {stored[d], settled[d]} :
        /\ d > query.scanned /\ \A e \in Docs : e > query.scanned => d <= e
        /\ query'.scanned = d
        /\ query'.hits = IF n > 0 /\ Allows(as.ctx, given[d][n].acl)
                         THEN Append(query.hits, Hit(d, n)) ELSE query.hits
  OBVIOUS
<1>2. n = stored[d] /\ n \in Nat
  BY <1>1 DEF ScanPage, AtRest, StoreInv
<1>3. PICK t, s, p : t = query.hits /\ s = query.scanned /\ p = {h \in Readable : h.doc <= s}
  OBVIOUS
<1>4. t \in Seq(AnyHit) /\ ToSet(t) = p /\ \A i, j \in DOMAIN t : i < j => t[i].doc < t[j].doc
  BY <1>3 DEF InKeyOrder
<1>5. s \in Nat /\ d \in Nat
  BY <1>3, KnowledgeAssumption DEF QueryInv, QueryRecord
<1>6. PICK h, u : h = Hit(d, n) /\ u = {g \in Readable : g.doc <= d}
  OBVIOUS
<1>7. h \in AnyHit /\ h.doc = d /\ h.n = n /\ Rev(h) = given[d][n]
  BY <1>2, <1>6 DEF AnyHit, Hit, Rev
<1>8. \A g \in Readable : /\ g.doc \in Docs /\ g.doc \in Nat /\ g \in InStore
                          /\ g.doc = d => g = h
                          /\ g.doc <= d /\ g.doc # d => g.doc <= s
                          /\ g.doc <= s => g.doc < d
  <2> SUFFICES ASSUME NEW g \in Readable
               PROVE  /\ g.doc \in Docs /\ g.doc \in Nat /\ g \in InStore
                      /\ g.doc = d => g = h
                      /\ g.doc <= d /\ g.doc # d => g.doc <= s
                      /\ g.doc <= s => g.doc < d
    OBVIOUS
  <2>1. g.doc \in Docs /\ g.doc \in Nat /\ g \in InStore
    BY ReadableIs
  <2>2. g.doc = d => g = h
    <3>1. PICK e \in Docs : g = Hit(e, stored[e])
      BY <2>1 DEF InStore
    <3>2. g.doc = e
      BY <3>1 DEF Hit
    <3> QED BY <1>2, <1>6, <3>1, <3>2
  <2>3. g.doc <= d /\ g.doc # d => g.doc <= s
    BY <1>1, <1>3, <1>5, <2>1
  <2>4. g.doc <= s => g.doc < d
    BY <1>1, <1>3, <1>5, <2>1
  <2> QED BY <2>1, <2>2, <2>3, <2>4
<1>9. h \in Readable <=> n > 0 /\ Allows(as.ctx, given[d][n].acl)
  <2>1. h \in InStore => n > 0
    <3> SUFFICES ASSUME h \in InStore PROVE n > 0
      OBVIOUS
    <3>1. PICK e \in Docs : h = Hit(e, stored[e]) /\ stored[e] > 0
      BY DEF InStore
    <3> QED BY <1>2, <1>7, <3>1 DEF Hit
  <2>2. n > 0 => h \in InStore
    BY <1>1, <1>2, <1>6 DEF InStore
  <2> QED BY <1>7, <2>1, <2>2 DEF Readable
<1>10. CASE h \in Readable
  <2>1. query'.hits = Append(t, h)
    BY <1>1, <1>3, <1>6, <1>9, <1>10
  <2>2. u = p \cup {h}
    BY <1>3, <1>5, <1>6, <1>7, <1>8, <1>10
  <2>3. PICK m : m = Len(t) /\ m \in Nat /\ DOMAIN t = 1 .. m
    <3>1. Len(t) \in Nat /\ DOMAIN t = 1 .. Len(t)
      BY <1>4
    <3> QED BY <3>1, Zenon
  <2>4. PICK v : v = Append(t, h)
    OBVIOUS
  <2>5. /\ v \in Seq(AnyHit) /\ DOMAIN v = 1 .. m + 1 /\ v[m + 1] = h
        /\ \A k \in 1 .. m : v[k] = t[k]
    BY <1>4, <1>7, <2>3, <2>4
  <2>6. ToSet(v) = ToSet(t) \cup {h}
    <3>1. ToSet(v) = {v[k] : k \in 1 .. m + 1} /\ ToSet(t) = {t[k] : k \in 1 .. m}
      BY <2>3, <2>5 DEF ToSet
    <3>2. \A k \in 1 .. m + 1 : k \in 1 .. m \/ k = m + 1
      BY <2>3
    <3>3. \A k \in 1 .. m : k \in 1 .. m + 1
      BY <2>3
    <3>4. m + 1 \in 1 .. m + 1
      BY <2>3
    <3> QED BY <2>5, <3>1, <3>2, <3>3, <3>4
  <2>7. \A k \in 1 .. m : t[k].doc < d
    <3> SUFFICES ASSUME NEW k \in 1 .. m PROVE t[k].doc < d
      OBVIOUS
    <3>1. t[k] \in p
      BY <1>4, <2>3 DEF ToSet
    <3> QED BY <1>3, <1>8, <3>1
  <2>8. ASSUME NEW i \in DOMAIN v, NEW j \in DOMAIN v, i < j PROVE v[i].doc < v[j].doc
    <3>1. i \in 1 .. m /\ v[i] = t[i] /\ (j \in 1 .. m \/ j = m + 1)
      BY <2>3, <2>5, <2>8
    <3>2. CASE j \in 1 .. m
      BY <1>4, <2>3, <2>5, <2>8, <3>1, <3>2
    <3>3. CASE j = m + 1
      BY <1>7, <2>5, <2>7, <3>1, <3>3
    <3> QED BY <3>1, <3>2, <3>3
  <2>9. InKeyOrder(v, u)
    BY <1>4, <2>2, <2>5, <2>6, <2>8 DEF InKeyOrder
  <2> QED BY <1>1, <1>6, <2>1, <2>4, <2>9
<1>11. CASE h \notin Readable
  <2>1. query'.hits = t
    BY <1>1, <1>3, <1>9, <1>11
  <2>2. u = p
    BY <1>3, <1>5, <1>6, <1>7, <1>8, <1>11
  <2> QED BY <1>1, <1>3, <1>6, <2>1, <2>2
<1> QED BY <1>10, <1>11

\* An ingest that falls into a quiet time has only begun.
LEMMA RestEndsQuiet ==
    ASSUME AtRest, IngestNext
    PROVE  query' = [query EXCEPT !.quiet = FALSE] /\ ingests' = ingests + 1
<1>1. ASSUME NEW i \in Ingesters PROVE ingesting[i].step = "idle"
  BY DEF AtRest, NoIngest
<1>2. ASSUME NEW d \in Docs, Settle(d) PROVE FALSE
  BY <1>2 DEF Settle, AtRest
<1>3. ASSUME NEW i \in Ingesters,
             RecordMeta(i) \/ RecordAcl(i) \/ IngestInner(i) \/ IngestRow(i) \/ IngestFails(i)
      PROVE  FALSE
  BY <1>1, <1>3 DEF RecordMeta, RecordAcl, IngestInner, IngestRow, IngestFails
<1> QED BY <1>2, <1>3 DEF IngestNext, IngestStart, Disturb

\* What is undisturbed stays so while the store stands still.
LEMMA QuietSame ==
    ASSUME UNCHANGED <<layer, as, knowVars>>, NEW q, QuietIs(q)
    PROVE  QuietIs(q)'
<1>1. AtRest'
  BY DEF QuietIs, AtRest, knowVars
<1>2. /\ Readable' = Readable /\ Found' = Found
      /\ UNCHANGED <<layer, as, given, stored, aclTable, metaTable>>
  BY StoreSame DEF knowVars
<1>3. PICK n, hits, to : n = q.limit /\ hits = q.hits /\ to = q.step
  OBVIOUS
<1>4. Candidates(n)' = Candidates(n) /\ Reply(n)' = Reply(n)
  BY <1>2, ReplySame
<1>5. to = "filter" => hits = Candidates(n)'
  BY <1>3, <1>4 DEF QuietIs
<1>6. to = "answered" => IF layer' = "postgres" THEN Fused(hits, n)' ELSE hits = Reply(n)'
  BY <1>2, <1>3, <1>4 DEF QuietIs, Fused
<1>7. to = "fetch" /\ layer' = "dynamo" => InKeyOrder(hits, {h \in Readable : h.doc <= q.scanned})'
  <2>1. PICK S : S = {h \in Readable : h.doc <= q.scanned}
    OBVIOUS
  <2>2. {h \in Readable : h.doc <= q.scanned}' = S
    BY <1>2, <2>1
  <2>3. to = "fetch" /\ layer = "dynamo" => InKeyOrder(hits, S)
    BY <1>3, <2>1 DEF QuietIs
  <2>4. InKeyOrder(hits, S)' <=> InKeyOrder(hits, S)
    BY DEF InKeyOrder
  <2> QED BY <1>2, <2>2, <2>3, <2>4
<1>8. to = "sparse" => ToSet(hits) \subseteq Readable'
  BY <1>2, <1>3 DEF QuietIs
<1>9. /\ (q.step = "fetch" /\ layer = "dynamo" =>
            InKeyOrder(q.hits, {h \in Readable : h.doc <= q.scanned}))'
      /\ (q.step = "filter" => q.hits = Candidates(q.limit))'
      /\ (q.step = "sparse" => ToSet(q.hits) \subseteq Readable)'
      /\ (q.step = "answered" =>
            IF layer = "postgres" THEN Fused(q.hits, q.limit) ELSE q.hits = Reply(q.limit))'
  BY <1>3, <1>5, <1>6, <1>7, <1>8
<1> QED BY <1>1, <1>9 DEF QuietIs

\* An undisturbed query gets new hits.
LEMMA QuietGoesTo ==
    ASSUME QueryInv, UNCHANGED <<layer, as, knowVars>>, QuietIs(query),
           NEW to \in {"filter", "sparse", "answered", "failed"}, NEW hits,
           query' = [query EXCEPT !.step = to, !.hits = hits],
           to = "filter" => hits = Candidates(query.limit),
           to = "sparse" => ToSet(hits) \subseteq Readable,
           to = "answered" => IF layer = "postgres" THEN Fused(hits, query.limit)
                              ELSE hits = Reply(query.limit)
    PROVE  QuietIs(query)'
<1>1. PICK q, n : q = query' /\ n = query.limit
  OBVIOUS
<1>2. q.step = to /\ q.hits = hits /\ q.limit = n
  BY <1>1 DEF QueryInv, QueryRecord
<1>3. QuietIs(q)
  BY <1>1, <1>2 DEF QuietIs
<1>4. QuietIs(q)'
  BY <1>3, QuietSame
<1> QED BY <1>1, <1>4

\* The candidates of the in-memory readers.
LEMMA FetchStaysQuiet ==
    ASSUME StoreInv, QueryInv, FetchCandidates, UNCHANGED <<layer, as>>, QuietIs(query)
    PROVE  QuietIs(query)'
<1>1. PICK hits : hits = Candidates(query.limit)
  OBVIOUS
<1>2. UNCHANGED knowVars /\ query' = [query EXCEPT !.step = "filter", !.hits = hits]
  BY <1>1 DEF FetchCandidates, Candidates
<1> QED BY <1>1, <1>2, QuietGoesTo

\* What they keep of them.
LEMMA FilterStaysQuiet ==
    ASSUME StoreInv, QueryInv, FilterCandidates, UNCHANGED <<layer, as>>, QuietIs(query)
    PROVE  QuietIs(query)'
<1>1. PICK t, n : t = query.hits /\ n = query.limit
  OBVIOUS
<1>2. t = Candidates(n)
  BY <1>1 DEF FilterCandidates, QuietIs
<1>3. query.ctx = as.ctx /\ query.filter = as.filter /\ SideTables /\ query.step = "filter"
  BY DEF FilterCandidates, QueryInv
<1>4. FilterByAcl(query) = ByAcl(t, n)
  BY <1>1, <1>3 DEF FilterByAcl, ByAcl
<1>5. FilterByCuration(query) = ByBoost(Curated(t), n)
  BY <1>1, <1>3 DEF FilterByCuration, ByBoost, Curated
<1>6. PICK hits : hits = Reply(n)
  OBVIOUS
<1>7. hits = IF layer = "acl" THEN FilterByAcl(query) ELSE FilterByCuration(query)
  BY <1>2, <1>3, <1>4, <1>5, <1>6 DEF Reply, SideTables
<1>8. UNCHANGED knowVars /\ query' = [query EXCEPT !.step = "answered", !.hits = hits]
  BY <1>7 DEF FilterCandidates
<1>9. layer # "postgres"
  BY <1>3 DEF SideTables
<1> QED BY <1>1, <1>6, <1>8, <1>9, QuietGoesTo

\* The dense arm has readable rows.
LEMMA DenseStaysQuiet ==
    ASSUME StoreInv, QueryInv, DenseArm, UNCHANGED <<layer, as>>, QuietIs(query)
    PROVE  QuietIs(query)'
<1> PICK seen \in SUBSET InStore :
        query' = [query EXCEPT !.step = "sparse",
                               !.hits = ArmRows([h \in seen |-> Cosine(h)], query)]
  BY DEF DenseArm
<1>1. PICK rows : rows = ArmRows([h \in seen |-> Cosine(h)], query)
  OBVIOUS
<1>2. /\ query.step # "idle" /\ UNCHANGED knowVars
      /\ query' = [query EXCEPT !.step = "sparse", !.hits = rows]
  BY <1>1 DEF DenseArm
<1>3. ToSet(rows) \subseteq Readable
  <2>1. PICK open : open = {h \in seen : Allows(as.ctx, Rev(h).acl)}
    OBVIOUS
  <2>2. ToSet(rows) \subseteq open
    BY <1>1, <1>2, <2>1, DenseScores, ArmGives
  <2> QED BY <2>1, <2>2 DEF Readable
<1> QED BY <1>2, <1>3, QuietGoesTo

\* So has the fusion, and it has what matches.
LEMMA SparseStaysQuiet ==
    ASSUME StoreInv, QueryInv, SparseArm, UNCHANGED <<layer, as>>, QuietIs(query)
    PROVE  QuietIs(query)'
<1>1. PICK rows, dense, n :
        /\ rows = ArmRows([h \in Found |-> Keyword(h)], query) /\ dense = query.hits
        /\ n = query.limit
  OBVIOUS
<1>2. PICK flip \in BOOLEAN :
        query' = [query EXCEPT !.step = "answered", !.hits = Fuse(dense, rows, n, flip)]
  BY <1>1 DEF SparseArm
<1>3. layer = "postgres" /\ query.step = "sparse" /\ UNCHANGED knowVars
  BY DEF SparseArm
<1>4. PICK hits : hits = Fuse(dense, rows, n, flip)
  OBVIOUS
<1>5. rows \in Seq(AnyHit) /\ DistinctDocs(rows) /\ n \in Nat
  BY <1>1, <1>3, SparseScores, ArmGives
<1>6. PICK open : open = {h \in Found : Allows(as.ctx, Rev(h).acl)}
  OBVIOUS
<1>7. dense \in Seq(AnyHit) /\ DistinctDocs(dense) /\ ToSet(dense) \subseteq Readable
  BY <1>1, <1>3 DEF QueryInv, QueryRecord, QuietIs
<1>8. /\ open = Found \cap Readable /\ ToSet(rows) \subseteq open /\ IsFiniteSet(open)
      /\ Cardinality(open) \in Nat
      /\ Len(rows) >= Smaller(n, Cardinality(open)) /\ Len(rows) <= Cardinality(open)
  <2>1. /\ ToSet(rows) \subseteq open /\ IsFiniteSet(open) /\ Cardinality(open) \in Nat
        /\ Len(rows) >= Smaller(n, Cardinality(open)) /\ Len(rows) <= Cardinality(open)
    BY <1>1, <1>3, <1>6, SparseScores, ArmGives
  <2>2. open = Found \cap Readable
    BY <1>6 DEF Readable, Found
  <2> QED BY <2>1, <2>2
<1>9. /\ hits \in Seq(AnyHit) /\ ToSet(hits) \subseteq ToSet(dense) \cup ToSet(rows)
      /\ DistinctDocs(hits) /\ Len(hits) <= n
      /\ FusedOf(hits, dense, rows, n)
  BY <1>4, <1>5, <1>7, FuseGives, Zenon
<1>10. PICK S \in SUBSET (ToSet(dense) \cup ToSet(rows)) :
           /\ \A h \in ToSet(dense) \cup ToSet(rows) : \E g \in S : g.doc = h.doc
           /\ IsFiniteSet(S) /\ Cardinality(S) \in Nat
           /\ ToSet(hits) \subseteq S /\ Len(hits) = Smaller(n, Cardinality(S))
  BY <1>9 DEF FusedOf
<1>11. S \subseteq Readable /\ ToSet(rows) \subseteq Readable
  BY <1>7, <1>8
<1>12. ToSet(rows) \subseteq S
  <2> SUFFICES ASSUME NEW h \in ToSet(rows) PROVE h \in S
    OBVIOUS
  <2>1. PICK g \in S : g.doc = h.doc
    BY <1>10
  <2>2. g = h
    BY <1>11, <2>1, ReadableIs
  <2> QED BY <2>1, <2>2
<1>13. IsFiniteSet(ToSet(rows)) /\ Cardinality(ToSet(rows)) = Len(rows) /\ Len(rows) \in Nat
       /\ Cardinality(ToSet(hits)) = Len(hits) /\ Len(hits) \in Nat
  BY <1>5, <1>9, HitsOfDistinct
<1>14. ASSUME Len(hits) # n PROVE open \subseteq ToSet(hits)
  <2>1. Len(hits) = Cardinality(S) /\ Cardinality(S) < n
    BY <1>5, <1>10, <1>14 DEF Smaller
  <2>2. ToSet(hits) = S
    BY <1>10, <1>13, <2>1, FS_Subset
  <2>3. Len(rows) <= Cardinality(S)
    BY <1>10, <1>12, <1>13, FS_Subset
  <2>4. Len(rows) = Cardinality(open)
    BY <1>5, <1>8, <1>10, <1>13, <2>1, <2>3 DEF Smaller
  <2>5. ToSet(rows) = open
    BY <1>8, <1>13, <2>4, FS_Subset
  <2> QED BY <1>12, <2>2, <2>5
<1>15. ToSet(hits) \subseteq Readable /\ Len(hits) <= n
  BY <1>9, <1>10, <1>11
<1>16. Fused(hits, n)
  BY <1>8, <1>14, <1>15 DEF Fused
<1>17. query' = [query EXCEPT !.step = "answered", !.hits = hits]
  BY <1>2, <1>4
<1> QED BY <1>1, <1>3, <1>16, <1>17, QuietGoesTo

\* A scan that goes on,
LEMMA PageStaysQuiet ==
    ASSUME StoreInv, QueryInv, ScanPage, UNCHANGED <<layer, as>>, QuietIs(query)
    PROVE  QuietIs(query)'
<1>1. PICK q : q = query'
  OBVIOUS
<1>2. /\ UNCHANGED knowVars /\ q.step = "fetch"
  BY <1>1, ScanPageKeeps
<1>3. AtRest /\ InKeyOrder(query.hits, {h \in Readable : h.doc <= query.scanned})
  BY DEF QuietIs, ScanPage
<1>4. InKeyOrder(query'.hits, {h \in Readable : h.doc <= query'.scanned})
  BY <1>3, QuietScan
<1>5. QuietIs(q)
  BY <1>1, <1>2, <1>3, <1>4 DEF QuietIs
<1>6. QuietIs(q)'
  BY <1>2, <1>5, QuietSame
<1> QED BY <1>1, <1>6

\* and one that is over.
LEMMA ScanStaysQuiet ==
    ASSUME StoreInv, QueryInv, ScanDone, UNCHANGED <<layer, as>>, QuietIs(query)
    PROVE  QuietIs(query)'
<1>1. PICK t, n : t = query.hits /\ n = query.limit
  OBVIOUS
<1>2. /\ layer = "dynamo" /\ UNCHANGED knowVars /\ \A d \in Docs : d <= query.scanned
      /\ query.step = "fetch"
  BY DEF ScanDone
<1>3. InKeyOrder(t, {h \in Readable : h.doc <= query.scanned})
  BY <1>1, <1>2 DEF QuietIs
<1>4. {h \in Readable : h.doc <= query.scanned} = Readable
  BY <1>2, ReadableIs
<1>5. t = Listing(Readable, KeyOrder(Readable))
  <2>1. InKeyOrder(t, Readable)
    BY <1>3, <1>4
  <2>2. Readable \in SUBSET AnyHit /\ \A g, h \in Readable : g.doc = h.doc => g = h
    BY ReadableIs
  <2> QED BY <2>1, <2>2, KeyOrderLists
<1>6. Reply(n) = ByCosine(t, n)
  BY <1>2, <1>5 DEF Reply
<1>7. PICK hits : hits = Reply(n)
  OBVIOUS
<1>8. query' = [query EXCEPT !.step = "answered", !.hits = hits]
  BY <1>1, <1>6, <1>7 DEF ScanDone, ByCosine
<1> QED BY <1>1, <1>2, <1>7, <1>8, QuietGoesTo

\* No step of a query disturbs it.
LEMMA QueryStaysQuiet ==
    ASSUME StoreInv, QueryInv, QueryNext, UNCHANGED <<layer, as>>, QuietIs(query)
    PROVE  QuietIs(query)'
<1>1. ASSUME QueryFails PROVE QuietIs(query)'
  <2>1. PICK none : none = <<>>
    OBVIOUS
  <2>2. UNCHANGED knowVars /\ query' = [query EXCEPT !.step = "failed", !.hits = none]
    BY <1>1, <2>1 DEF QueryFails
  <2> QED BY <2>2, QuietGoesTo
<1> QED BY <1>1, FetchStaysQuiet, FilterStaysQuiet, DenseStaysQuiet, SparseStaysQuiet,
           PageStaysQuiet, ScanStaysQuiet DEF QueryNext

\* A query that is asked while the store is at rest has seen nothing yet.
LEMMA AskIsQuiet ==
    ASSUME StoreInv, NEW n \in Nat, query' = Ask(as.ctx, as.filter, n),
           UNCHANGED <<layer, as, knowVars>>, QuietInv
    PROVE  QuietInv' /\ (query'.quiet => AtRest) /\ query'.limit = n
<1>1. PICK q : q = query'
  OBVIOUS
<1>2. /\ q.step = "fetch" /\ q.hits = <<>> /\ q.scanned = 0 /\ q.limit = n
      /\ q.quiet <=> AtRest
  BY <1>1, AskKeeps DEF AtRest
<1>3. {h \in Readable : h.doc <= 0} = {}
  <2>1. \A h \in Readable : h.doc \in Nat /\ h.doc > 0
    BY ReadableIs
  <2> QED BY <2>1
<1>4. InKeyOrder(<<>>, {})
  <2>1. <<>> \in Seq(AnyHit) /\ DOMAIN <<>> = {}
    OBVIOUS
  <2> QED BY <2>1 DEF InKeyOrder, ToSet
<1>5. q.quiet => QuietIs(q)
  BY <1>2, <1>3, <1>4 DEF QuietIs
<1>6. q.quiet => QuietIs(q)'
  BY <1>5, QuietSame
<1> QED BY <1>1, <1>2, <1>6 DEF QuietInv

\* A turn's step asks, or takes an answer, or leaves the query alone.
LEMMA TurnStaysQuiet ==
    ASSUME StoreInv, TurnNext, UNCHANGED <<layer, reranker, as, knowVars>>, QuietInv
    PROVE  QuietInv'
<1>1. ASSUME query' = NoQuery PROVE QuietInv'
  BY <1>1, NoQueryKeeps DEF QuietInv
<1>2. ASSUME query' = query PROVE QuietInv'
  <2>1. PICK q : q = query
    OBVIOUS
  <2>2. q.quiet => QuietIs(q)
    BY <2>1 DEF QuietInv
  <2>3. q.quiet => QuietIs(q)'
    BY <2>2, QuietSame
  <2> QED BY <1>2, <2>1, <2>3 DEF QuietInv
<1>3. ASSUME NEW n \in Nat, query' = Ask(as.ctx, as.filter, n) PROVE QuietInv'
  BY <1>3, AskIsQuiet
<1>4. AutoLimit \in Nat
  BY RetrievalAssumption
<1>5. ASSUME NEW arg \in LimitArgs, SearchAsk(arg) PROVE QuietInv'
  <2>1. PICK n : n = FetchLimit(ClampLimit(arg)) /\ n \in Nat
    BY ClampBounds
  <2> QED BY <1>3, <1>5, <2>1 DEF SearchAsk
<1> QED BY <1>1, <1>2, <1>3, <1>4, <1>5 DEF TurnNext, MirrorAsk, MirrorDone, EngineAsk, EngineDone,
           TurnFails, SearchCandidates, SearchDone, Cite

\* The invariant of undisturbed queries is kept.
LEMMA QuietStep ==
    ASSUME RetrievalInv, QuietInv, [RetrievalNext]_retrievalVars
    PROVE  QuietInv'
<1>1. StoreInv /\ QueryInv /\ TurnInv
  BY DEF RetrievalInv
<1>2. CASE UNCHANGED <<layer, as, knowVars, query>>
  <2>1. PICK q : q = query
    OBVIOUS
  <2>2. q.quiet => QuietIs(q)'
    BY <1>2, <2>1, QuietSame DEF QuietInv
  <2> QED BY <1>2, <2>1, <2>2 DEF QuietInv
<1>3. CASE UNCHANGED <<layer, reranker, as>> /\ TurnNext
  <2>1. UNCHANGED knowVars
    BY <1>1, <1>3, TurnStepKeeps
  <2> QED BY <1>1, <1>3, <2>1, TurnStaysQuiet
<1>4. CASE UNCHANGED <<layer, as>> /\ IngestNext
  <2>1. query.quiet \in BOOLEAN /\ (query.quiet => AtRest)
    BY <1>1 DEF QueryInv, QueryRecord, QuietInv, QuietIs
  <2>2. query'.quiet = FALSE
    <3>1. CASE query.quiet
      BY <1>1, <1>4, <2>1, <3>1, RestEndsQuiet DEF QueryInv, QueryRecord
    <3>2. CASE query.quiet = FALSE
      BY <1>1, <1>4, <3>2, IngestSparesQuery DEF QueryInv, QueryRecord
    <3> QED BY <2>1, <3>1, <3>2
  <2> QED BY <1>4, <2>2 DEF QuietInv
<1>5. CASE UNCHANGED <<layer, as>> /\ QueryNext
  <2>1. query'.quiet = query.quiet
    BY <1>1, <1>5, QueryStepKeeps
  <2>2. query.quiet => QuietIs(query)'
    BY <1>1, <1>5, QueryStaysQuiet DEF QuietInv
  <2> QED BY <1>5, <2>1, <2>2 DEF QuietInv
<1> QED BY <1>2, <1>3, <1>4, <1>5 DEF RetrievalNext, retrievalVars

\* When the store stood still from mirror to engine, both gave the same answer.
StillInv ==
    /\ turn.at <= ingests
    /\ turn.step = "mirror" /\ query.quiet => turn.at = ingests
    /\ turn.step = "engine" => query.limit = AutoLimit
    /\ turn.step \in {"persist", "engine"} /\ turn.still /\ turn.at = ingests =>
         AtRest /\ (layer # "postgres" => turn.auto = Reply(AutoLimit))
    /\ turn.step \in {"tools", "search", "rerank", "over"} /\ turn.still /\ layer # "postgres" =>
         turn.ground = turn.auto

\* While the store stands still.
LEMMA RestSame ==
    ASSUME UNCHANGED <<layer, as, knowVars>>
    PROVE  (AtRest' <=> AtRest) /\ Reply(AutoLimit)' = Reply(AutoLimit)
<1>1. AtRest' <=> AtRest
  BY DEF AtRest, knowVars
<1>2. PICK n : n = AutoLimit
  OBVIOUS
<1>3. Reply(n)' = Reply(n)
  BY ReplySame DEF knowVars
<1> QED BY <1>1, <1>2, <1>3

\* The mirror begins and ends.
LEMMA MirrorIsStill ==
    ASSUME RetrievalInv, QuietInv, StillInv, MirrorAsk \/ MirrorDone, UNCHANGED <<layer, as>>
    PROVE  StillInv'
<1>1. turn \in TurnRecord /\ UNCHANGED knowVars /\ ingests \in Nat
  BY DEF RetrievalInv, StoreInv, TurnInv, TurnIs, MirrorAsk, MirrorDone
<1>2. ingests' = ingests
  BY <1>1 DEF knowVars
<1>3. CASE MirrorAsk
  <2>1. turn'.step = "mirror" /\ turn'.at = ingests
    BY <1>1, <1>3 DEF MirrorAsk, TurnRecord
  <2> QED BY <1>1, <1>2, <2>1 DEF StillInv
<1>4. CASE MirrorDone
  <2>1. /\ turn.step = "mirror" /\ turn'.step = "persist" /\ turn'.auto = query.hits
        /\ turn'.still = (query.quiet /\ query.step = "answered") /\ turn'.at = turn.at
    BY <1>1, <1>4 DEF MirrorDone, TurnRecord
  <2>2. query.limit = AutoLimit
    BY <2>1 DEF RetrievalInv, TurnInv
  <2>3. query.quiet /\ query.step = "answered" =>
          AtRest /\ (layer # "postgres" => query.hits = Reply(AutoLimit))
    BY <2>2 DEF QuietInv, QuietIs
  <2>4. (turn.step \in {"persist", "engine"} /\ turn.still /\ turn.at = ingests =>
           AtRest /\ (layer # "postgres" => turn.auto = Reply(AutoLimit)))'
    BY <1>1, <2>1, <2>3, RestSame
  <2>5. turn'.at <= ingests'
    BY <1>2, <2>1 DEF StillInv
  <2> QED BY <2>1, <2>4, <2>5 DEF StillInv
<1> QED BY <1>3, <1>4

\* So does the engine's own query, and between the two nothing changes.
LEMMA EngineIsStill ==
    ASSUME RetrievalInv, QuietInv, StillInv, EngineAsk \/ EngineDone, UNCHANGED <<layer, as>>
    PROVE  StillInv'
<1>1. turn \in TurnRecord /\ UNCHANGED knowVars /\ ingests' = ingests
  BY DEF RetrievalInv, StoreInv, TurnInv, TurnIs, EngineAsk, EngineDone, knowVars
<1>2. CASE EngineAsk
  <2>1. /\ turn.step = "persist" /\ turn'.step = "engine" /\ turn'.auto = turn.auto
        /\ turn'.still = turn.still /\ turn'.at = turn.at
    BY <1>1, <1>2 DEF EngineAsk, TurnRecord
  <2>2. query'.limit = AutoLimit
    <3>1. AutoLimit \in Nat /\ query' = Ask(as.ctx, as.filter, AutoLimit)
      BY <1>2, RetrievalAssumption DEF EngineAsk
    <3> QED BY <3>1, AskKeeps
  <2>3. (turn.step \in {"persist", "engine"} /\ turn.still /\ turn.at = ingests =>
           AtRest /\ (layer # "postgres" => turn.auto = Reply(AutoLimit)))'
    BY <1>1, <2>1, RestSame DEF StillInv
  <2> QED BY <1>1, <2>1, <2>2, <2>3 DEF StillInv
<1>3. CASE EngineDone
  <2>1. /\ turn.step = "engine" /\ turn'.step = "tools" /\ turn'.auto = turn.auto
        /\ turn'.ground = query.hits /\ turn'.at = turn.at
        /\ turn'.still = (turn.still /\ query.quiet /\ query.step = "answered" /\ turn.at = ingests)
    BY <1>1, <1>3 DEF EngineDone, TurnRecord
  <2>2. query.limit = AutoLimit
    BY <2>1 DEF StillInv
  <2>3. query.quiet /\ query.step = "answered" /\ layer # "postgres" =>
          query.hits = Reply(AutoLimit)
    BY <2>2 DEF QuietInv, QuietIs
  <2>4. turn.still /\ turn.at = ingests /\ layer # "postgres" => turn.auto = Reply(AutoLimit)
    BY <2>1 DEF StillInv
  <2>5. turn'.still /\ layer # "postgres" => turn'.ground = turn'.auto
    BY <2>1, <2>3, <2>4
  <2> QED BY <1>1, <2>1, <2>5 DEF StillInv
<1> QED BY <1>2, <1>3

\* After that both answers stay as they are.
LEMMA ToolsAreStill ==
    ASSUME RetrievalInv, StillInv, UNCHANGED <<layer, as>>,
           \/ TurnFails \/ SearchCandidates \/ SearchDone \/ Cite
           \/ \E arg \in LimitArgs : SearchAsk(arg)
    PROVE  StillInv'
<1>1. turn \in TurnRecord
  BY DEF RetrievalInv, TurnInv, TurnIs
<1>2. /\ turn'.auto = turn.auto /\ turn'.ground = turn.ground /\ turn'.still = turn.still
      /\ turn'.at = turn.at /\ ingests' = ingests
      /\ \/ turn'.step = "failed"
         \/ /\ turn'.step \in {"tools", "search", "rerank", "over"}
            /\ turn.step \in {"tools", "search", "rerank", "over"}
  <2>1. CASE TurnFails
    BY <1>1, <2>1 DEF TurnFails, TurnRecord, knowVars
  <2>2. CASE SearchCandidates
    BY <1>1, <2>2 DEF SearchCandidates, TurnRecord, knowVars
  <2>3. CASE SearchDone
    BY <1>1, <2>3 DEF SearchDone, TurnRecord, knowVars
  <2>4. CASE Cite
    BY <1>1, <2>4 DEF Cite, TurnRecord, knowVars
  <2>5. ASSUME NEW arg \in LimitArgs, SearchAsk(arg)
        PROVE  /\ turn'.auto = turn.auto /\ turn'.ground = turn.ground /\ turn'.still = turn.still
               /\ turn'.at = turn.at /\ ingests' = ingests
               /\ turn'.step = "search" /\ turn.step = "tools"
    BY <1>1, <2>5 DEF SearchAsk, TurnRecord, knowVars
  <2> QED BY <2>1, <2>2, <2>3, <2>4, <2>5
<1> QED BY <1>2 DEF StillInv

\* The invariant of the two answers is kept.
LEMMA StillStep ==
    ASSUME RetrievalInv, QuietInv, StillInv, [RetrievalNext]_retrievalVars
    PROVE  StillInv'
<1>1. StoreInv /\ QueryInv /\ TurnInv /\ turn \in TurnRecord /\ ingests \in Nat /\ turn.at \in Nat
  BY DEF RetrievalInv, TurnInv, TurnIs, TurnRecord, StoreInv
<1>2. CASE UNCHANGED <<layer, as, knowVars, query, turn>>
  BY <1>2, RestSame DEF StillInv, knowVars
<1>3. CASE UNCHANGED <<layer, as>> /\ TurnNext
  BY <1>3, MirrorIsStill, EngineIsStill, ToolsAreStill DEF TurnNext
<1>4. CASE UNCHANGED <<layer, as, turn>> /\ IngestNext
  <2>1. query'.limit = query.limit /\ query.quiet \in BOOLEAN /\ query'.quiet \in BOOLEAN
    BY <1>1, <1>4, IngestSparesQuery DEF QueryInv, QueryRecord
  <2>2. ingests' = ingests \/ ingests' = ingests + 1
    BY <1>4 DEF IngestNext, IngestStart, RecordMeta, RecordAcl, IngestInner, IngestRow,
                IngestFails, Settle
  <2>3. AtRest => ingests' = ingests + 1 /\ query'.quiet = FALSE
    BY <1>1, <1>4, RestEndsQuiet DEF QueryInv, QueryRecord
  <2>4. query'.quiet => query.quiet
    BY <1>1, <1>4, IngestSparesQuery DEF QueryInv, QueryRecord
  <2>5. query.quiet => AtRest
    BY DEF QuietInv, QuietIs
  <2>6. ~query'.quiet
    BY <2>3, <2>4, <2>5
  <2>7. turn'.at <= ingests'
    BY <1>1, <1>4, <2>2 DEF StillInv
  <2>8. ~(turn.step \in {"persist", "engine"} /\ turn.still /\ turn.at = ingests)'
    <3> SUFFICES ASSUME turn.step \in {"persist", "engine"}, turn.still, turn.at = ingests'
                 PROVE  FALSE
      BY <1>4
    <3>1. ingests' = ingests /\ turn.at = ingests
      BY <1>1, <2>2 DEF StillInv
    <3>2. AtRest
      BY <3>1 DEF StillInv
    <3> QED BY <1>1, <2>3, <3>1, <3>2
  <2> QED BY <1>4, <2>1, <2>6, <2>7, <2>8 DEF StillInv
<1>5. CASE UNCHANGED <<layer, as, turn>> /\ QueryNext
  <2>1. query'.quiet = query.quiet /\ query'.limit = query.limit /\ UNCHANGED knowVars
    BY <1>1, <1>5, QueryStepKeeps
  <2> QED BY <1>5, <2>1, RestSame DEF StillInv, knowVars
<1> QED BY <1>2, <1>3, <1>4, <1>5 DEF RetrievalNext, retrievalVars

\* Both hold at the beginning.
LEMMA QuietBegins ==
    ASSUME RetrievalInit
    PROVE  QuietInv /\ StillInv
<1>1. query = NoQuery /\ turn = NoTurn /\ ingests = 0
  BY DEF RetrievalInit
<1>2. query.quiet = FALSE /\ turn.step = "idle" /\ turn.at = 0
  BY <1>1 DEF NoQuery, NoTurn
<1>3. layer \in Layers
  <2>1. PICK setup \in Setups : layer = setup.layer
    BY DEF RetrievalInit
  <2> QED BY <2>1, RetrievalAssumption
<1> QED BY <1>1, <1>2, <1>3 DEF QuietInv, StillInv

\* What the turn cites covers what it was grounded with.
LEMMA StillShows ==
    ASSUME RetrievalInv, StillInv
    PROVE  CitationsCoverSources
<1> SUFFICES ASSUME turn.step = "over"
             PROVE  /\ Cardinality(DocsIn(turn.citations)) = Len(turn.citations)
                    /\ Len(turn.citations) < MaxCitations =>
                         DocsIn(turn.sink) \subseteq DocsIn(turn.citations)
                    /\ Len(turn.citations) >=
                         Smaller(MaxCitations, Cardinality(DocsIn(turn.auto \o turn.sink)))
                    /\ turn.still /\ layer # "postgres" /\ AutoLimit <= MaxCitations =>
                         DocsIn(turn.ground) \subseteq DocsIn(turn.citations)
  BY DEF CitationsCoverSources
<1>1. Cited(turn.citations, turn.auto, turn.sink)
  BY DEF RetrievalInv, TurnInv, TurnIs
<1>2. turn.still /\ layer # "postgres" => turn.ground = turn.auto
  BY DEF StillInv
<1> QED BY <1>1, <1>2 DEF Cited

\* The invariant of undisturbed queries and of turns that saw none disturbed.
THEOREM QuietInvHolds == RetrievalSpec => [](RetrievalInv /\ QuietInv /\ StillInv)
<1>1. RetrievalInit => QuietInv /\ StillInv
  BY QuietBegins
<1>2. RetrievalInv /\ QuietInv /\ StillInv /\ [RetrievalNext]_retrievalVars => QuietInv' /\ StillInv'
  BY QuietStep, StillStep
<1> QED BY <1>1, <1>2, RetrievalInvHolds, PTL DEF RetrievalSpec

\* The citations of a turn name its sources: no document twice, every document
\* a search returned unless the cap is reached, and every document the first
\* model call was grounded with, when nothing was ingested from the mirror to
\* the engine's own query (collect_citations, auto_sources).
THEOREM SourcesAreCited == RetrievalSpec => []CitationsCoverSources
<1>1. RetrievalInv /\ StillInv => CitationsCoverSources
  BY StillShows
<1> QED BY <1>1, QuietInvHolds, PTL

-----------------------------------------------------------------------------
(* The best documents *)

\* A list of hits by a score, best first,
Falling(s, score) == \A i, j \in DOMAIN s : i < j => score[s[i]] >= score[s[j]]

\* and the n best of a set: as many as there are, none worse than one left out.
IsBest(s, S, n, score) ==
    /\ ToSet(s) \subseteq S /\ Len(s) = Smaller(n, Cardinality(S))
    /\ \A h \in ToSet(s), g \in S \ ToSet(s) : score[h] >= score[g]
    /\ Falling(s, score)

\* What a filter and a sort make of a list.
Filtered(s, t, E) ==
    /\ s \in Seq(AnyHit) /\ Sub(s, t) /\ ToSet(s) = ToSet(t) \cap E
    /\ \A score : Falling(t, score) => Falling(s, score)
Sorted(s, t, score) ==
    s \in Seq(AnyHit) /\ Sub(s, t) /\ ToSet(s) = ToSet(t) /\ Falling(s, score)

\* A filter keeps the order, and what it lets pass.
LEMMA FilterIsFalling ==
    ASSUME NEW t \in Seq(AnyHit), NEW E,
           NEW places, places = {k \in DOMAIN t : t[k] \in E}, NEW s, s = At(t, places)
    PROVE  Filtered(s, t, E)
<1>1. s \in Seq(AnyHit) /\ Sub(s, t)
  BY AtIsSub
<1>2. PICK n, order : Picks(s, t, order, n, places) /\ Rising(order) /\ n \in Nat
  <2>1. places \in SUBSET DOMAIN t
    OBVIOUS
  <2>2. Cardinality(places) \in 0 .. Len(t)
    BY <2>1, AtPicks
  <2>3. \E order : Picks(s, t, order, Cardinality(places), places) /\ Rising(order)
    BY <2>1, AtPicks, Zenon
  <2>4. Cardinality(places) \in Nat
    BY <2>2
  <2> QED BY <2>3, <2>4, Zenon
<1>3. /\ order \in [1 .. n -> places] /\ DOMAIN s = 1 .. n
      /\ \A p \in places : \E k \in 1 .. n : order[k] = p
      /\ \A k \in 1 .. n : s[k] = t[order[k]]
      /\ \A i, j \in 1 .. n : i < j => order[i] < order[j]
  BY <1>2 DEF Picks, Rising
<1>4. ToSet(s) = ToSet(t) \cap E
  <2>1. ASSUME NEW k \in 1 .. n PROVE s[k] \in ToSet(t) \cap E
    BY <1>3 DEF ToSet
  <2>2. ASSUME NEW p \in DOMAIN t, t[p] \in E PROVE \E k \in 1 .. n : s[k] = t[p]
    <3>1. p \in places
      BY <2>2
    <3> QED BY <1>3, <3>1
  <2>3. \A x \in ToSet(t) \cap E : \E p \in DOMAIN t : t[p] = x
    BY DEF ToSet
  <2>4. \A x \in ToSet(t) \cap E : \E k \in 1 .. n : s[k] = x
    BY <2>2, <2>3
  <2>5. ToSet(s) = {s[k] : k \in 1 .. n}
    BY <1>3 DEF ToSet
  <2> QED BY <2>1, <2>4, <2>5
<1>5. ASSUME NEW score, Falling(t, score) PROVE Falling(s, score)
  <2> SUFFICES ASSUME NEW i \in 1 .. n, NEW j \in 1 .. n, i < j
               PROVE  score[s[i]] >= score[s[j]]
    BY <1>3 DEF Falling
  <2>1. /\ order[i] \in DOMAIN t /\ order[j] \in DOMAIN t /\ order[i] < order[j]
        /\ s[i] = t[order[i]] /\ s[j] = t[order[j]]
    BY <1>3
  <2> QED BY <1>5, <2>1 DEF Falling
<1> QED BY <1>1, <1>4, <1>5 DEF Filtered

\* Sorting by a score orders the same elements by it.
LEMMA SortIsFalling ==
    ASSUME NEW t \in Seq(AnyHit), NEW value, \A k \in DOMAIN t : value[t[k]] \in Int,
           NEW score, score = [k \in DOMAIN t |-> value[t[k]]], NEW s, s = StableSort(t, score)
    PROVE  Sorted(s, t, value)
<1>1. score \in [DOMAIN t -> Int]
  OBVIOUS
<1>2. s \in Seq(AnyHit) /\ Sub(s, t)
  BY <1>1, StableSortIsSub
<1>3. PICK order : /\ Picks(s, t, order, Len(t), DOMAIN t)
                   /\ \A i, j \in DOMAIN t : i < j => score[order[i]] >= score[order[j]]
  BY <1>1, StableSortPicks
<1>4. PICK n : n \in Nat /\ n = Len(t) /\ DOMAIN t = 1 .. n
  <2>1. Len(t) \in Nat /\ DOMAIN t = 1 .. Len(t)
    OBVIOUS
  <2> QED BY <2>1, Zenon
<1>5. /\ order \in [1 .. n -> 1 .. n] /\ DOMAIN s = 1 .. n
      /\ \A p \in 1 .. n : \E k \in 1 .. n : order[k] = p
      /\ \A k \in 1 .. n : s[k] = t[order[k]]
  BY <1>3, <1>4 DEF Picks
<1>6. ToSet(s) = ToSet(t)
  <2>1. \A k \in 1 .. n : s[k] \in ToSet(t)
    <3>1. ASSUME NEW k \in 1 .. n PROVE s[k] \in ToSet(t)
      <4>1. order[k] \in DOMAIN t /\ s[k] = t[order[k]]
        BY <1>4, <1>5
      <4> QED BY <4>1 DEF ToSet
    <3> QED BY <3>1
  <2>2. \A p \in 1 .. n : \E k \in 1 .. n : s[k] = t[p]
    BY <1>5
  <2>3. ToSet(s) = {s[k] : k \in 1 .. n} /\ ToSet(t) = {t[p] : p \in 1 .. n}
    <3>1. ToSet(s) = {s[k] : k \in 1 .. n}
      BY <1>5 DEF ToSet
    <3>2. ToSet(t) = {t[p] : p \in 1 .. n}
      BY <1>4 DEF ToSet
    <3> QED BY <3>1, <3>2
  <2>4. ToSet(s) \subseteq ToSet(t)
    BY <2>1, <2>3
  <2>5. ASSUME NEW x \in ToSet(t) PROVE x \in ToSet(s)
    <3>1. PICK p \in 1 .. n : t[p] = x
      BY <2>3
    <3> QED BY <2>2, <2>3, <3>1
  <2> QED BY <2>4, <2>5
<1>7. Falling(s, value)
  <2> SUFFICES ASSUME NEW i \in 1 .. n, NEW j \in 1 .. n, i < j
               PROVE  value[s[i]] >= value[s[j]]
    BY <1>5 DEF Falling
  <2>1. /\ order[i] \in 1 .. n /\ order[j] \in 1 .. n /\ score[order[i]] >= score[order[j]]
        /\ s[i] = t[order[i]] /\ s[j] = t[order[j]]
    BY <1>3, <1>4, <1>5
  <2>2. score[order[i]] = value[s[i]] /\ score[order[j]] = value[s[j]]
    BY <1>4, <2>1
  <2> QED BY <2>1, <2>2
<1> QED BY <1>2, <1>6, <1>7 DEF Sorted

\* The front of an ordered list that begins with the best of a set.
LEMMA FrontIsBest ==
    ASSUME NEW E \in SUBSET AnyHit, Cardinality(E) \in Nat, NEW u \in Seq(AnyHit),
           ToSet(u) \subseteq E, NEW score \in [E -> Int], Falling(u, score),
           \A h \in ToSet(u), g \in E \ ToSet(u) : score[h] >= score[g],
           NEW n \in Nat, Len(u) >= Smaller(n, Cardinality(E)), Len(u) <= Cardinality(E),
           NEW s, s = Take(u, n)
    PROVE  IsBest(s, E, n, score)
<1>1. PICK m, c : m = Len(u) /\ c = Cardinality(E) /\ m \in Nat /\ c \in Nat /\ DOMAIN u = 1 .. m
  <2>1. Len(u) \in Nat /\ DOMAIN u = 1 .. Len(u)
    OBVIOUS
  <2> QED BY <2>1, Zenon
<1>2. PICK l : l = Len(s) /\ l \in Nat /\ l = Smaller(n, m) /\ DOMAIN s = 1 .. l /\ l <= m
               /\ \A k \in 1 .. l : s[k] = u[k]
  <2>1. /\ Len(s) \in Nat /\ Len(s) = Smaller(n, Len(u)) /\ Len(s) <= Len(u)
        /\ s \in Seq(AnyHit) /\ \A k \in 1 .. Len(s) : s[k] = u[k]
    BY TakeIsFront
  <2>2. DOMAIN s = 1 .. Len(s)
    BY <2>1, SeqHas
  <2> QED BY <1>1, <2>1, <2>2, Zenon
<1>3. l = Smaller(n, c)
  BY <1>1, <1>2 DEF Smaller
<1>4. ToSet(s) \subseteq ToSet(u)
  BY <1>1, <1>2 DEF ToSet
<1>5. Falling(s, score)
  BY <1>1, <1>2 DEF Falling
<1>6. ASSUME NEW h \in ToSet(s), NEW g \in E \ ToSet(s) PROVE score[h] >= score[g]
  <2>1. CASE g \notin ToSet(u)
    BY <1>4, <2>1
  <2>2. CASE g \in ToSet(u)
    <3>1. PICK i \in 1 .. l, j \in 1 .. m : s[i] = h /\ u[j] = g
      BY <1>1, <1>2, <2>2 DEF ToSet
    <3>2. j \notin 1 .. l
      BY <1>2, <3>1 DEF ToSet
    <3>3. i < j /\ i \in 1 .. m /\ u[i] = h
      BY <1>1, <1>2, <3>1, <3>2
    <3> QED BY <1>1, <3>1, <3>3 DEF Falling
  <2> QED BY <2>1, <2>2
<1> QED BY <1>1, <1>2, <1>3, <1>4, <1>5, <1>6 DEF IsBest

\* The pool of the in-memory readers has the best of what a search finds.
LEMMA CandidatesAre ==
    ASSUME StoreInv, NEW n \in Nat, NEW c, c = Candidates(n),
           NEW value, value = [h \in Found |-> Keyword(h)]
    PROVE  /\ c \in Seq(AnyHit) /\ DistinctDocs(c) /\ value \in [Found -> Int]
           /\ CandidateN(n) \in Nat /\ IsBest(c, Found, CandidateN(n), value)
<1>1. PICK r, m : r = Ranked(value, FALSE) /\ m = CandidateN(n)
  OBVIOUS
<1>2. c = Take(r, m)
  BY <1>1 DEF Candidates
<1>3. /\ Found \in SUBSET AnyHit /\ r \in Seq(AnyHit) /\ ToSet(r) = Found
      /\ Len(r) = Cardinality(Found) /\ Cardinality(Found) \in Nat /\ DistinctDocs(r)
      /\ \A k \in DOMAIN r : r[k] \in Found
      /\ \A i, j \in 1 .. Len(r) : i < j => Keyword(r[i]) >= Keyword(r[j])
  <2>1. r = Ranked([h \in Found |-> Keyword(h)], FALSE)
    BY <1>1
  <2> QED BY <2>1, FoundRanks
<1>4. value \in [Found -> Int]
  BY SparseScores
<1>5. m \in Nat
  <2>1. OverfetchFactor \in Nat /\ OverfetchFloor \in Nat
    BY KnowledgeAssumption
  <2>2. n * OverfetchFactor \in Nat
    BY <2>1
  <2> QED BY <1>1, <2>1, <2>2 DEF CandidateN, Larger
<1>6. Falling(r, value)
  <2>1. DOMAIN r = 1 .. Len(r)
    BY <1>3, SeqHas
  <2> QED BY <1>3, <2>1 DEF Falling
<1>7. c \in Seq(AnyHit) /\ DistinctDocs(c)
  BY <1>2, <1>3, <1>5, TakeIsSub, SubKeeps
<1>8. IsBest(c, Found, m, value)
  <2>1. Len(r) >= Smaller(m, Cardinality(Found)) /\ Len(r) <= Cardinality(Found)
    BY <1>3, <1>5 DEF Smaller
  <2>2. ToSet(r) \subseteq Found /\ \A h \in ToSet(r), g \in Found \ ToSet(r) : value[h] >= value[g]
    BY <1>3
  <2> QED BY <1>2, <1>3, <1>4, <1>5, <1>6, <2>1, <2>2, FrontIsBest
<1> QED BY <1>1, <1>4, <1>5, <1>7, <1>8

\* What does not get into the pool is crowded out of it.
LEMMA PoolIsCrowded ==
    ASSUME StoreInv, NEW n \in Nat, NEW c, c = Candidates(n), NEW g \in Found \ ToSet(c)
    PROVE  Cardinality({h \in InStore \ {g} : Keyword(h) >= Keyword(g)}) >= CandidateN(n)
<1>1. PICK value, m : value = [h \in Found |-> Keyword(h)] /\ m = CandidateN(n)
  OBVIOUS
<1>2. PICK crowd : crowd = {h \in InStore \ {g} : Keyword(h) >= Keyword(g)}
  OBVIOUS
<1>3. /\ c \in Seq(AnyHit) /\ DistinctDocs(c) /\ m \in Nat
      /\ ToSet(c) \subseteq Found /\ Len(c) = Smaller(m, Cardinality(Found))
      /\ \A h \in ToSet(c) : value[h] >= value[g]
  BY <1>1, CandidatesAre DEF IsBest
<1>4. Found \subseteq InStore /\ InStore \in SUBSET AnyHit
  BY InStoreIs DEF Found
<1>5. ToSet(c) \subseteq crowd
  BY <1>1, <1>2, <1>3, <1>4
<1>6. /\ IsFiniteSet(Found) /\ IsFiniteSet(crowd)
      /\ Cardinality(Found) \in Nat /\ Cardinality(crowd) \in Nat
  <2>1. IsFiniteSet(InStore)
    BY InStoreIs, HitsAreFinite
  <2>2. IsFiniteSet(Found) /\ IsFiniteSet(crowd)
    BY <1>2, <1>4, <2>1, FS_Subset
  <2> QED BY <2>2, FS_CardinalityType
<1>7. Cardinality(ToSet(c)) = Len(c) /\ Len(c) \in Nat
  BY <1>3, HitsOfDistinct
<1>8. Len(c) = m
  <2>1. CASE Len(c) = Cardinality(Found)
    <3>1. ToSet(c) = Found
      BY <1>3, <1>6, <1>7, <2>1, FS_Subset
    <3> QED BY <3>1
  <2> QED BY <1>3, <1>6, <2>1 DEF Smaller
<1>9. Cardinality(ToSet(c)) <= Cardinality(crowd)
  BY <1>5, <1>6, FS_Subset
<1> QED BY <1>1, <1>2, <1>7, <1>8, <1>9

\* The best of a set are all of it, unless they are as many as asked for.
LEMMA FullOrAll ==
    ASSUME NEW S, IsFiniteSet(S), NEW n \in Nat, NEW score, NEW s \in Seq(AnyHit), DistinctDocs(s),
           IsBest(s, S, n, score)
    PROVE  Len(s) <= n /\ (Len(s) # n => ToSet(s) = S)
<1>1. Cardinality(ToSet(s)) = Len(s) /\ Len(s) \in Nat
  BY HitsOfDistinct
<1>2. Cardinality(S) \in Nat /\ ToSet(s) \subseteq S /\ Len(s) = Smaller(n, Cardinality(S))
  BY FS_CardinalityType DEF IsBest
<1>3. CASE Len(s) = Cardinality(S)
  <2>1. ToSet(s) = S
    BY <1>1, <1>2, <1>3, FS_Subset
  <2> QED BY <1>2, <2>1 DEF Smaller
<1> QED BY <1>1, <1>2, <1>3 DEF Smaller

\* The answer behind the access lists is the best of what the pool has of the
\* documents they let pass.
LEMMA ByAclIsBest ==
    ASSUME StoreInv, NEW n \in Nat, NEW E, E = {h \in InStore : Keyword(h) > 0 /\ AclPasses(as.ctx, h)},
           NEW K, K = ToSet(Candidates(n)) \cap E, NEW score, score = [h \in K |-> Keyword(h)],
           NEW s, s = ByAcl(Candidates(n), n)
    PROVE  IsFiniteSet(K) /\ IsBest(s, K, n, score)
<1>1. PICK c, value : c = Candidates(n) /\ value = [h \in Found |-> Keyword(h)]
  OBVIOUS
<1>2. /\ c \in Seq(AnyHit) /\ DistinctDocs(c) /\ value \in [Found -> Int]
      /\ ToSet(c) \subseteq Found /\ Falling(c, value)
  BY <1>1, CandidatesAre DEF IsBest
<1>3. PICK places : places = {k \in DOMAIN c : AclPasses(as.ctx, c[k])}
  OBVIOUS
<1>4. PICK u : u = At(c, places)
  OBVIOUS
<1>5. s = Take(u, n)
  BY <1>1, <1>3, <1>4 DEF ByAcl
<1>6. InStore \in SUBSET AnyHit /\ \A h \in Found : h \in E <=> AclPasses(as.ctx, h)
  BY InStoreIs DEF Found
<1>7. places = {k \in DOMAIN c : c[k] \in E}
  <2>1. \A k \in DOMAIN c : c[k] \in Found
    BY <1>2 DEF ToSet
  <2> QED BY <1>3, <1>6, <2>1
<1>8. u \in Seq(AnyHit) /\ Sub(u, c) /\ ToSet(u) = K /\ Falling(u, value)
  <2>1. Filtered(u, c, E)
    BY <1>2, <1>4, <1>7, FilterIsFalling
  <2> QED BY <1>1, <1>2, <2>1 DEF Filtered
<1>9. DistinctDocs(u)
  BY <1>2, <1>8, SubKeeps
<1>10. IsFiniteSet(K) /\ Cardinality(K) = Len(u) /\ Len(u) \in Nat
  BY <1>8, <1>9, HitsOfDistinct
<1>11. score \in [K -> Int] /\ Falling(u, score)
  <2>1. \A h \in K : Keyword(h) = value[h] /\ value[h] \in Int
    BY <1>1, <1>2
  <2>2. score \in [K -> Int] /\ \A h \in K : score[h] = value[h]
    BY <2>1
  <2>3. \A k \in DOMAIN u : u[k] \in K
    BY <1>8 DEF ToSet
  <2> QED BY <1>8, <2>2, <2>3 DEF Falling
<1>12. K \in SUBSET AnyHit /\ ToSet(u) \subseteq K
       /\ \A h \in ToSet(u), g \in K \ ToSet(u) : score[h] >= score[g]
  BY <1>6, <1>8
<1>13. Len(u) >= Smaller(n, Cardinality(K)) /\ Len(u) <= Cardinality(K)
  BY <1>10 DEF Smaller
<1> QED BY <1>5, <1>8, <1>10, <1>11, <1>12, <1>13, FrontIsBest

\* The curated reader's answer is the best of what the pool has of the documents
\* that the access lists and the filter let pass.
LEMMA ByBoostIsBest ==
    ASSUME StoreInv, NEW n \in Nat,
           NEW E, E = {h \in InStore : /\ Keyword(h) > 0 /\ AclPasses(as.ctx, h)
                                       /\ Matches(as.filter, MetaOf(h))},
           NEW K, K = ToSet(Candidates(n)) \cap E, NEW score, score = [h \in K |-> Boosted(h)],
           NEW s, s = ByBoost(Curated(Candidates(n)), n)
    PROVE  IsFiniteSet(K) /\ IsBest(s, K, n, score)
<1>1. PICK c : c = Candidates(n)
  OBVIOUS
<1>2. c \in Seq(AnyHit) /\ DistinctDocs(c) /\ ToSet(c) \subseteq Found
  BY <1>1, CandidatesAre DEF IsBest
<1>3. PICK places :
        places = {k \in DOMAIN c : AclPasses(as.ctx, c[k]) /\ Matches(as.filter, MetaOf(c[k]))}
  OBVIOUS
<1>4. PICK kept : kept = At(c, places)
  OBVIOUS
<1>5. PICK boosts : boosts = [k \in DOMAIN kept |-> Boosted(kept[k])]
  OBVIOUS
<1>6. PICK u : u = StableSort(kept, boosts)
  OBVIOUS
<1>7. s = Take(u, n)
  BY <1>1, <1>3, <1>4, <1>5, <1>6 DEF ByBoost, Curated
<1>8. /\ E \subseteq InStore /\ InStore \in SUBSET AnyHit
      /\ \A h \in Found : h \in E <=> AclPasses(as.ctx, h) /\ Matches(as.filter, MetaOf(h))
  BY InStoreIs DEF Found
<1>9. places = {k \in DOMAIN c : c[k] \in E}
  <2>1. \A k \in DOMAIN c : c[k] \in Found
    BY <1>2 DEF ToSet
  <2> QED BY <1>3, <1>8, <2>1
<1>10. kept \in Seq(AnyHit) /\ Sub(kept, c) /\ ToSet(kept) = K
  <2>1. Filtered(kept, c, E)
    BY <1>2, <1>4, <1>9, FilterIsFalling
  <2> QED BY <1>1, <2>1 DEF Filtered
<1>11. score \in [K -> Int]
  <2>1. \A h \in K : h \in AnyHit /\ Known(h)
    BY <1>8, InStoreIs
  <2>2. \A h \in K : Boosted(h) \in Int
    BY <2>1, KnownHasScores
  <2> QED BY <2>2
<1>12. /\ \A k \in DOMAIN kept : kept[k] \in K /\ score[kept[k]] \in Int
       /\ boosts = [k \in DOMAIN kept |-> score[kept[k]]]
  <2>1. \A k \in DOMAIN kept : kept[k] \in K
    BY <1>10 DEF ToSet
  <2>2. \A k \in DOMAIN kept : score[kept[k]] = Boosted(kept[k]) /\ score[kept[k]] \in Int
    BY <1>11, <2>1
  <2> QED BY <1>5, <2>1, <2>2
<1>13. u \in Seq(AnyHit) /\ Sub(u, kept) /\ ToSet(u) = K /\ Falling(u, score)
  <2>1. Sorted(u, kept, score)
    BY <1>6, <1>10, <1>12, SortIsFalling
  <2> QED BY <1>10, <2>1 DEF Sorted
<1>14. IsFiniteSet(K) /\ Cardinality(K) = Len(u) /\ Len(u) \in Nat
  <2>1. DistinctDocs(u)
    BY <1>2, <1>10, <1>13, SubKeeps
  <2> QED BY <1>13, <2>1, HitsOfDistinct
<1>15. Len(u) >= Smaller(n, Cardinality(K)) /\ Len(u) <= Cardinality(K)
  BY <1>14 DEF Smaller
<1>16. /\ K \in SUBSET AnyHit /\ ToSet(u) \subseteq K
       /\ \A h \in ToSet(u), g \in K \ ToSet(u) : score[h] >= score[g]
  BY <1>8, <1>13
<1> QED BY <1>7, <1>11, <1>13, <1>14, <1>15, <1>16, FrontIsBest

\* The answer of a scan.
LEMMA ByCosineIsBest ==
    ASSUME StoreInv, NEW n \in Nat, NEW score, score = [h \in Readable |-> Cosine(h)],
           NEW s, s = ByCosine(Listing(Readable, KeyOrder(Readable)), n)
    PROVE  IsBest(s, Readable, n, score)
<1>1. PICK t : t = Listing(Readable, KeyOrder(Readable))
  OBVIOUS
<1>2. PICK values : values = [k \in DOMAIN t |-> Cosine(t[k])]
  OBVIOUS
<1>3. PICK u : u = StableSort(t, values)
  OBVIOUS
<1>4. s = Take(u, n)
  BY <1>1, <1>2, <1>3 DEF ByCosine
<1>5. Readable \in SUBSET AnyHit /\ Cardinality(Readable) \in Nat /\ IsFiniteSet(Readable)
      /\ \A h \in Readable : Known(h)
      /\ \A g, f \in Readable : g.doc = f.doc => g = f
  BY ReadableIs
<1>6. t \in Seq(AnyHit) /\ ToSet(t) = Readable /\ Len(t) = Cardinality(Readable)
  BY <1>1, <1>5, KeyListing
<1>7. score \in [Readable -> Int]
  <2>1. \A h \in Readable : Cosine(h) \in Int
    BY <1>5, KnownHasScores
  <2> QED BY <2>1
<1>8. /\ \A k \in DOMAIN t : t[k] \in Readable /\ score[t[k]] \in Int
      /\ values = [k \in DOMAIN t |-> score[t[k]]]
  <2>1. \A k \in DOMAIN t : t[k] \in Readable
    BY <1>6 DEF ToSet
  <2>2. \A k \in DOMAIN t : score[t[k]] = Cosine(t[k]) /\ score[t[k]] \in Int
    BY <1>7, <2>1
  <2> QED BY <1>2, <2>1, <2>2
<1>9. u \in Seq(AnyHit) /\ ToSet(u) = Readable /\ Falling(u, score)
  <2>1. Sorted(u, t, score)
    BY <1>3, <1>6, <1>8, SortIsFalling
  <2> QED BY <1>6, <2>1 DEF Sorted
<1>10. Len(u) = Cardinality(Readable)
  <2>1. values \in [DOMAIN t -> Int]
    BY <1>8
  <2> QED BY <1>3, <1>6, <2>1, StableSortPicks
<1>11. Len(u) >= Smaller(n, Cardinality(Readable)) /\ Len(u) <= Cardinality(Readable)
  BY <1>5, <1>10 DEF Smaller
<1>12. /\ ToSet(u) \subseteq Readable
       /\ \A h \in ToSet(u), g \in Readable \ ToSet(u) : score[h] >= score[g]
  BY <1>9
<1> QED BY <1>4, <1>5, <1>7, <1>9, <1>11, <1>12, FrontIsBest

\* What an answer leaves out, reader by reader.
Complete(s, n) ==
    /\ ToSet(s) \subseteq Eligible /\ Len(s) <= n
    /\ \A j, k \in DOMAIN s : j < k => Best(s[j]) >= Best(s[k])
    /\ \A g \in Eligible \ ToSet(s) :
         \/ Len(s) = n /\ \A h \in ToSet(s) : Best(h) >= Best(g)
         \/ SideTables /\ CrowdedOut(g)
         \/ layer = "postgres" /\ Keyword(g) = 0

\* The best of what the pool, or the scan, has is a complete answer.
LEMMA BestIsComplete ==
    ASSUME NEW K, K \subseteq Eligible, IsFiniteSet(K), NEW n \in Nat, NEW s \in Seq(AnyHit),
           DistinctDocs(s), NEW score, \A h \in K : score[h] = Best(h), IsBest(s, K, n, score),
           \A g \in Eligible \ K : SideTables /\ CrowdedOut(g)
    PROVE  Complete(s, n)
<1>1. Len(s) <= n /\ (Len(s) # n => ToSet(s) = K)
  BY FullOrAll
<1>2. /\ ToSet(s) \subseteq K /\ \A h \in ToSet(s), g \in K \ ToSet(s) : score[h] >= score[g]
      /\ \A j, k \in DOMAIN s : j < k => score[s[j]] >= score[s[k]]
  BY DEF IsBest, Falling
<1>3. \A k \in DOMAIN s : s[k] \in K
  BY <1>2 DEF ToSet
<1>4. \A j, k \in DOMAIN s : j < k => Best(s[j]) >= Best(s[k])
  BY <1>2, <1>3
<1>5. ASSUME NEW g \in Eligible \ ToSet(s)
      PROVE  \/ Len(s) = n /\ \A h \in ToSet(s) : Best(h) >= Best(g)
             \/ SideTables /\ CrowdedOut(g)
  <2>1. CASE g \in K
    BY <1>1, <1>2, <1>5, <2>1
  <2>2. CASE g \notin K
    BY <1>5, <2>2
  <2> QED BY <2>1, <2>2
<1> QED BY <1>1, <1>2, <1>4, <1>5 DEF Complete

\* An answer to an undisturbed query is complete.
LEMMA QuietShows ==
    ASSUME RetrievalInv, QuietInv
    PROVE  QuietQueryIsBest
<1> SUFFICES ASSUME query.step = "answered", query.quiet PROVE Complete(query.hits, query.limit)
  BY DEF QuietQueryIsBest, Complete
<1>1. PICK s, n : s = query.hits /\ n = query.limit
  OBVIOUS
<1>2. StoreInv /\ s \in Seq(AnyHit) /\ DistinctDocs(s) /\ n \in Nat
  BY <1>1 DEF RetrievalInv, QueryInv, QueryRecord
<1>3. IF layer = "postgres" THEN Fused(s, n) ELSE s = Reply(n)
  BY <1>1 DEF QuietInv, QuietIs
<1>4. PICK E, K : E = Eligible /\ K = ToSet(Candidates(n)) \cap E
  OBVIOUS
<1>5. ASSUME NEW g \in Found \ ToSet(Candidates(n)) PROVE CrowdedOut(g)
  BY <1>1, <1>2, <1>5, PoolIsCrowded DEF CrowdedOut
<1>6. CASE layer = "acl"
  <2>1. E = {h \in InStore : Keyword(h) > 0 /\ AclPasses(as.ctx, h)}
    BY <1>4, <1>6 DEF Eligible
  <2>2. PICK score : score = [h \in K |-> Keyword(h)]
    OBVIOUS
  <2>3. s = ByAcl(Candidates(n), n)
    BY <1>3, <1>6 DEF Reply
  <2>4. IsFiniteSet(K) /\ IsBest(s, K, n, score)
    BY <1>2, <1>4, <2>1, <2>2, <2>3, ByAclIsBest
  <2>5. \A h \in K : score[h] = Best(h)
    BY <1>6, <2>2 DEF Best
  <2>6. \A g \in E \ K : g \in Found \ ToSet(Candidates(n))
    BY <1>4, <2>1 DEF Found
  <2>7. SideTables
    BY <1>6 DEF SideTables
  <2> QED BY <1>1, <1>2, <1>4, <1>5, <2>4, <2>5, <2>6, <2>7, BestIsComplete
<1>7. CASE layer = "curated"
  <2>1. E = {h \in InStore : /\ Keyword(h) > 0 /\ AclPasses(as.ctx, h)
                             /\ Matches(as.filter, MetaOf(h))}
    BY <1>4, <1>7 DEF Eligible
  <2>2. PICK score : score = [h \in K |-> Boosted(h)]
    OBVIOUS
  <2>3. s = ByBoost(Curated(Candidates(n)), n)
    BY <1>3, <1>7 DEF Reply
  <2>4. IsFiniteSet(K) /\ IsBest(s, K, n, score)
    BY <1>2, <1>4, <2>1, <2>2, <2>3, ByBoostIsBest
  <2>5. \A h \in K : score[h] = Best(h)
    BY <1>7, <2>2 DEF Best
  <2>6. \A g \in E \ K : g \in Found \ ToSet(Candidates(n))
    BY <1>4, <2>1 DEF Found
  <2>7. SideTables
    BY <1>7 DEF SideTables
  <2> QED BY <1>1, <1>2, <1>4, <1>5, <2>4, <2>5, <2>6, <2>7, BestIsComplete
<1>8. CASE layer = "dynamo"
  <2>1. E = Readable
    BY <1>4, <1>8 DEF Eligible, Readable
  <2>2. PICK score : score = [h \in Readable |-> Cosine(h)]
    OBVIOUS
  <2>3. s = ByCosine(Listing(Readable, KeyOrder(Readable)), n)
    BY <1>3, <1>8 DEF Reply
  <2>4. IsFiniteSet(E) /\ IsBest(s, E, n, score)
    BY <1>2, <2>1, <2>2, <2>3, ByCosineIsBest, ReadableIs
  <2>5. \A h \in E : score[h] = Best(h)
    BY <1>8, <2>1, <2>2 DEF Best
  <2> QED BY <1>1, <1>2, <1>4, <2>4, <2>5, BestIsComplete
<1>9. CASE layer = "postgres"
  <2>1. E = Readable
    BY <1>4, <1>9 DEF Eligible, Readable
  <2>2. /\ ToSet(s) \subseteq Readable /\ Len(s) <= n
        /\ Len(s) # n => Found \cap Readable \subseteq ToSet(s)
    BY <1>3, <1>9 DEF Fused
  <2>3. \A h : Best(h) = 0
    BY <1>9 DEF Best
  <2>4. ASSUME NEW g \in E \ ToSet(s) PROVE Len(s) = n \/ Keyword(g) = 0
    <3>1. g \notin Found \/ Len(s) = n
      BY <2>1, <2>2, <2>4
    <3>2. g \in InStore /\ Known(g)
      BY <1>2, <2>1, <2>4, ReadableIs
    <3>3. Keyword(g) \in Nat
      BY <1>2, <3>2, InStoreIs, KnownHasScores
    <3> QED BY <3>1, <3>2, <3>3 DEF Found
  <2> QED BY <1>1, <1>4, <1>9, <2>1, <2>2, <2>3, <2>4 DEF Complete
<1>10. layer \in {"acl", "curated", "postgres", "dynamo"}
  BY KnowledgeAssumption DEF QuietInv
<1> QED BY <1>6, <1>7, <1>8, <1>9, <1>10

\* A query that no ingest overlaps answers with documents its requester may see,
\* best first, and leaves one out only when the answer is full and has nothing
\* worse, when the in-memory readers' pool (OVERFETCH_FACTOR) was full of
\* documents that match as well, or when only the approximate index of Postgres
\* could have found it (AclReader, CuratedReader, PgKnowledgeBase,
\* DynamoKnowledgeBase).
THEOREM QuietQueriesAreBest == RetrievalSpec => []QuietQueryIsBest
<1>1. RetrievalInv /\ QuietInv => QuietQueryIsBest
  BY QuietShows
<1> QED BY <1>1, QuietInvHolds, PTL
=============================================================================
