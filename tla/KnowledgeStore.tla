--------------------------- MODULE KnowledgeStore ---------------------------
(***************************************************************************)
(* The knowledge base of one organization and the readers that filter it   *)
(* for a requester: AclReader and CuratedReader over the in-memory store,  *)
(* whose access lists and curation data are in side tables, and the        *)
(* Postgres and DynamoDB stores, which keep the access list in the row.    *)
(* Documents are ingested again while queries run.                         *)
(***************************************************************************)
EXTENDS Sorting

CONSTANTS
    Docs,               \* documents, numbered in the order of their keys
    Moving,             \* the documents that are ingested again
    Revisions,          \* what a document may be ingested as
    Contexts,           \* AccessContexts: the requesters
    Filters,            \* RetrievalFilters of the curated reader
    Layers,             \* the readers to look at
    OverfetchFactor,    \* OVERFETCH_FACTOR
    OverfetchFloor,     \* OVERFETCH_FLOOR
    RrfK,               \* RRF_K
    Ingesters,          \* tasks that ingest
    MaxIngests,         \* bound: ingests during a behaviour
    Nil                 \* None

ASSUME KnowledgeAssumption ==
    /\ Docs \subseteq Nat \ {0} /\ IsFiniteSet(Docs) /\ Moving \subseteq Docs
    /\ \A rev \in Revisions :
         rev.keyword \in Nat /\ rev.cosine \in Int /\ rev.boost \in Int \cup {Nil}
    /\ Layers \subseteq {"acl", "curated", "postgres", "dynamo"}
    /\ OverfetchFactor \in Nat \ {0} /\ OverfetchFloor \in Nat /\ RrfK \in Nat

VARIABLES
    layer,      \* the reader in use
    given,      \* the revisions of each document, as their access lists were set
    stored,     \* the revision each document has in the store (an index of given)
    aclTable,   \* in memory: the revision whose access list the table holds
    metaTable,  \* in memory, curated: the revision whose DocMeta it holds
    settled,    \* DynamoDB: the revision every replica has
    ingesting,  \* the ingest each task is in
    ingests,    \* ingests so far
    query       \* the query that is being answered

knowVars == <<given, stored, aclTable, metaTable, settled, ingesting, ingests>>

SideTables == layer \in {"acl", "curated"}

\* A search result: a document as one of its revisions.
Hit(d, n) == [doc |-> d, n |-> n]
Rev(h) == given[h.doc][h.n]

-----------------------------------------------------------------------------
(* Access lists and curation *)

\* can_access.
CanAccess(ctx, acl) ==
    \/ acl.public
    \/ ctx.user # Nil /\ ctx.user \in acl.users
    \/ ctx.groups \cap acl.groups # {}

\* No access list (or one that does not parse) is organization-public.
Allows(ctx, acl) == acl = Nil \/ CanAccess(ctx, acl)

\* parse_boost: 1 by default, never negative.
ParseBoost(raw) == IF raw = Nil THEN 1 ELSE IF raw < 0 THEN 0 ELSE raw

\* DocMeta, and the one of a document without a record.
DocMeta(rev) == [sets |-> rev.sets, boost |-> ParseBoost(rev.boost), tags |-> rev.tags]
EmptyMeta == [sets |-> {}, boost |-> 1, tags |-> {}]

\* RetrievalFilter::matches.
Matches(filter, meta) ==
    /\ filter.sets = Nil \/ filter.sets \cap meta.sets # {}
    /\ filter.eq \subseteq meta.tags

-----------------------------------------------------------------------------
(* Ingest *)

NoIngest == [step |-> "idle", doc |-> 0, rev |-> Nil, n |-> 0]

\* Only an ingest that falls into a query is of interest to it.
Disturb == query' = [query EXCEPT !.quiet = FALSE]

IngestStart(i, d, rev) ==
    /\ ingests < MaxIngests /\ ingesting[i] = NoIngest
    /\ ingesting' = [ingesting EXCEPT ![i] =
          [step |-> IF layer = "curated" THEN "meta" ELSE "acl",
           doc |-> d, rev |-> rev, n |-> 0]]
    /\ ingests' = ingests + 1
    /\ Disturb
    /\ UNCHANGED <<given, stored, aclTable, metaTable, settled>>

\* record_ingest_metadata: the DocMeta is always recorded.
RecordMeta(i) ==
    /\ ingesting[i].step = "meta"
    /\ metaTable' = [metaTable EXCEPT ![ingesting[i].doc] = ingesting[i].rev]
    /\ ingesting' = [ingesting EXCEPT ![i].step = "acl"]
    /\ Disturb
    /\ UNCHANGED <<given, stored, aclTable, settled, ingests>>

\* Mutant: an access list that is there already is kept.
KeepFirstAcl(i) ==
    LET p == ingesting[i]
    IN /\ SideTables /\ p.step = "acl"
       /\ given' = [given EXCEPT ![p.doc] = Append(@, p.rev)]
       /\ aclTable' = IF p.rev.acl = Nil \/ aclTable[p.doc] > 0 THEN aclTable
                      ELSE [aclTable EXCEPT ![p.doc] = Len(given[p.doc]) + 1]
       /\ ingesting' = [ingesting EXCEPT ![i].step = "inner", ![i].n = Len(given[p.doc]) + 1]
       /\ Disturb
       /\ UNCHANGED <<stored, metaTable, settled, ingests>>

\* The access list is recorded when the document carries one.
RecordAcl(i) ==
    LET p == ingesting[i]
    IN /\ SideTables /\ p.step = "acl"
       /\ given' = [given EXCEPT ![p.doc] = Append(@, p.rev)]
       /\ aclTable' = IF p.rev.acl = Nil THEN aclTable
                      ELSE [aclTable EXCEPT ![p.doc] = Len(given[p.doc]) + 1]
       /\ ingesting' = [ingesting EXCEPT ![i].step = "inner", ![i].n = Len(given[p.doc]) + 1]
       /\ Disturb
       /\ UNCHANGED <<stored, metaTable, settled, ingests>>

\* The document goes to the inner store.
IngestInner(i) ==
    LET p == ingesting[i]
    IN /\ p.step = "inner"
       /\ stored' = [stored EXCEPT ![p.doc] = p.n]
       /\ ingesting' = [ingesting EXCEPT ![i] = NoIngest]
       /\ Disturb
       /\ UNCHANGED <<given, aclTable, metaTable, settled, ingests>>

\* Postgres and DynamoDB: one row with the access list, or an error.
IngestRow(i) ==
    LET p == ingesting[i]
    IN /\ ~SideTables /\ p.step = "acl"
       /\ given' = [given EXCEPT ![p.doc] = Append(@, p.rev)]
       /\ stored' = [stored EXCEPT ![p.doc] = Len(given[p.doc]) + 1]
       /\ ingesting' = [ingesting EXCEPT ![i] = NoIngest]
       /\ Disturb
       /\ UNCHANGED <<aclTable, metaTable, settled, ingests>>

IngestFails(i) ==
    /\ ~SideTables /\ ingesting[i].step = "acl"
    /\ ingesting' = [ingesting EXCEPT ![i] = NoIngest]
    /\ UNCHANGED <<given, stored, aclTable, metaTable, settled, ingests, query>>

Settle(d) ==
    /\ layer = "dynamo" /\ settled[d] # stored[d]
    /\ settled' = [settled EXCEPT ![d] = stored[d]]
    /\ UNCHANGED <<given, stored, aclTable, metaTable, ingesting, ingests, query>>

IngestNext ==
    \/ \E i \in Ingesters, d \in Moving, rev \in Revisions : IngestStart(i, d, rev)
    \/ \E i \in Ingesters :
         RecordMeta(i) \/ RecordAcl(i) \/ IngestInner(i) \/ IngestRow(i) \/ IngestFails(i)
    \/ \E d \in Docs : Settle(d)

-----------------------------------------------------------------------------
(* Queries *)

\* A query: its requester, filter and limit, the hits so far, whether it is
\* answered, and (history) whether it ran undisturbed.
NoQuery == [step |-> "idle", ctx |-> Nil, filter |-> Nil, limit |-> 0,
            hits |-> <<>>, scanned |-> 0, quiet |-> FALSE]

Smaller(a, b) == IF a < b THEN a ELSE b
Larger(a, b) == IF a < b THEN b ELSE a

\* Hits by a score, best first; documents that tie in the order of their keys,
\* or in either order where the code collects them from a hash map.
Ahead(score, flip) ==
    [h \in DOMAIN score |-> {g \in DOMAIN score :
        \/ score[g] > score[h]
        \/ score[g] = score[h] /\ (IF flip THEN g.doc > h.doc ELSE g.doc < h.doc)}]
Ranked(score, flip) == Listing(DOMAIN score, Ahead(score, flip))

CandidateN(limit) == Larger(limit * OverfetchFactor, OverfetchFloor)

Keyword(h) == Rev(h).keyword
Cosine(h) == Rev(h).cosine
InStore == {Hit(d, stored[d]) : d \in {e \in Docs : stored[e] > 0}}
Found == {h \in InStore : Keyword(h) > 0}

\* What the side tables let pass, and the boosted score.
AclPasses(ctx, h) ==
    aclTable[h.doc] = 0 \/ Allows(ctx, given[h.doc][aclTable[h.doc]].acl)
MetaOf(h) == IF metaTable[h.doc] = Nil THEN EmptyMeta ELSE DocMeta(metaTable[h.doc])
Boosted(h) == Keyword(h) * MetaOf(h).boost

\* A reader bound to ctx is asked for the limit best documents.
Ask(ctx, filter, limit) ==
    [NoQuery EXCEPT !.step = "fetch", !.ctx = ctx, !.filter = filter, !.limit = limit,
        !.quiet = /\ layer = "dynamo" => settled = stored
                  /\ \A i \in Ingesters : ingesting[i] = NoIngest]

\* In memory: the candidates of the inner store (a keyword search), best first.
FetchCandidates ==
    /\ SideTables /\ query.step = "fetch"
    /\ query' = [query EXCEPT !.step = "filter",
          !.hits = Take(Ranked([h \in Found |-> Keyword(h)], FALSE), CandidateN(query.limit))]
    /\ UNCHANGED knowVars

\* Mutant: the candidates are cut to the limit before they are filtered.
CutThenFilter(q) ==
    LET few == Take(q.hits, q.limit)
    IN At(few, {k \in DOMAIN few : AclPasses(q.ctx, few[k])})

\* AclReader::query, once the table is locked.
FilterByAcl(q) ==
    Take(At(q.hits, {k \in DOMAIN q.hits : AclPasses(q.ctx, q.hits[k])}), q.limit)

\* CuratedReader::query: access list, filter, boost, sort, cut.
FilterByCuration(q) ==
    LET kept == At(q.hits, {k \in DOMAIN q.hits : /\ AclPasses(q.ctx, q.hits[k])
                                                  /\ Matches(q.filter, MetaOf(q.hits[k]))})
    IN Take(StableSort(kept, [k \in DOMAIN kept |-> Boosted(kept[k])]), q.limit)

FilterCandidates ==
    /\ SideTables /\ query.step = "filter"
    /\ query' = [query EXCEPT !.step = "answered",
          !.hits = IF layer = "acl" THEN FilterByAcl(query) ELSE FilterByCuration(query)]
    /\ UNCHANGED knowVars

\* The rows of an arm that the requester may read, best first by the arm's score.
ArmRows(score, q) ==
    LET open == {h \in DOMAIN score : Allows(q.ctx, Rev(h).acl)}
    IN Take(Ranked([h \in open |-> score[h]], FALSE), Larger(4 * q.limit, OverfetchFloor))

\* Postgres: the dense arm.  Its index is approximate (HNSW): the scan comes upon
\* some of the rows, and what the requester may not read is dropped afterwards.
DenseArm ==
    /\ layer = "postgres" /\ query.step = "fetch"
    /\ \E seen \in SUBSET InStore :
         query' = [query EXCEPT !.step = "sparse",
                                !.hits = ArmRows([h \in seen |-> Cosine(h)], query)]
    /\ UNCHANGED knowVars

\* A row at (0-based) rank r adds 1 / (RRF_K + r + 1), here scaled.
Contribution(r) == 1000000 \div (RrfK + r + 1)
RankScore(d, rows) ==
    LET at == {r \in DOMAIN rows : rows[r].doc = d}
    IN IF at = {} THEN 0 ELSE Contribution((CHOOSE r \in at : TRUE) - 1)

\* Reciprocal rank fusion: the first arm's row stands for its document.
Fuse(dense, sparse, limit, flip) ==
    LET late == {h \in ToSet(sparse) : \A g \in ToSet(dense) : g.doc # h.doc}
        fused == [h \in ToSet(dense) \cup late |->
                    RankScore(h.doc, dense) + RankScore(h.doc, sparse)]
    IN Take(Ranked(fused, flip), limit)

\* then, in a statement of its own, the sparse arm, and the fusion.
SparseArm ==
    /\ layer = "postgres" /\ query.step = "sparse"
    /\ \E flip \in BOOLEAN :
         query' = [query EXCEPT !.step = "answered",
             !.hits = Fuse(query.hits,
                           ArmRows([h \in Found |-> Keyword(h)], query),
                           query.limit, flip)]
    /\ UNCHANGED knowVars

\* DynamoDB: the partition is read page by page; a page may be stale.
ScanPage ==
    /\ layer = "dynamo" /\ query.step = "fetch"
    /\ \E d \in {e \in Docs : e > query.scanned} : \E n \in {stored[d], settled[d]} :
         /\ \A e \in Docs : e > query.scanned => d <= e
         /\ query' = [query EXCEPT !.scanned = d,
                !.hits = IF n > 0 /\ Allows(query.ctx, given[d][n].acl)
                         THEN Append(@, Hit(d, n)) ELSE @]
    /\ UNCHANGED knowVars

\* After the last page the hits are sorted by score and cut.
ScanDone ==
    /\ layer = "dynamo" /\ query.step = "fetch"
    /\ \A d \in Docs : d <= query.scanned
    /\ query' = [query EXCEPT !.step = "answered",
          !.hits = Take(StableSort(query.hits, [k \in DOMAIN query.hits |-> Cosine(query.hits[k])]),
                        query.limit)]
    /\ UNCHANGED knowVars

\* A statement, a page or the embedder fails.
QueryFails ==
    /\ ~SideTables /\ query.step \in {"fetch", "sparse"}
    /\ query' = [query EXCEPT !.step = "failed", !.hits = <<>>]
    /\ UNCHANGED knowVars

QueryNext ==
    FetchCandidates \/ FilterCandidates \/ DenseArm \/ SparseArm \/ ScanPage
        \/ ScanDone \/ QueryFails
=============================================================================
