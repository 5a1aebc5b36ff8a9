----------------------------- MODULE Retrieval ------------------------------
(***************************************************************************)
(* Where a turn's knowledge comes from and what it cites: the mirror of    *)
(* the engine's automatic query, that query, the knowledge_search calls    *)
(* with their optional rerank stage, and the citations, while documents    *)
(* are ingested.                                                           *)
(***************************************************************************)
EXTENDS KnowledgeStore, Rerank

CONSTANTS
    AutoLimit,      \* AUTO_CONTEXT_LIMIT
    DefaultLimit,   \* DEFAULT_LIMIT of knowledge_search
    MaxLimit,       \* the upper end of its clamp
    LimitArgs,      \* limit arguments a model may pass, Nil for none
    RerankOverfetch,\* RERANK_OVERFETCH
    Setups,         \* readers and rerank settings to look at
    Corpora,        \* what the knowledge base may hold before the turn
    MaxSearches,    \* bound: knowledge_search calls of a turn
    MaxCitations    \* MAX_CITATIONS

ASSUME RetrievalAssumption ==
    /\ AutoLimit \in Nat \ {0} /\ MaxCitations \in Nat
    /\ MaxLimit \in Nat /\ DefaultLimit \in 1 .. MaxLimit /\ RerankOverfetch \in Nat \ {0}
    /\ LimitArgs \subseteq Nat \cup {Nil}
    /\ Setups \subseteq [layer : Layers, mode : {"off", "lexical", "gateway"}, keyed : BOOLEAN]
    /\ Corpora \subseteq [Docs -> {<<>>} \cup {<<rev>> : rev \in Revisions}]

VARIABLES
    reranker,   \* the stage build_reranker chose
    as,         \* the requester of the turn: its AccessContext and filter
    turn        \* the turn

retrievalVars == <<layer, reranker, as, knowVars, query, turn>>

\* A turn: its step, the mirrored sources, the hits that grounded the first
\* model call, the sink of knowledge_search, the search under way, the
\* citations and (history) whether the store stood still from mirror to engine.
NoTurn == [step |-> "idle", auto |-> <<>>, ground |-> <<>>, sink |-> <<>>,
           searches |-> 0, topK |-> 0, pool |-> <<>>, last |-> <<>>,
           citations |-> <<>>, still |-> FALSE, at |-> 0]

Answered == query.step \in {"answered", "failed"}

-----------------------------------------------------------------------------
(* The turn *)

\* auto_sources: the turn asks what the engine is going to ask.
MirrorAsk ==
    /\ turn.step = "idle"
    /\ turn' = [turn EXCEPT !.step = "mirror", !.at = ingests]
    /\ query' = Ask(as.ctx, as.filter, AutoLimit)
    /\ UNCHANGED knowVars

\* A failed mirror gives no sources.
MirrorDone ==
    /\ turn.step = "mirror" /\ Answered
    /\ turn' = [turn EXCEPT !.step = "persist", !.auto = query.hits,
                            !.still = query.quiet /\ query.step = "answered"]
    /\ query' = NoQuery
    /\ UNCHANGED knowVars

\* Prior messages are loaded and the inbound one is stored; either may fail
\* the turn.  Then the engine asks.
EngineAsk ==
    /\ turn.step = "persist"
    /\ turn' = [turn EXCEPT !.step = "engine"]
    /\ query' = Ask(as.ctx, as.filter, AutoLimit)
    /\ UNCHANGED knowVars

TurnFails ==
    /\ turn.step \in {"persist", "tools"}
    /\ turn' = [turn EXCEPT !.step = "failed"]
    /\ query' = NoQuery
    /\ UNCHANGED knowVars

EngineDone ==
    /\ turn.step = "engine" /\ Answered
    /\ turn' = [turn EXCEPT !.step = "tools", !.ground = query.hits,
          !.still = @ /\ query.quiet /\ query.step = "answered" /\ turn.at = ingests]
    /\ query' = NoQuery
    /\ UNCHANGED knowVars

\* knowledge_search: the limit, and the candidates to fetch.
ClampLimit(arg) ==
    IF arg = Nil THEN DefaultLimit ELSE Larger(1, Smaller(arg, MaxLimit))

FetchLimit(limit) == IF reranker = "none" THEN limit ELSE limit * RerankOverfetch

SearchAsk(arg) ==
    /\ turn.step = "tools" /\ turn.searches < MaxSearches
    /\ turn' = [turn EXCEPT !.step = "search", !.searches = @ + 1,
                            !.topK = ClampLimit(arg)]
    /\ query' = Ask(as.ctx, as.filter, FetchLimit(ClampLimit(arg)))
    /\ UNCHANGED knowVars

\* The candidates go to the reranker; a failed query is the tool's error.
SearchCandidates ==
    /\ turn.step = "search" /\ Answered
    /\ turn' = [turn EXCEPT !.step = IF query.step = "failed" THEN "tools" ELSE "rerank",
                            !.pool = query.hits, !.last = <<>>]
    /\ query' = NoQuery
    /\ UNCHANGED knowVars

\* Its results are recorded in the sink and shown to the model.
SearchDone ==
    /\ turn.step = "rerank"
    /\ \E results \in OptionalRerank(reranker, turn.pool, turn.topK,
                                     [i \in DOMAIN turn.pool |-> Keyword(turn.pool[i])]) :
         turn' = [turn EXCEPT !.step = "tools", !.last = results,
                              !.sink = @ \o results]
    /\ UNCHANGED <<knowVars, query>>

DocsIn(hits) == {hits[k].doc : k \in DOMAIN hits}

\* Those hits whose document has not come before.
FirstOfEach(hits) ==
    At(hits, {k \in DOMAIN hits : \A j \in 1 .. k - 1 : hits[j].doc # hits[k].doc})

\* Mutant: the cap is applied before duplicates are dropped.
CapThenDedupe(auto, tool) == FirstOfEach(Take(auto \o tool, MaxCitations))

CollectCitations(auto, tool) == Take(FirstOfEach(auto \o tool), MaxCitations)

\* The engine returns, the reply is stored and the citations are collected.
Cite ==
    /\ turn.step = "tools"
    /\ turn' = [turn EXCEPT !.step = "over", !.pool = <<>>, !.last = <<>>,
                            !.citations = CollectCitations(turn.auto, turn.sink)]
    /\ UNCHANGED <<knowVars, query>>

TurnNext ==
    \/ MirrorAsk \/ MirrorDone \/ EngineAsk \/ EngineDone \/ TurnFails
    \/ \E arg \in LimitArgs : SearchAsk(arg)
    \/ SearchCandidates \/ SearchDone \/ Cite

-----------------------------------------------------------------------------
(* The specification *)

\* A knowledge base in which some documents were ingested before.
RetrievalInit ==
    /\ \E setup \in Setups :
         /\ layer = setup.layer
         /\ reranker = BuildReranker(setup.mode, setup.keyed)
    /\ as \in [ctx : Contexts,
               filter : IF layer = "curated" THEN Filters ELSE {[sets |-> Nil, eq |-> {}]}]
    /\ given \in Corpora
    /\ stored = [d \in Docs |-> Len(given[d])]
    /\ settled = stored
    /\ aclTable = [d \in Docs |->
         IF SideTables /\ given[d] # <<>> /\ given[d][1].acl # Nil THEN 1 ELSE 0]
    /\ metaTable = [d \in Docs |->
         IF layer = "curated" /\ given[d] # <<>> THEN given[d][1] ELSE Nil]
    /\ ingesting = [i \in Ingesters |-> NoIngest]
    /\ ingests = 0
    /\ query = NoQuery
    /\ turn = NoTurn

\* A behaviour ends with its turn.
RetrievalNext ==
    /\ UNCHANGED <<layer, reranker, as>>
    /\ \/ TurnNext
       \/ /\ turn.step \notin {"over", "failed"}
          /\ IngestNext \/ QueryNext
          /\ UNCHANGED turn

RetrievalSpec == RetrievalInit /\ [][RetrievalNext]_retrievalVars

-----------------------------------------------------------------------------
(* Properties *)

Hits == [doc : Docs, n : 1 .. MaxIngests + 1]

\* Type invariant.
RetrievalTypeOK ==
    /\ \A d \in Docs : stored[d] \in 0 .. Len(given[d])
    /\ \A d \in Docs : aclTable[d] \in 0 .. Len(given[d]) /\ settled[d] \in 0 .. Len(given[d])
    /\ \A d \in Docs : metaTable[d] \in Revisions \cup {Nil}
    /\ \A i \in Ingesters : ingesting[i].step \in {"idle", "meta", "acl", "inner"}
    /\ ToSet(query.hits) \cup ToSet(turn.sink) \cup ToSet(turn.citations) \subseteq Hits
    /\ Len(turn.citations) <= MaxCitations
    /\ turn.topK \in 0 .. MaxLimit

\* Whatever reaches the model or the citations of a turn was open to its
\* requester: the access list the revision itself was given with admits the
\* requester, or that of a later revision of the document does (a query that
\* overlaps an ingest may pair the older text with the newer list, never the
\* newer text with the older list).
AnswersAreAdmitted ==
    \A h \in ToSet(turn.auto \o turn.ground \o turn.sink \o turn.citations) :
        \E n \in h.n .. Len(given[h.doc]) : Allows(as.ctx, given[h.doc][n].acl)

\* The documents that an undisturbed query may choose from, by reference.
Eligible ==
    CASE layer = "acl" -> {h \in InStore : Keyword(h) > 0 /\ AclPasses(as.ctx, h)}
      [] layer = "curated" ->
           {h \in InStore : /\ Keyword(h) > 0 /\ AclPasses(as.ctx, h)
                            /\ Matches(as.filter, MetaOf(h))}
      [] OTHER -> {h \in InStore : Allows(as.ctx, Rev(h).acl)}

\* What the answers of a reader are ranked by; Postgres' fusion ranks by places.
Best(h) ==
    CASE layer = "acl" -> Keyword(h)
      [] layer = "curated" -> Boosted(h)
      [] layer = "dynamo" -> Cosine(h)
      [] OTHER -> 0

\* A document that does not get into the candidate pool of the in-memory
\* readers: other documents, hidden ones included, match the query as well.
CrowdedOut(g) ==
    Cardinality({h \in InStore \ {g} : Keyword(h) >= Keyword(g)}) >= CandidateN(query.limit)

\* An undisturbed query answers with documents its requester may see, best
\* first, and leaves one of those out for a reason only: the answer is full and
\* nothing in it is worse (in Postgres: it is full), the pool of the in-memory
\* readers was full of documents that match as well, or only the approximate
\* index of Postgres could have found it.
QuietQueryIsBest ==
    LET hits == ToSet(query.hits)
    IN query.step = "answered" /\ query.quiet =>
         /\ hits \subseteq Eligible /\ Len(query.hits) <= query.limit
         /\ \A j, k \in DOMAIN query.hits : j < k => Best(query.hits[j]) >= Best(query.hits[k])
         /\ \A g \in Eligible \ hits :
              \/ Len(query.hits) = query.limit /\ \A h \in hits : Best(h) >= Best(g)
              \/ SideTables /\ CrowdedOut(g)
              \/ layer = "postgres" /\ Keyword(g) = 0

\* The over-fetch of the in-memory readers makes up for what they filter out:
\* "the post-filter top-K is still full whenever enough accessible documents
\* exist" (OVERFETCH_FACTOR of AclReader and CuratedReader).
AnswerIsFull ==
    query.step = "answered" /\ query.quiet /\ SideTables =>
        Len(query.hits) = Smaller(query.limit, Cardinality(Eligible))

\* The rerank stage neither loses, repeats nor invents a candidate, whatever
\* the gateway answers and also when it fails: a search shows as many of its
\* candidates as its limit allows, each once.
RerankKeepsCandidates ==
    turn.step = "tools" /\ turn.pool # <<>> =>
        /\ Len(turn.last) = Smaller(turn.topK, Len(turn.pool))
        /\ ToSet(turn.last) \subseteq ToSet(turn.pool)
        /\ Cardinality(ToSet(turn.last)) = Len(turn.last)

\* The citations of a turn name its sources: no document twice, every document
\* a search returned unless the cap is reached, and every document the first
\* model call was grounded with, when the mirror did not fail and nothing was
\* ingested from then to the engine's own query (in Postgres documents that tie
\* may still differ).
CitationsCoverSources ==
    turn.step = "over" =>
        /\ Cardinality(DocsIn(turn.citations)) = Len(turn.citations)
        /\ Len(turn.citations) < MaxCitations => DocsIn(turn.sink) \subseteq DocsIn(turn.citations)
        /\ Len(turn.citations) >= Smaller(MaxCitations, Cardinality(DocsIn(turn.auto \o turn.sink)))
        /\ turn.still /\ layer # "postgres" /\ AutoLimit <= MaxCitations =>
             DocsIn(turn.ground) \subseteq DocsIn(turn.citations)
=============================================================================
