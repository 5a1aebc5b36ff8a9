SPECIFICATION KnowledgeSpec
CONSTANTS
    f1 = f1
    r1 = r1
    r2 = r2
    Files = {f1}
    Issues = {1}
    Runs = {r1, r2}
    PageSize = 50
    Sharings = {"own", "shared"}
    MaxTime = 2
    MaxVersion = 2
    MaxFileVersion = 1
    i1 = i1
    i2 = i2
    Nil = Nil
    Docs = {1, 2, 3}
    Moving = {1}
    Revisions <- SomeRevisions
    Contexts <- SomeContexts
    Filters <- SomeFilters
    Layers = {"acl", "curated", "postgres", "dynamo"}
    OverfetchFactor = 2
    OverfetchFloor = 2
    RrfK = 60
    Ingesters = {i1}
    MaxIngests = 1
    AutoLimit = 1
    DefaultLimit = 1
    MaxLimit = 2
    LimitArgs <- SomeArgs
    RerankOverfetch = 2
    Setups <- SomeSetups
    Corpora <- SomeCorpora
    MaxSearches = 1
    MaxCitations = 2
INVARIANTS
    TypeOK
    NothingIsMissed
    StoredOnce
    AnswersAreAdmitted
    QuietQueryIsBest
    RerankKeepsCandidates
    CitationsCoverSources
PROPERTY
    CursorNeverRegresses
SYMMETRY RunSymmetry
CHECK_DEADLOCK FALSE
