SPECIFICATION Spec
CONSTANTS
    o1 = o1
    o2 = o2
    u1 = u1
    u2 = u2
    dev = dev
    r1 = r1
    r2 = r2
    d1 = d1
    d2 = d2
    n1 = n1
    s1 = s1
    k1 = k1
    k2 = k2
    e1 = e1
    e2 = e2
    pv = pv
    pd = pd
    pc = pc
    po = po
    hp = hp
    hi = hi
    Nil = Nil
    Orgs = {o1, o2}
    Users = {u1, u2}
    DevOrg = o1
    DevUser = dev
    Backends = {"memory", "postgres", "dynamo"}
    Requests = {r1, r2}
    Ids = {d1, d2}
    Names = {n1}
    Sources = {s1}
    MaxConvs = 3
    Limit = 1
    MaxDoc = 2
    MaxEdits = 2
    MaxRestarts = 1
    Policies <- SomePolicies
    Origins <- SomeOrigins
    SigningKeys = {k1, k2}
    MaxAge = 1
    MaxNow = 3
    Editors = {e1, e2}
    MaxSaves = 2
    Paths = {pv, pd, pc, po}
    Shape <- SomeShapes
    Trees <- SomeTrees
    IssueIds = {1, 2}
    PushContents = {"absent", "newer text", "bytes"}
    MaxChanges = 2
    IssuePage = 2
    CommentPage = 1
    Hosts = {hp, hi}
    PublicHosts = {hp}
    MaxRequests = 3
    AuthEnvs <- AllEnvs
    Tokens <- SomeTokens
INVARIANTS
    GrantsAreVouched
    LedgerIsSound
    SeesAllItsOwn
    EmbedsAreAllowed
    PullIsSound
PROPERTIES
    SettingsAreKept
SYMMETRY AdminSymmetry
CHECK_DEADLOCK FALSE
