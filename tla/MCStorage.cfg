SPECIFICATION Spec
CONSTANTS
    a1 = a1
    a2 = a2
    k1 = k1
    i1 = i1
    i2 = i2
    i3 = i3
    m1 = m1
    m2 = m2
    m3 = m3
    m4 = m4
    w1 = w1
    v1 = v1
    v2 = v2
    x1 = x1
    Nil = Nil
    Backends = {"memory", "postgres", "dynamo"}
    Callers = {a1, a2}
    Keys = {k1}
    ConvIds = {i1, i2, i3}
    Names = {"old", "new"}
    MsgIds = {m1, m2, m3, m4}
    Walkers = {w1}
    Limit = 1
    MaxDraws = 4
    Counts = {1, 2}
    Iterations = {1, 2, 3, 4}
    Keep = 1
    Batch = 2
    TooLarge = {3}
    PartIds = {1, 2}
    PartConvs = {v1, v2}
    ExternalIds = {x1}
    MaxCreated = 2
INVARIANTS
    OneConversationPerKey
    AppendsInOrder
    WalkIsComplete
    ResolvesWithinConversation
PROPERTIES
    LatestCheckpointStays
SYMMETRY StorageSymmetry
CHECK_DEADLOCK FALSE
