SPECIFICATION Spec
CONSTANTS
    c1 = c1
    c2 = c2
    s1 = s1
    t1 = t1
    t2 = t2
    g1 = g1
    Sinks = {c1, c2}
    Turns = {t1, t2}
    Creates = {s1}
    Conversations = {s1}
    Probes = {g1}
    SinkOf <- PairSink
    MaxPriorMessages = 50
    ConsistentReads = TRUE
    MaxEvents = 1
    MaxRestarts = 1
    Workloads <- SharedOrLookup
INVARIANTS
    FinalIsComplete
    OneAnswer
    SessionIsComplete
CHECK_DEADLOCK FALSE
