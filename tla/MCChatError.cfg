SPECIFICATION Spec
CONSTANTS
    c1 = c1
    c2 = c2
    s1 = s1
    t1 = t1
    t2 = t2
    g1 = g1
    Sinks = {c1}
    Turns = {t1, t2}
    Creates = {s1}
    Conversations = {s1}
    Probes = {}
    SinkOf <- SingleSink
    MaxPriorMessages = 50
    ConsistentReads = TRUE
    MaxEvents = 1
    MaxRestarts = 0
    Workloads <- TwoTurns
INVARIANTS
    ErrorEndsTurn
CHECK_DEADLOCK FALSE
