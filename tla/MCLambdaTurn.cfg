SPECIFICATION FairSpec
CONSTANTS
    c1 = c1
    s1 = s1
    t1 = t1
    g1 = g1
    Turns = {t1}
    Sinks = {t1}
    Creates = {s1}
    Conversations = {s1}
    Probes = {g1}
    Clients = {c1}
    SinkOf <- OwnSink
    ClientOf <- OneClient
    MaxPriorMessages = 50
    ConsistentReads = FALSE
    MaxEvents = 2
    MaxPostErrors = 1
    MaxDeaths = 1
INVARIANTS
    TerminalIsLast
    FinalIsComplete
PROPERTIES
    InvocationsEnd
CHECK_DEADLOCK FALSE
