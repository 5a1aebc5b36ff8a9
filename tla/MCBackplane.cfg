SPECIFICATION FairSpec
CONSTANTS
    p1 = p1
    p2 = p2
    c1 = c1
    c2 = c2
    u1 = u1
    g1 = g1
    Pods = {p1, p2}
    Conns = {c1, c2}
    Groups = {g1}
    Publishers = {u1}
    HomeOf <- Home
    MaxPublish = 2
INVARIANTS
    TypeOK
    RegistryConsistent
    InOrderAtMostOnce
PROPERTIES
    ImplementsFanout
    EntitledAreReached
CHECK_DEADLOCK FALSE
