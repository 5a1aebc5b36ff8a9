SPECIFICATION FairSpec
CONSTANTS
    k1 = k1
    k2 = k2
    none = none
    t1 = t1
    q1 = q1
    Sockets = {k1, k2}
    NoSocket = none
    Turns = {t1}
    Requests = {q1}
    MaxEvents = 2
INVARIANTS
    TypeOK
    NoLostWakeup
    NoOrphanSocket
    EventsInOrder
PROPERTIES
    CallsSettle
CHECK_DEADLOCK FALSE
