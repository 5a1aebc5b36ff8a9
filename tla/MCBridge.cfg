SPECIFICATION BridgeSpec
CONSTANTS
    b1 = b1
    b2 = b2
    Callers = {b1, b2}
    Workers = 2
    Placements = {"queue"}
PROPERTIES
    CallsReturn
CHECK_DEADLOCK FALSE
