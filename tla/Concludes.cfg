SPECIFICATION LiveSpec
CONSTANTS
    r1 = r1
    r2 = r2
    Requests = {r1, r2}
    KindOf <- Mixed
    Streams = {}
    Capacity = 4
INVARIANTS TerminalOrder
PROPERTIES EveryOperationConcludes
CHECK_DEADLOCK FALSE
