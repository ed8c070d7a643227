SPECIFICATION LiveSpec
CONSTANTS
    r1 = r1
    r2 = r2
    Requests = {r1}
    KindOf <- Transfers
    Streams = {s1}
    Capacity = 4
INVARIANTS TypeOK
PROPERTIES ImplementsFeed EveryStreamConcludes
CHECK_DEADLOCK FALSE
