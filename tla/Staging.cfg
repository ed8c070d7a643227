SPECIFICATION Spec
CONSTANTS
    FirstChunk = 3
    WriteChunk = 4
    Lengths <- TestLengths
INVARIANTS TypeOK NeverRefused OkIsVerified WritesFit
PROPERTIES NothingOverwritten
CHECK_DEADLOCK FALSE
