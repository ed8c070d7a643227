SPECIFICATION Spec
CONSTANTS
    a = a
    b = b
    d = d
    Wallets <- All
    LoBase = 2
    MaxAmount = 7
    MaxCredits = 2
    DecryptBound = 4
    Calls = {c1, c2, c3}
    StartConfigured <- Both
    StartPublic <- RacePublic
    StartAvailable <- RaceAvailable
    Menu <- RaceMenu
SYMMETRY Symmetry
INVARIANTS TypeOK RentReclaimed ProofsInPlace
PROPERTIES OnlyOvertakenApplyDesyncs DebitsUseTheirRead ImplementsLedger
CHECK_DEADLOCK FALSE
