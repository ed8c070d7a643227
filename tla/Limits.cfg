SPECIFICATION Spec
CONSTANTS
    a = a
    b = b
    d = d
    Wallets <- Both
    LoBase = 2
    MaxAmount = 7
    MaxCredits = 2
    DecryptBound = 4
    Calls = {c1, c2, c3, c4}
    StartConfigured <- Both
    StartPublic <- LimitPublic
    StartAvailable <- LimitAvailable
    Menu <- LimitMenu
SYMMETRY Symmetry
INVARIANTS PendingLoDecryptable
PROPERTIES PendingHiStuck AboveBoundOnlyTransferDebits WedgedStays
CHECK_DEADLOCK FALSE
