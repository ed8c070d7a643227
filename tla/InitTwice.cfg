SPECIFICATION MCSpec
CONSTANTS
    a = a
    b = b
    Wallets <- Both
    SenderWallet = a
    ReceiverWallet = b
    LoBase = 2
    MaxAmount = 15
    MaxCredits = 8
    DecryptBound = 16
    Calls <- CallIds
    Menu = {}
    Requests = {r1, r2}
    Bodies <- InitBodies
    StartMints = {"none"}
    StartConfigured = {}
    StartPublic <- Nothing
    StartAvailable <- Nothing
    Target = 3
    Keep = 2
    MaxFaults = 1
SYMMETRY Symmetry
INVARIANTS InitIdempotent
CHECK_DEADLOCK FALSE
