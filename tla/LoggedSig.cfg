SPECIFICATION MCSpec
CONSTANTS
    a = a
    b = b
    Wallets <- Both
    SenderWallet = a
    ReceiverWallet = b
    LoBase = 2
    MaxAmount = 15
    MaxCredits = 8
    DecryptBound = 16
    Calls <- CallIds
    Menu = {}
    Requests = {r1, r2}
    Bodies <- PostBodies
    StartMints = {"ours"}
    StartConfigured <- Both
    StartPublic <- OneEach
    StartAvailable <- OneEach
    Target = 3
    Keep = 2
    MaxFaults = 0
SYMMETRY Symmetry
INVARIANTS LoggedSigMoves
CHECK_DEADLOCK FALSE
