SPECIFICATION MCLiveSpec
CONSTANTS
    a = a
    b = b
    Wallets <- Both
    SenderWallet = a
    ReceiverWallet = b
    LoBase = 2
    MaxAmount = 15
    MaxCredits = 8
    DecryptBound = 16
    Calls <- CallIds
    Menu = {}
    Requests = {r1, r2}
    Bodies <- AllBodies
    StartMints = {"none", "ours", "foreign"}
    StartConfigured = {}
    StartPublic <- Nothing
    StartAvailable <- Nothing
    Target = 3
    Keep = 1
    MaxFaults = 3
INVARIANTS ServerTypeOK CallsOnExistingAccounts InitMintsOnce
PROPERTIES InitRecovers EveryRequestSettles KeepsLedger
CHECK_DEADLOCK FALSE
