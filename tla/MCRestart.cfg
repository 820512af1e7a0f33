SPECIFICATION RestartSpec
CONSTANTS
    t1 = t1
    t2 = t2
    Tx = {t1, t2}
    Me = Me
    Other = Other
    Fee <- MCFee
    Commitments <- MCCommitments
    Nullifiers <- MCDeposits
    MaxBlocks = 3
    MaxFaults = 1
    MaxRotations = 1
    MaxLost = 0
    MaxUnsent = 0
    MaxEarly = 0
    MaxResyncAttempts = 1
    KeepLog = TRUE
    CrashPoints = {"idle", "afterSave", "beforeCheck", "afterSend"}
    MaxCrashes = 1
INVARIANT WrongBlocksHeld
CHECK_DEADLOCK FALSE
