SPECIFICATION FairSpec
CONSTANTS
    t1 = t1
    t2 = t2
    Tx = {t1, t2}
    Me = Me
    Other = Other
    Fee <- MCFee
    Commitments <- MCCommitments
    Nullifiers <- MCTransfers
    MaxBlocks = 3
    MaxFaults = 1
    MaxRotations = 2
    MaxUnsent = 1
    MaxEarly = 1
    MaxResyncAttempts = 1
    KeepLog = FALSE
INVARIANTS TypeOK DatabaseReflectsChain HaltedWhileWrong OwnBlocksFollow
PROPERTIES WrongBlocksRolledBack TransactionsIncluded
CHECK_DEADLOCK FALSE
