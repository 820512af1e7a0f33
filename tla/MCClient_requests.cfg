SPECIFICATION Spec
CONSTANTS
    r1 = r1
    r2 = r2
    Requests = {r1, r2}
    Kinds = {"transform", "depositFee"}
    MaxNullifiers = 2
    MaxMade = 3
    MaxProposed = 2
    MaxRollbacks = 2
    MaxLost = 0
    MaxFailures = 1
    MaxProvided = 1
    MaxRestarts = 0
    RestartAfterRollback = FALSE
    MaxResyncAttempts = 0
    MaxNested = 2
SYMMETRY Symmetry
INVARIANTS NoDoubleSpend InputsReleased PendingHeld
CHECK_DEADLOCK FALSE
