SPECIFICATION Spec
CONSTANTS
    r1 = r1
    r2 = r2
    Requests = {r1}
    Kinds = {"transfer", "tokenise"}
    MaxNullifiers = 1
    MaxMade = 3
    MaxProposed = 3
    MaxRollbacks = 1
    MaxLost = 1
    MaxFailures = 0
    MaxProvided = 0
    MaxRestarts = 1
    RestartAfterRollback = FALSE
    MaxResyncAttempts = 0
    MaxNested = 3
INVARIANTS TypeOK MarksReflectChain
CHECK_DEADLOCK FALSE
