\* Fields of 7 and 17 elements; Baby Jubjub over the second, with 12 points.
SPECIFICATION Spec
CONSTANTS
    BN128_PRIME_FIELD = 7
    BN128_GROUP_ORDER = 17
    JUBJUBA = 1
    JUBJUBD = 6
    SubgroupOrder = 3
    Spends <- MCSpends
    Scalars <- MCScalars
INVARIANTS SpendsWithinLimits SelectsWheneverPossible LeastChange RootsExact ProofRoundTrip KeyRoundTrip ScalarMultRepeats
CHECK_DEADLOCK FALSE
