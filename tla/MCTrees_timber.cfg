\* Trees of 16 places, every way to fill them.
SPECIFICATION Spec
CONSTANTS
    HEIGHT = 4
    Shapes <- MCShapes
    MaxBlocks = 4
    MaxRollbacks = 1
INVARIANTS TypeOK RootsAgree FrontiersAgree PathsLeadToRoot TransactionsProvable
CHECK_DEADLOCK FALSE
