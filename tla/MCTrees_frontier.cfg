\* One small block.
SPECIFICATION Spec
CONSTANTS
    HEIGHT = 2
    Shapes <- MCShapes
    MaxBlocks = 2
    MaxRollbacks = 0
INVARIANT HonestFrontierStands
CHECK_DEADLOCK FALSE
