CONSTANTS
    MaxBlocks = 4
    MaxEdges = 5
    OrphanIds = 0
SPECIFICATION Spec
INVARIANT ClimbEnds
CHECK_DEADLOCK FALSE
