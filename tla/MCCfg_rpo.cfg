CONSTANTS
    MaxBlocks = 3
    MaxEdges = 3
    OrphanIds = 0
SPECIFICATION Spec
INVARIANT RpoListed
CHECK_DEADLOCK FALSE
