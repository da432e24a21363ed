CONSTANTS
    MaxBlocks = 4
    MaxEdges = 5
    OrphanIds = 2
SPECIFICATION LiveSpec
INVARIANTS BackEdgesRight IdomRight MarkedEdgesDominate DominatorKnown RpoRight
PROPERTY PassEnds
CHECK_DEADLOCK FALSE
