CONSTANTS
    t1 = t1
    t2 = t2
    g1 = g1
    Thread = {t1}
    Guest = {g1}
    Key = {4, 12, 16, 24}
    HashBits = 2
    L1HashBits = 1
    Size <- MCSize
    Pad = 3
    Hash <- MCHash
    L1Size <- MCL1Size
    L1Hash <- MCL1Hash
    Code <- MCCode
    Value <- MCValue
    Ops = {"Put", "GetOrPut", "Replace"}
SPECIFICATION DLiveSpec
INVARIANTS DispatchSound L2InBounds L1Coherent
PROPERTY DispatchEnds
CHECK_DEADLOCK FALSE
