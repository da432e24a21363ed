CONSTANTS
    t1 = t1
    t2 = t2
    g1 = g1
    Thread = {t1}
    Guest = {g1}
    Key = {4, 8, 12, 16}
    HashBits = 2
    L1HashBits = 1
    Size <- MCSize
    Pad = 2
    Hash <- MCHash
    L1Size <- MCL1Size
    L1Hash <- MCL1Hash
    Code <- MCCode
    Value <- MCValue
    Ops = {"Put"}
SPECIFICATION DSpec
INVARIANTS L1InBounds
CHECK_DEADLOCK FALSE
