CONSTANTS
    t1 = t1
    t2 = t2
    Thread = {t1, t2}
    Key = {4, 8, 12, 16}
    HashBits = 2
    Size <- MCSize
    Pad = 2
    Hash <- MCHash
    Code <- MCCode
    Value <- MCValue
    Ops = {"Put", "GetOrPut", "Lookup", "Replace"}
SPECIFICATION LiveSpec
INVARIANTS ChainIntact IInv
PROPERTIES ImplementsMap GetOrPutKeeps LockReleased
CHECK_DEADLOCK FALSE
