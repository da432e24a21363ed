CONSTANTS
    t1 = t1
    t2 = t2
    Thread = {t1, t2}
    Key = {4, 12, 16, 24}
    HashBits = 2
    Size <- MCSize
    Pad = 2
    Hash <- MCHash
    Code <- MCCode
    Value <- MCValue
    Ops = {"Put", "Lookup", "Replace", "Remove", "Clear"}
SPECIFICATION Spec
SYMMETRY Symmetry
INVARIANT PadFree
PROPERTY LookupSound
CHECK_DEADLOCK FALSE
