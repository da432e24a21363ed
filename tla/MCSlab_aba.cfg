CONSTANTS
    t1 = t1
    t2 = t2
    Thread = {t1, t2}
    Allocators = {t1, t2}
    Freers = {t1, t2}
    NumObjects = 2
    NumExtern = 1
SPECIFICATION Spec
INVARIANT AssertContains
