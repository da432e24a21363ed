CONSTANTS
    t1 = t1
    t2 = t2
    t3 = t3
    Thread = {t1, t2, t3}
    Allocators = {t1}
    Freers = {t1, t2, t3}
    NumObjects = 2
    NumExtern = 1
SPECIFICATION Spec
SYMMETRY Symmetry
INVARIANTS FreeListIntact OneOwner AssertContains IInv
PROPERTY ImplementsPool
