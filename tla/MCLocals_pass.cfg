CONSTANTS
    l1 = l1
    l2 = l2
    Locals = {l1, l2}
    MaxInsts = 5
    MaxOrder = 1
    MaxPasses = 2
SYMMETRY AnyLocal
SPECIFICATION Spec
INVARIANTS
    MeaningKept
    LoadsBypassed
    UseCounted
    ChainsRight
    UsesCurrent
CHECK_DEADLOCK FALSE
