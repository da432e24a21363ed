CONSTANTS
    t1 = t1
    t2 = t2
    t3 = t3
    NoThread = NoThread
    LockKey = LockKey
    MutexKey = MutexKey
    CondKey = CondKey
    Threads = {t1, t2, t3}
    Nobody = NoThread
    BasePriority <- PriorityOf
    Terminating = 1
    KernelKeys = {LockKey}
    UserKeys = {MutexKey}
    CondVarKeys = {CondKey}
    SuspendTypes = {"Thread", "Process"}
    LightLock = LockKey
    Mutex = MutexKey
    Limits = {3, 4}
    Priorities = {4}
    Program <- Roles
    MaxCalls = 5
    MaxControls = 2
    Timeouts = {"zero", "timed"}
SPECIFICATION Spec
INVARIANT
    KernelOwnerRuns
CHECK_DEADLOCK FALSE
