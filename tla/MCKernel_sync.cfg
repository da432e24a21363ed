CONSTANTS
    t1 = t1
    t2 = t2
    t3 = t3
    NoThread = NoThread
    LockKey = LockKey
    MutexKey = MutexKey
    CondKey = CondKey
    Threads = {t1, t2, t3}
    Nobody = NoThread
    BasePriority <- PriorityOf
    Terminating = 1
    KernelKeys = {LockKey}
    UserKeys = {MutexKey}
    CondVarKeys = {CondKey}
    SuspendTypes = {"Thread"}
    LightLock = LockKey
    Mutex = MutexKey
    Limits = {3, 4}
    Priorities = {4}
    Program <- Roles
    MaxCalls = 5
    MaxControls = 1
    Timeouts = {"zero", "timed"}
SPECIFICATION FairSpec
INVARIANTS
    TypeOK
    PriorityInherited
    LightMutex
    KernelOwnerRuns
    MutexExclusion
    WaitersKnown
    NoOrphan
    CvFlagTrue
    TimersOfWaits
    ChargesAccounted
PROPERTIES
    ReleaseWakes
    LockGranted
    Terminates
CHECK_DEADLOCK FALSE
