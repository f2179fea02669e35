CONSTANTS
    a = a
    b = b
    m = m
    x = x
    r1 = r1
    Task = {a, b, m, x}
    Res = {r1}
    Null = Null
    NCpus = 2
    NoCpu = NoCpu
    IsGlobal <- MCGlobal
    CntMod = 1
    BasePrio <- DistinctBase
    SpinPrio <- DistinctSpin
    Affinity <- PinnedAff
    Locks <- MCLocks
    Wakes <- MCWakes
SPECIFICATION FairSpec
INVARIANTS TypeOK HookAssertions
PROPERTIES ImplementsFrapLock EveryoneFinishes
CHECK_DEADLOCK TRUE
