CONSTANTS
    a = a
    b = b
    m = m
    x = x
    g = g
    q = q
    Task = {a, b, m, x}
    Res = {g, q}
    Null = Null
    NCpus = 2
    NoCpu = NoCpu
    IsGlobal <- MCGlobal
    CntMod = 1
    BasePrio <- MCBase
    SpinPrio <- MCSpin
    Affinity <- MCAffinity
    Locks <- MCLocks
    Wakes <- MCWakes
    Ceiling <- Above
    LocalRes <- MCLocalRes
    Calls0 <- MCCalls
SPECIFICATION LSpec
INVARIANTS LTypeOK LocalOwner LocalNonPreemptive CeilingProtects LocalPriorityRestored
CHECK_DEADLOCK TRUE
