CONSTANTS
    a = a
    b = b
    m = m
    x = x
    r1 = r1
    Task = {a, b, m, x}
    Res = {r1}
    Null = Null
    NCpus = 2
    NoCpu = NoCpu
    IsGlobal <- MCGlobal
    CntMod = 1
    BasePrio <- DistinctBase
    SpinPrio <- DistinctSpin
    Affinity <- FreeAff
    Locks <- FreeLocks
    Wakes <- FreeWakes
SPECIFICATION Spec
INVARIANTS MutualExclusion CriticalSectionRuns PriorityRestored
CHECK_DEADLOCK FALSE
