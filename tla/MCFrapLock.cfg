CONSTANTS
    a = a
    h = h
    x = x
    k = k
    r1 = r1
    r2 = r2
    Task = {a, h, k, x}
    Res = {r1, r2}
    Null = Null
    Cpu <- MCCpu
    CpuOf <- MCCpuOf
    BasePrio <- MCBase
    SpinPrio <- MCSpin
    IsGlobal <- MCGlobal
    CntMod = 1
SPECIFICATION Spec
INVARIANTS TypeOK MutualExclusion OwnerIsHolder QueueIntegrity NonPreemptive HookAssertions PriorityRestored OneSpinnerPerCpu
PROPERTY AbstractSpec
CHECK_DEADLOCK TRUE
