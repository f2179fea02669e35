CONSTANTS
    lo = lo
    mid = mid
    god = god
    far = far
    r1 = r1
    r2 = r2
    Task = {lo, mid, god, far}
    Res = {r1, r2}
    Null = Null
    P <- MCP
    CpuOf <- MCCpu
    Req <- MCReq
    Worker <- MCWorker
    Route <- MCRoute
    P_HIGH = 5
    TARGET_ITERATIONS = 2
    Threshold = 0
    MaxTime = 2
SPECIFICATION Spec
INVARIANTS TypeOK SpinInRange UrgentProtected WorkersExcluded SummaryHonest
PROPERTIES NoFalseAlarm
CHECK_DEADLOCK TRUE
