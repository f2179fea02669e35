CONSTANTS
    a = a
    b = b
    c = c
    m = m
    p = p
    e = e
    Task = {a, b, c}
    Null = Null
    Mutex = {m}
    Pool = {p}
    Event = {e}
    Timed = {e}
    Value0 <- MCValue
    BasePrio <- MCPrio
    Calls0 <- MCCalls
    Events0 = 1
    Signals0 = 1
    Signalled = {p, e}
    Deletable = {a, c}
    CarefulDelete = TRUE
SPECIFICATION Spec
INVARIANTS TypeOK CountsConserved HolderIsCurrent HolderBoosted BoostReturned
PROPERTIES MostUrgentFirst 
CHECK_DEADLOCK TRUE
