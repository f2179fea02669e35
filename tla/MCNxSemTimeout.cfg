CONSTANTS
    a = a
    b = b
    c = c
    m = m
    p = p
    e = e
    Task = {a, b, c}
    Null = Null
    Mutex = {m}
    Pool = {p}
    Event = {e}
    Timed = {e, m}
    Value0 <- MCValue
    BasePrio <- MCPrio
    Calls0 <- MCCalls
    Events0 = 1
    Signals0 = 1
    Signalled = {p, e}
    Deletable = {a}
    CarefulDelete = TRUE
SPECIFICATION Spec
INVARIANT HolderIsCurrent
CHECK_DEADLOCK TRUE
