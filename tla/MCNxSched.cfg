CONSTANTS
    t1 = t1
    t2 = t2
    t3 = t3
    Task = {t1, t2, t3}
    NCpus = 2
    Null = Null
    NoCpu = NoCpu
    Prio = {1, 2}
    Mask <- Pins
    NewMask <- Single
    Movable = {t1}
SYMMETRY Interchangeable
SPECIFICATION Spec
INVARIANTS TypeOK Placement SectionOwned PinnedServed
PROPERTY LockRespected
CHECK_DEADLOCK TRUE
