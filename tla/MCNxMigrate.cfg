CONSTANTS
    t1 = t1
    t2 = t2
    t3 = t3
    Task = {t1, t2, t3}
    NCpus = 2
    Null = Null
    NoCpu = NoCpu
    Prio = {1, 2}
    Mask <- Single
    NewMask <- Single
    Movable = {t1, t2, t3}
SYMMETRY Interchangeable
SPECIFICATION Spec
INVARIANT AffinityTakesEffect
CHECK_DEADLOCK TRUE
