SPECIFICATION Spec
CONSTANTS
    Threads = {t1, t2}
    Objects = {o1}
    Refs = {r1, r2}
    Free = Free
    None = None
    Waiters = {}
    Mishaps = {}
INVARIANT
    FoundAlive
CHECK_DEADLOCK FALSE
