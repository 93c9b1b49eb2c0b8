SPECIFICATION FairSpec
CONSTANTS
    Threads = {t1, t2}
    Objects = {o1}
    Refs = {r1, r2}
    Free = Free
    None = None
    Waiters = {t1}
    Mishaps = {}
PROPERTY
    WaitReturns
CHECK_DEADLOCK FALSE
