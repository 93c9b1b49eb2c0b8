SPECIFICATION Spec
CONSTANTS
    Threads = {t1, t2, t3}
    Objects = {o1, o2}
    Refs = {r1, r2, r3}
    Free = Free
    None = None
    Waiters = {t1, t2, t3}
    Mishaps = {"withdrawn"}
INVARIANTS
    RefcExact
    WalkMeetsNoDead
    OneWorkerEach
    SelectedIsServed
    DeletedUnused
    CancelledNotForgotten
SYMMETRY ObjectSymmetry
CHECK_DEADLOCK FALSE
