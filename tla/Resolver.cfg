SPECIFICATION FairSpec
CONSTANTS
    Requests = {r1, r2}
    Callers = {c1}
    Worker = Worker
    Monitor = Monitor
    Retry = 2
    Cancels = 1
    None = None
INVARIANTS
    QueueExact ReportedOnce
PROPERTIES
    UsedAlive ReportedIfWatched
