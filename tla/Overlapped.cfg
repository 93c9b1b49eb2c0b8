SPECIFICATION FairSpec
CONSTANTS
    Workers = {w1, w2}
    Caller = app
    Chunk = 2
    None = None
    Outgoing = 3
    Incoming = 1
    Cancels = 1
INVARIANTS HoldsExact SentInOrder ClosedOnce StaysRead
PROPERTIES WritesLeave CancelledDies
CHECK_DEADLOCK FALSE
