SPECIFICATION FairSpec
CONSTANTS
    Arc4 = FALSE
    Answers <- MCAnswers
    Nowhere = "."
    Kept <- MCKept
    MaxAddrs = 2
    Worker = Worker
    Monitor = Monitor
    Caller = Caller
    MaxAnswers = 2
    MaxServers = 3
    Cancels = 1
INVARIANTS
    ToldOnce AnyMayLead AddressesMatch
PROPERTIES EndedUnheld TriedInOrder RequestEnds
CHECK_DEADLOCK FALSE
