SPECIFICATION FairSpec
CONSTANTS
    Incoming = 2
    Outgoing = 3
    Burst = 2
    AcceptedBlock = FALSE
    Mishaps = {"early", "short", "reset"}
    None = None
INVARIANTS
    KeptUnlessShort WriteMeansSent IntroducedFirst AttemptEndsOnce
    NothingAfterClose
PROPERTIES ArrivalsAreTold WritesLeave EndIsTold
