SPECIFICATION Spec
CONSTANTS
    Name <- MCName
    Zones <- MCZones
    Room = 2
INVARIANTS TypeOK AnswerRead
CHECK_DEADLOCK FALSE
