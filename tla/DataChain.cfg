SPECIFICATION Spec
CONSTANTS
    CR = "CR"
    LF = "LF"
    ItemSize = 2
    Capacity = 5
    Chunks <- MCChunks
    Sizes <- MCSizes
PROPERTY KeepsParcels
