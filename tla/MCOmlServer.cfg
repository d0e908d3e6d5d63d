SPECIFICATION Spec
CONSTANTS
    Program = {"loops", "asks"}
    MaxWrites = 3
    MaxMerge = 2
    MaxLines = 1
CHECK_DEADLOCK FALSE
INVARIANTS
    TypeOK
    BusyHasReason
    InputHasReason
PROPERTIES
    NoStaleInterrupt
    BusyEnds
