SPECIFICATION Spec
CONSTANTS
    Batch = 0
    MaxInterrupts = 1
    MaxResults = 1
    MaxPages = 1
PROPERTIES
    InterruptEnds
CHECK_DEADLOCK FALSE
