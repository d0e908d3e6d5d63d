SPECIFICATION Spec
CONSTANTS
    First = {1, 2}
    Last = {0, 1, 4}
    MaxThreads = 3
    Reduction <- Reductions
    Broadcast = {FALSE, TRUE}
CHECK_DEADLOCK FALSE
INVARIANTS
    TypeOK
    RunOnce
    NoThreadLeft
    ReducedLikeFor
PROPERTIES
    LoopEnds
    LoopRunsOut
