SPECIFICATION UnwindSpec
CONSTANTS
    NULL = NULL
    f = f
    Function = {f}
    PoolSize = 4
    MaxDepth = 3
    HeapCell = {}
    MaxCounter = 0
    Argc = {1, 2}
    Callbacks = {"try", "guarded"}
    MaxCalls = 5
    MaxEntries = 3
INVARIANTS
    UnwindTypeOK
    RunsInOwnScope
    IdleAtBase
    MarksMatchHandlers
    EntriesKept
