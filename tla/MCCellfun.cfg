SPECIFICATION UnwindSpec
CONSTANTS
    NULL = NULL
    f = f
    Function = {f}
    PoolSize = 4
    MaxDepth = 3
    HeapCell = {}
    MaxCounter = 0
    Argc = {1, 2}
    Callbacks = {"try", "guarded", "unguarded"}
    MaxCalls = 5
    MaxEntries = 4
INVARIANTS
    IdleAtBase
