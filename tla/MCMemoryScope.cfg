SPECIFICATION MemSpec
CONSTANTS
    NULL = NULL
    NOTHING = NOTHING
    outer = outer
    inner = inner
    x = x
    Function = {outer, inner}
    Enclosing <- EnclosingOne
    Var = {x}
    Elem = {a}
    Params <- NoNames
    Returns <- NoNames
    Refs <- AllNames
    PoolSize = 4
    MaxDepth = 3
    HeapCell = {h}
    MaxCounter = 1
INVARIANTS
    MemTypeOK
    UnusedScopesClean
PROPERTIES
    NestedInherits
    NestedShares
    ImplementsFrames
