SPECIFICATION PoolSpec
CONSTANTS
    Function = {outer, inner}
    NULL = NULL
    PoolSize = 5
    MaxDepth = 4
    HeapCell = {h1, h2}
    MaxCounter = 4
INVARIANTS
    PoolTypeOK
    CellsPartitioned
    PoolNeverExhausted
    HandlesNeverDangle
    EnvMapsAgree
    NestedSearchCovers
PROPERTIES
    HandlesStable
