SPECIFICATION Spec
CONSTANTS
    Batch = 2
    MaxInterrupts = 3
    MaxResults = 3
    MaxPages = 2
INVARIANTS
    TypeOK
    OrderKept
    AllShownAtPrompt
PROPERTIES
    PromptComesBack
    InterruptStops
CHECK_DEADLOCK FALSE
