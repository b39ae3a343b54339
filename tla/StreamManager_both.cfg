\* both streams (entrypoint --stream both)
SPECIFICATION Spec
CONSTANTS
    Streams = {"second", "minute"}
    NumBatches = 1
    InitialDelay = 1
    MaxDelay = 1
    Multiplier = 1
    MaxRetries = 0
    RetryCap = 0
INVARIANTS NoOrphanTask  
PROPERTY KeepsLifecycle
CHECK_DEADLOCK FALSE
