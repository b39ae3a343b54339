\* the second stream alone, as run_local.sh and __main__.py start it
SPECIFICATION FairSpec
CONSTANTS
    Streams = {"second"}
    NumBatches = 2
    InitialDelay = 1
    MaxDelay = 4
    Multiplier = 2
    MaxRetries = 0
    RetryCap = 3
INVARIANTS HandleClosedAfterStop ListeningIsSubscribed
PROPERTIES StopCompletes Reconnects ImplementsLifecycle
CHECK_DEADLOCK FALSE
