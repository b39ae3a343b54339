\* test-sized limit with the production delays of ws_client.py
SPECIFICATION HandlerSpec
CONSTANTS
    InitialDelay = 1
    MaxDelay = 60
    Multiplier = 2
    MaxRetries = 8
    RetryCap = 10
INVARIANT DelayMatchesRetries
PROPERTY DelayNeverShrinks
