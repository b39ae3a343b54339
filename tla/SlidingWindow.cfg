SPECIFICATION LimiterSpec
CONSTANTS
    Callers = {c1, c2}
    Nobody = Nobody
    MaxRequests = 2
    Window = 3
    Margin = 1
    Horizon = 10
INVARIANT WindowLimit
