\* two callers, both jobs
SPECIFICATION MCSpec
CONSTANTS
    Callers = {gui, cli}
    Order <- MCOrder
    MaxStarts = 3
INVARIANTS TransitionHasOwner RunningMeansAliveInTurn
PROPERTY TransitionEnds
CHECK_DEADLOCK FALSE
