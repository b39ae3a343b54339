SPECIFICATION Spec
CONSTANTS
    Capacity = 2
    BatchSize = 3
    Handovers = 6
INVARIANTS EveryAggregateAccounted AbandonedOnlyAfterWarning
