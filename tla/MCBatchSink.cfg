SPECIFICATION FairSpec
CONSTANTS
    Keys <- MCKeys
    Bad <- MCBad
    Partitions = {1, 2}
    PartOf <- MCPartOf
    Versions = {"v1", "v2"}
    MaxRetries = 3
    MaxBatch = 2
    MaxCrashes = 2
INVARIANTS LossIsReported CountedIsStored
PROPERTY BatchEnds
CHECK_DEADLOCK FALSE
