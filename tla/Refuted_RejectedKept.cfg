\* the dead letter table lacks columns of the rejected rows
SPECIFICATION Spec
CONSTANTS
    Keys <- MCKeys
    Bad <- MCBad
    Partitions = {1, 2}
    PartOf <- MCPartOf
    Versions = {"v1", "v2"}
    MaxRetries = 3
    MaxBatch = 2
    MaxCrashes = 2
PROPERTY RejectedKept
CHECK_DEADLOCK FALSE
