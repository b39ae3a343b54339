SPECIFICATION Spec
CONSTANTS
    Symbols = {"a", "b"}
    Values = {1, 2}
    Csvs <- MCCsvs
    Broken = Broken
    DemoData <- MCDemoData
    Settings <- MCSettings
    DefaultChunk = 7
    SetupRetention = 2
    SetupCompression = 1
    MaxRuns = 3
INVARIANTS TypeOK RerunRepairs FreshRunAppliesSettings
PROPERTIES ImportAllOrNothing
\* the runs are used up
CHECK_DEADLOCK FALSE
