SPECIFICATION Spec
CONSTANTS
    Sessions = {s1, s2}
    Csv <- MCCsv
    TopN = 1
    Upper <- MCUpper
    ManualTexts <- MCTexts
INVARIANTS TypeOK ViewsFollowSelection 
INVARIANTS TimersOnlyWhileStreaming ReportedStreamIsShown
 
