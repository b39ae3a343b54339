SPECIFICATION Spec
CONSTANTS
    Items <- MCItems
    Frames <- MCFrames
    Tradeable = {"A", "B"}
    MaxPrice = 5
    MaxVolume = 5
    NaN = 11
    Infinite = 20
    Delay <- MCDelay
    Tolerance = 1
    MaxAge = 1
    MaxOffsets = 2
    MaxFrames = 2
    MaxNow = 3
INVARIANTS CountersAgree ParserCoversFilter OncePerKey StoredIsPlausible EveryMessageDecided
PROPERTY SplitExactButAtTheEdges
\* the frames are used up
CHECK_DEADLOCK FALSE
