SPECIFICATION Spec
CONSTANTS
    Raw <- MCRaw
    Known <- MCKnown
    Top10 <- MCTop10
    Cleaned <- MCCleaned
    NoSymbol = ""
    Limit = 2
    DocumentedLimit = 1
    MaxList = 3
INVARIANTS TypeOK UnsubscribeCovers
PROPERTIES EveryTickerSentOnce SetTickersKeepsFirstMentions
