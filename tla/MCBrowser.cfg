SPECIFICATION BrowserSpec
CONSTANTS
    None = None
    MaxEdits = 2
    MaxOthers = 1
    MaxVersion = 4
    MaxFaults = 1
    Retained = 2
    MaxSequence = 3
    MaxRuns = 2
    MaxMishaps = 1
    Windows = {w1, w2}
INVARIANTS DraftKept
PROPERTIES RebasedOverCompared HistoryKept EventsFollowed PagesSettle
CHECK_DEADLOCK FALSE
