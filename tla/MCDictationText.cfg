SPECIFICATION WritingSpec
CONSTANTS
    Letters = {"a", "b"}
    Hard = 4
    Overlap = 1
    Semantic = 3
    Endpoint = 2
    Horizon = 5
    Threshold = 1
    Coalesced = 3
    MaxUnits = 8
    Engines = {"e1", "e2"}
    MaxSessions = 2
    MaxEvents = 5
    MaxMoves = 2
    MaxMishaps = 1
INVARIANTS TextKept
PROPERTIES WrittenToFocus ShownEnds
CHECK_DEADLOCK FALSE
