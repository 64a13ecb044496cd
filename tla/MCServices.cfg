SPECIFICATION ServicesSpec
CONSTANTS
    Sessions = {s1, s2}
    Routes = {"zh", "ja"}
    DefaultRoute = "zh"
    Local = {"l1", "l2"}
    Online = {"o"}
    Models = {"m1", "m2"}
    MaxFaults = 1
    MaxCancels = 1
    MaxLosses = 1
    MaxStarts = 1
    MaxRequests = 2
    MaxStalls = 1
    MaxCrashes = 1
    MaxRuns = 3
    MaxCalls = 2
    MaxDictations = 1
    MaxFailures = 1
    Claimants = {"d", "p", "q", "r"}
    Rank <- Ranks
    Smaller <- SmallerModels
    Dtypes <- VerifiedDtypes
    Quantizations <- VerifiedQuantizations
    MinWindow = 2
    MaxBegun = 2
    MaxAcquires = 5
    MaxMishaps = 1
INVARIANTS LaneShared
PROPERTIES ServersConsistent HandoverKept ServicesSettle WorkersKept
CHECK_DEADLOCK FALSE
