SPECIFICATION ClassroomSpec
CONSTANTS
    Jobs <- TwoJobs
    Revisions = {r1, r2}
    Threads = {t1, t2}
    MaxErrors = 1
    MaxReboots = 1
    Items = {i1}
    Tabs = {b1, b2}
    MaxStops = 1
    MaxLost = 1
    Models <- ModelNames
    Benchmarks = {1, 2}
    Requests = {q1, q2}
    Orders <- Rankings
    Bootstrap <- RegistryOrder
    MaxRequests = 4
    MaxRestarts = 1
    Ids = {c1, c2}
    Slots = {1, 2}
    Chunk = 1
    VadWindow = 2
    MaxCalls = 5
    MaxFailures = 1
    Publishers = {p1, p2}
    Workers = {w1}
    KeepVersions = 1
    KeepDamaged = 1
    MaxUpdates = 1
    MaxDirectories = 3
    MaxMishaps = 1
INVARIANTS HearingSound ConsensusSound WritingSound EvidenceKept RegistriesSound
PROPERTIES WorkersSound
CHECK_DEADLOCK FALSE
