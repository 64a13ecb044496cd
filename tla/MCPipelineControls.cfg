CONSTANTS
    l1 = l1  l2 = l2  o1 = o1  o2 = o2  s1 = s1  u1 = u1  u2 = u2
    Checkpoints = {1, 2, 3}
    MaxAttempts = 2
    Jobs = {l1}
    NoJob = NoJob
    Online = {}
    GlobalCk = {1, 2}
    NormalizeCk = 1
    StructureCk = 2
    Segments = {s1}
    SegmentCk <- Short
    OnlineCk = {1, 2}
    RequestCk = 1
    MaxConcurrent = 2
    Callers = {u1}
    Controls = {"pause", "cancel", "resume", "segment", "fault", "shutdown"}
    MaxOrder = 3
    RetryBound = 3
    MaxFaults = 1
SPECIFICATION FairSpec
INVARIANTS TypeOK CheckpointOwnership AttemptsWithinLimit CompletedMeansDone NoStrandedJob
PROPERTIES CompletedWorkKept PendingIsServed
CHECK_DEADLOCK FALSE
