CONSTANTS
    l1 = l1  l2 = l2  o1 = o1  o2 = o2  s1 = s1  u1 = u1  u2 = u2
    Checkpoints = {1, 2, 3}
    MaxAttempts = 1
    Jobs = {l1, o1}
    NoJob = NoJob
    Online = {o1}
    GlobalCk = {1, 2}
    NormalizeCk = 1
    StructureCk = 2
    Segments = {s1}
    SegmentCk <- Short
    OnlineCk = {1, 2}
    RequestCk = 1
    MaxConcurrent = 2
    Callers = {u1}
    Controls = {"dictation", "resume"}
    MaxOrder = 3
    RetryBound = 2
    MaxFaults = 0
SPECIFICATION FairSpec
INVARIANTS GpuHandedOver GpuAnnounced
PROPERTIES ChecksInOrder GpuYielded
CHECK_DEADLOCK FALSE
