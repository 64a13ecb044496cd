CONSTANTS
    Checkpoints = {1, 2}
    MaxAttempts = 2
    MaxInputs = 2
    RetryBound = 3
    MaxFaults = 2
SPECIFICATION FairSpec
INVARIANTS SentAsRecorded
PROPERTIES PaidOnce ConfirmedAsSeen JobResolves
CHECK_DEADLOCK FALSE
