CONSTANTS
    None = None
    MaxEdits = 2
    MaxOthers = 1
    MaxVersion = 4
    MaxFaults = 1
SPECIFICATION Spec

PROPERTIES OthersKept
CHECK_DEADLOCK FALSE
