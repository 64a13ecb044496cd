SPECIFICATION DictationSpec
CONSTANTS
    MaxSessions = 1
    Callers = {1, 2}
    MaxQueue = 1
    Faults = {"lease", "open", "stream", "overflow", "final", "lost", "end"}
    MaxFaults = 2
INVARIANTS RestsEmpty MicrophoneKept
PROPERTIES SessionsCommit CommandsReturn
CHECK_DEADLOCK FALSE
