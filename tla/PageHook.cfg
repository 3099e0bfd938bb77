SPECIFICATION HookSpec
CONSTANTS
    Messages = {m1, m2}
    Scans = {s1}
    BatchLimit = 2
    MaxSessions = 2
    MaxRetries = 1
    MaxLoads = 2
INVARIANTS WriteIsCaptured
CHECK_DEADLOCK FALSE
