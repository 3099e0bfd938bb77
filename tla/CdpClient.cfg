SPECIFICATION FairSpec
CONSTANTS
    Users = {u1, u2}
    Setup = 2
    MaxSockets = 2
    MaxFetches = 2
INVARIANTS MapMatchesPromises Recovering
PROPERTIES EverySendSettles
CHECK_DEADLOCK FALSE
