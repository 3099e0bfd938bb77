SPECIFICATION Spec
CONSTANTS
    Users = {u1, u2}
    Setup = 1
    MaxSockets = 3
    MaxFetches = 2
INVARIANTS OneSession
CHECK_DEADLOCK FALSE
