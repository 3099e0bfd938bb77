SPECIFICATION PartsSpec
CONSTANTS
    Capacity = 2
    Rate = 2
    Unit = 3
    Setback = 2
    MaxClock = 4
    MaxGrants = 4
    MaxTime = 2
    MaxCounter = 1
    Attempts = {a1, a2}
    Syncs = {y1, y2}
    Friends = {f1}
    Groups = {g1, g2}
    Messages = {m1, m2}
    Scans = {s1}
    BatchLimit = 2
    MaxSessions = 2
    MaxRetries = 1
    MaxLoads = 2
    MaxPieces = 5
    Day = 12
    MaxDays = 3
    Chats = {d1}
    LiveSyncs = {l1, l2}
    MaxInbox = 1
    MaxStates = 2
    MaxEndings = 2
    MaxRestarts = 1
INVARIANTS TokensExact LoginAccounted SyncKeepsGoing CaptureConserves SyncedMeansAll
    PiecesAccounted CleanedOnce TimeIsLatest DialogHasWay StreamCurrent
PROPERTIES IssuesLater
CHECK_DEADLOCK FALSE
