SPECIFICATION LiveSpec
CONSTANTS
    Attempts = {a1, a2}
    Syncs = {y1}
    Friends = {f1}
    Groups = {g1}
    Convs = {c1}
    Senders = {s1}
    Inputs <- MCInputs
    Limit = 1
    Resyncs = {r1}
    Slots = {1}
    MaxFrames = 2
    Chats = {d1}
    LiveSyncs = {l1}
    MaxInbox = 1
    MaxStates = 2
    MaxEndings = 1
    MaxRestarts = 1
PROPERTIES LoginHappens RowHeals ConversationsArrive SyncEnds GateOpens
CHECK_DEADLOCK FALSE
