SPECIFICATION CratesSpec
CONSTANTS
    Browser = browser
    Injectors = {subA, subB}
    Serialised = TRUE
    MaxSeq = 3
    MaxInject = 2
    MaxMsgs = 4
    Duplicates = FALSE
    Threads = {t1, t2, t3}
    Accounts = {a1, a2}
    UsizeMax = 7
    MaxCalls = 4
    MaxUnits <- MCUnits
    Request = 3
    UpgradeUnit = 2
    Texts = {4}
    ChannelSize = 1
INVARIANTS WireAscends AcksResolve
    EveryArrivalOpens CountCovers StreamIntact CaptureComplete
PROPERTIES EveryUnitArrives
CHECK_DEADLOCK FALSE
