SPECIFICATION FairSpec
CONSTANTS
    m1 = m1
    m2 = m2
    c1 = c1
    s1 = s1
    s2 = s2
    MsgIds = {m1, m2}
    Convs = {c1}
    Senders = {s1, s2}
    MaxTs = 2
    Inputs <- MCInputs
    Dumps <- MCDumps
    Resyncs = {r1, r2}
    MaxInflight = 2
    FlushFaults = {}
INVARIANTS UniqueMsgIds SendersKnown
PROPERTIES OnlySwapRegresses StagingEnds ImplementsStore
