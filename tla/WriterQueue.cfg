SPECIFICATION FairSpec
CONSTANTS
    r1 = r1
    r2 = r2
    r3 = r3
    b1 = b1
    b2 = b2
    b3 = b3
    b4 = b4
    None = None
    RealtimeTasks = {r1, r2, r3}
    Chunks <- MCChunks
    Malformed = {r2, b2}
    MicroBatchSize = 2
    Workers = {w1, w2}
INVARIANTS SingleWriter Conservation FifoPerTier RealtimeOvertakes
PROPERTIES EveryTaskEnds
CHECK_DEADLOCK FALSE
