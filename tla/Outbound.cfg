SPECIFICATION FairSpec
CONSTANTS
    Ids = {i1}
    MaxAttempts = 3
INVARIANTS DeliveredIsReal FourPerPress
PROPERTIES PendingEnds OutcomeShown
CHECK_DEADLOCK FALSE
