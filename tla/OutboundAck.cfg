SPECIFICATION Spec
CONSTANTS
    Ids = {i1}
    MaxAttempts = 2
PROPERTIES TimeoutMeansNoAck
CHECK_DEADLOCK FALSE
