SPECIFICATION Spec
CONSTANTS
    MaxMsgs = 2
    MaxReplies = 0
    Lens = {1}
    Loss = FALSE
    Corrupt = FALSE
    BUFFER_SIZE = 2
    serialization_delay = 1
    delay = 1
INVARIANTS
    AssertHolds
CHECK_DEADLOCK FALSE
