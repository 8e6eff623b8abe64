SPECIFICATION FairSpec
CONSTANTS
    MaxMsgs = 4
    MaxReplies = 2
    Lens = {0, 1}
    Loss = TRUE
    Corrupt = TRUE
    BUFFER_SIZE = 2
    serialization_delay = 1
    delay = 1
INVARIANTS
    BufferBounded
    DequeueFindsOne
    SleepsEmptyHanded
    Paced
PROPERTIES
    IsChannel
    Forwarded
CHECK_DEADLOCK FALSE
