SPECIFICATION FairSpec
CONSTANTS
    Topic = {t1}
    Junk = Junk
    HDR = 2
    Dims = {1, 2}
    TCP_SIZE = 3
    Habits <- OneHabit
    MaxLines = 3
    MaxActions = 3
    MaxPackets = 2
INVARIANTS
    TypeOK
    
    
PROPERTIES
    PrintsAll
CHECK_DEADLOCK FALSE
