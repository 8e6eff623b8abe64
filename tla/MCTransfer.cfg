SPECIFICATION FairSpec
CONSTANTS
    COUNT = 2
    MSGSIZE = 2
    Scale = 10
    Sizes <- MCSizes
    Counts = {0, 5, 8}
    Emulators <- AnyEmulator
INVARIANTS
    Disciplined
    
PROPERTIES
    Completes
CHECK_DEADLOCK FALSE
