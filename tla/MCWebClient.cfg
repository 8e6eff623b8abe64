SPECIFICATION Spec
CONSTANTS
    User = {u1, u2}
    Widths = {1, 2}
    BUFLEN = 3
    MaxLogins = 3
    MaxBooks = 3
    Ways <- AllWays
INVARIANTS
    SessionSafe
    
PROPERTIES
    OwnLibrary
CHECK_DEADLOCK FALSE
