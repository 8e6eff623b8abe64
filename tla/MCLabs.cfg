SPECIFICATION LabsSpec
CONSTANTS
    MAX_LEN = 2
    FileSizes <- MCFileSizes
    Troubles <- MCTroubles
    MaxProbes = 4
    Hops = {1, 3}
    Weathers <- MCWeathers
    MaxOthers = 2
    Scripts <- MCScripts
    NameLength = 2
    Disturbances <- MCDisturbances
    EchoBuffer = 2
    LineLengths = {1, 3}
    MaxSays = 2
    MaxUsers = 3
    FirstFd = 1
    LastFd = 3
    Room = 2
    MaxLines = 2
    RequestLength = 2
    BUFLEN = 3
    SizeValues = 32
    Exchanges = 6
    Responses <- MCResponses
    MaxPieces = 3
INVARIANTS
    LabsTypeOK
    CopyIsFile
    AnswersAreOwn
    
    AnswersKeepPace
    
    ReturnsWhole
    MailIsAccepted
PROPERTIES
    LabsEnd
CHECK_DEADLOCK FALSE
