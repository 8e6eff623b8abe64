SPECIFICATION StableSpec
CONSTANTS
    ana = ana  bob = bob  a1 = a1  a2 = a2  b1 = b1  b2 = b2  t = t
    NoId = NoId  NoSession = NoSession  Blank = Blank
    Id <- MCId
    Session <- Session4
    SessId <- SessId4
    Topic <- OneTopic
    SentActions <- SfActions
    PubTopic <- OneTopic
    BadDatagrams = FALSE
    Lines = {}
    MaxFd = 6
    InitCap = 1
    MaxMsgs = 1
    MaxActions = 2
SYMMETRY Renamings
INVARIANTS
    StoredAreSendable
CHECK_DEADLOCK FALSE
