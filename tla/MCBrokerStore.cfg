SPECIFICATION Spec
CONSTANTS
    ana = ana  bob = bob  a1 = a1  a2 = a2  b1 = b1  b2 = b2  t = t
    NoId = NoId  NoSession = NoSession  Blank = Blank
    Id <- MCId
    Session <- Session3
    SessId <- SessId3
    Topic <- OneTopic
    SentActions <- AllActions
    PubTopic <- OneTopic
    BadDatagrams = TRUE
    Lines = {}
    MaxFd = 6
    InitCap = 1
    MaxMsgs = 2
    MaxActions = 2
SYMMETRY Renamings
INVARIANTS
    PerTopicOrder
CHECK_DEADLOCK FALSE
