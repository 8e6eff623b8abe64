SPECIFICATION FairSpec
CONSTANTS
    ana = ana  bob = bob  a1 = a1  a2 = a2  b1 = b1  b2 = b2  t = t
    NoId = NoId  NoSession = NoSession  Blank = Blank
    Id <- MCId
    Session <- Session3
    SessId <- SessId3
    Topic <- OneTopic
    SentActions <- AllActions
    PubTopic <- OneTopic
    BadDatagrams = FALSE
    Lines = {"exit", "other", "eof"}
    MaxFd = 6
    InitCap = 1
    MaxMsgs = 0
    MaxActions = 1
INVARIANTS
    Descriptors
    LiveIsConnected
    OneLiveConnectionPerId

    
CHECK_DEADLOCK FALSE
