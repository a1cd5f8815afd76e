SPECIFICATION ReceiverPeerSpec
CONSTANTS
    FileSize = 4
    ResumeOff = 1
    MaxPayload = 3
    OffsetLen = 1
    CancelAllowed = TRUE
    Premature = TRUE
    MaxLoss = 1
    MaxDup = 0
    DataRetries = 1
    MetaRetries = 1
    MaxInLink = 2
INVARIANTS
    FileIntegrity
    AcksCumulative
    DeliveredMeansWhole
