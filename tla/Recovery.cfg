SPECIFICATION FairSpec
CONSTANTS
    FileSize = 6
    ResumeOff = 0
    MaxPayload = 3
    OffsetLen = 1
    CancelAllowed = TRUE
    Premature = FALSE
    MaxLoss = 2
    MaxDup = 1
    NegotiatedWindow = 1
    InitialCwnd = 1
    DegradeThreshold = 1
    RecoverThreshold = 2
    AckRetries = 2
    ExtraTries = 0
    DataRetries = 2
    MetaRetries = 1
PROPERTIES
    EventuallyAcked
    Terminates
    CancelPropagates
