SPECIFICATION SenderPeerFairSpec
CONSTANTS
    FileSize = 4
    ResumeOff = 0
    MaxPayload = 2
    OffsetLen = 1
    CancelAllowed = FALSE
    Premature = TRUE
    MaxLoss = 1
    MaxDup = 0
    NegotiatedWindow = 2
    InitialCwnd = 2
    DegradeThreshold = 1
    RecoverThreshold = 2
    AckRetries = 1
    ExtraTries = 0
    MaxNaks = 1
INVARIANTS
    AckedWasSent
    InflightCovers
PROPERTIES
    GoBackN
    
