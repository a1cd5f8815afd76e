SPECIFICATION Spec
CONSTANTS
    FileSize = 3
    ResumeOff = 0
    MaxPayload = 2
    OffsetLen = 1
    CancelAllowed = FALSE
    Premature = FALSE
    MaxLoss = 1
    MaxDup = 0
    NegotiatedWindow = 2
    InitialCwnd = 2
    DegradeThreshold = 3
    RecoverThreshold = 10
    AckRetries = 4
    ExtraTries = 0
    DataRetries = 4
    MetaRetries = 2
INVARIANT
    FileIntegrity
