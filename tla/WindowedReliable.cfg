SPECIFICATION Spec
CONSTANTS
    FileSize = 24
    ResumeOff = 2
    MaxPayload = 2
    OffsetLen = 1
    CancelAllowed = TRUE
    Premature = FALSE
    MaxLoss = 0
    MaxDup = 0
    NegotiatedWindow = 4
    InitialCwnd = 4
    DegradeThreshold = 2
    RecoverThreshold = 2
    AckRetries = 1
    ExtraTries = 2
    DataRetries = 1
    MetaRetries = 1
INVARIANTS
    WindowRespected
PROPERTIES
    ImplementsDelivery
