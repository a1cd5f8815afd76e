SPECIFICATION Spec
CONSTANTS
    FileSize = 7
    ResumeOff = 1
    MaxPayload = 3
    OffsetLen = 1
    CancelAllowed = TRUE
    Premature = TRUE
    MaxLoss = 2
    MaxDup = 2
    NegotiatedWindow = 1
    InitialCwnd = 1
    DegradeThreshold = 2
    RecoverThreshold = 2
    AckRetries = 2
    ExtraTries = 0
    DataRetries = 1
    MetaRetries = 1
INVARIANTS
    TypeInv
    StopAndWait
    FileIntegrity
    OkMeansDelivered
    AckedIsWritten
    CancelMeansNotDelivered
PROPERTIES
    ImplementsDelivery
    FileStable
