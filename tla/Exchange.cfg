SPECIFICATION ExchangeSpec
CONSTANTS
    TickMod = 7
    DefaultMin = 2
    DefaultMax = 3
    MaxSlice = 2
    MinTimeouts = {3}
    MaxTimeouts = {2}
    StartTicks = {4}
    Files = 2
    FileSizes = {0, 2}
    MaxWindow = 2
    AckRetries = 1
    BackoffBase = 1
    BackoffCeiling = 2
    HealthAttempts = 3
    HealthRetries = 2
    SoftTrips = 2
    Jitter = 1
    MaxNoise = 1
    CancelAllowed = TRUE
CHECK_DEADLOCK FALSE
INVARIANTS
    TimeoutPunctual
    EstimateBounded
    
    
