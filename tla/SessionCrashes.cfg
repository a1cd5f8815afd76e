SPECIFICATION FairSpec
CONSTANTS
    Sizes <- LongFiles
    Modes = {"NEVER", "TAIL"}
    TailCaps = {1}
    MinVerifies = {0}
    MismatchSkips = {FALSE}
    Validators = {"ACCEPT"}
    OldRight = TRUE
    AckRetries = 1
    Premature = FALSE
    MaxLoss = 1
    MaxCrash = 2
    MaxSessions = 4
PROPERTIES
    ProgressKept
    SessionEnds
    Recovered
