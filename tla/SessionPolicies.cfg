SPECIFICATION Spec
CONSTANTS
    Sizes <- TwoFiles
    Modes = {"NEVER", "SKIP_EXISTING", "TAIL"}
    TailCaps = {1}
    MinVerifies = {0, 2}
    MismatchSkips = {TRUE, FALSE}
    Validators = {"ACCEPT", "SKIP", "ABORT"}
    OldRight = FALSE
    AckRetries = 1
    Premature = TRUE
    MaxLoss = 1
    MaxCrash = 0
    MaxSessions = 1
INVARIANTS
    SameOffset
    OkMeansCopied
    SkipKeepsFile
    SentMeansReported
