SPECIFICATION Spec
CONSTANTS
    HeaderLen = 2
    TrailerLen = 1
    OffsetLen = 1
    HighLen = 1
    NakLen = 2
    LenMod = 4
    Word = 2
    MaxContent = 2
    Lengths = {0, 1}
    Offsets = {1, 2}
    Transports = {"tcp", "serial"}
    MaxFrames = 2
    MaxFault = 1
CHECK_DEADLOCK FALSE
INVARIANTS
    FramesFaithful
    BoundaryKept
