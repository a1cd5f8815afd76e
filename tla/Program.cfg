SPECIFICATION Spec
CONSTANTS
    NFiles = 3
    SameName = FALSE
    Limit = 2
CHECK_DEADLOCK FALSE
INVARIANTS
    
    BuffersOutliveSession
    SummaryTrue
PROPERTY
    ProgramEnds
