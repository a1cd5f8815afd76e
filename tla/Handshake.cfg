SPECIFICATION FairSpec
CONSTANTS
    Mtus = {1, 2}
    Caps = {0, 1, 5}
    Cwnds = {0, 2}
    Versions = {0, 1}
    HandshakeRetries = 2
    Premature = TRUE
    MaxLoss = 1
INVARIANTS
    MtuAgreed
    WindowWithinPeer

    
