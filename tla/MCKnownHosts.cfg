SPECIFICATION Spec
CONSTANTS
    c1 = c1
    c2 = c2
    k1 = k1
    k2 = k2
    Clients <- MCClients
    Keys <- MCKeys
    Fingerprints <- MCFingerprints
    NoKey = NoKey
    None = None
    InitialLines <- MCInitialLines
    MaxEdits = 1
SYMMETRY MCSymmetry
INVARIANTS RemovalExact
PROPERTIES LinesSurvive TrustSound
CHECK_DEADLOCK FALSE
