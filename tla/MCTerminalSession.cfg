SPECIFICATION FairSpec
CONSTANTS
    MaxOverlays = 2
    MaxInputs = 2
    MayBlock = {0, 1, 2}
    PeersFail = TRUE
INVARIANTS InputFollowsState CloseReleasesAll
PROPERTIES SessionEnds InputReopens
CHECK_DEADLOCK FALSE
