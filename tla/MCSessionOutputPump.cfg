CONSTANTS
    Origins <- MCOrigins
    MaxReplies = 1
    MaximumQueuedChunks = 2
    MaxSequence = 1
    MaxBurst = 1
    MaxStreams = 2
SPECIFICATION FairSpec
INVARIANTS OutputCommitted CallsAccounted
PROPERTY CallsReturn
CHECK_DEADLOCK FALSE
