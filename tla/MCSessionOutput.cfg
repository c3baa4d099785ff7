CONSTANTS
    Origins <- MCOrigins
    MaxReplies = 2
    MaximumQueuedChunks = 2
    MaxSequence = 2
    MaxBurst = 1
    MaxStreams = 1
SPECIFICATION SessionSpec
INVARIANT RepliesOnce
CHECK_DEADLOCK FALSE
