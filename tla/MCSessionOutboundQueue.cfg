CONSTANTS
    Capacity = 2
    Generation = 2
    Generations <- MCGenerations
    MaxSequence = 6
SPECIFICATION FairSpec
INVARIANT QueueSound
PROPERTIES ClosingEnds ImplementsChannel
CHECK_DEADLOCK FALSE
