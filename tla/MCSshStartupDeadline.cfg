SPECIFICATION FairSpec
CONSTANTS
    Budget = 3
    MaxSkew = 2
INVARIANT ExpiryHonest
PROPERTIES PhaseOrderly StartupEnds
CHECK_DEADLOCK FALSE
