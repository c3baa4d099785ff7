CONSTANTS
    Writers = {"w1", "w2"}
    Worker = "w1"
    Closers = {"c1"}
    CloseReasons = {"Failed", "Cancelled"}
SPECIFICATION FairSpec
INVARIANTS CloseSettles UsedAlive ResultHonest
PROPERTIES ImplementsTransport CloseReturns
CHECK_DEADLOCK FALSE
