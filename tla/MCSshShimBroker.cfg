SPECIFICATION FairSpec
CONSTANTS
    s1 = s1
    s2 = s2
    Shims = {s1, s2}
    NoShim = NoShim
INVARIANTS NoSecondClient BarrierFirst ZeroIsEarned
PROPERTY NoneStranded
CHECK_DEADLOCK FALSE
