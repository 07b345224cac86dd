SPECIFICATION FairSpec
CONSTANTS
    N = 4
    HasURL <- MCHasURL
    Parallel = 2
    Outcomes = {"ok", "timeout", "auth_error"}
    MaxTicks = 2
INVARIANT IInv
INVARIANT Bounded
INVARIANT CheckedOncePerTick
PROPERTY ErrorPerFailedTick
PROPERTY TicksEnd
PROPERTY Returns
CHECK_DEADLOCK FALSE
