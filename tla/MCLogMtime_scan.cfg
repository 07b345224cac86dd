SPECIFICATION Spec
CONSTANTS
    NComps = 2
    NNames = 2
    MaxTime = 3
    PerSecond = 2
    Unreadable <- MCUnreadable
    MaxTicks = 2
PROPERTY ScanIsAMoment
INVARIANT IInv
PROPERTY TickCoversAll
CHECK_DEADLOCK FALSE
