SPECIFICATION Spec
CONSTANTS
    MaxTicks = 2
    Explorers <- MCExplorers
    MaxBlock = 2
    MaxWrites = 4
    PerSecond = 2
INVARIANT IInv
PROPERTY NeverGoesBack
PROPERTY TickIsFresh
CHECK_DEADLOCK FALSE
