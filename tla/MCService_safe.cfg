SPECIFICATION Spec
CONSTANTS
    MaxTicks = 3
    NPids = 5
    MaxRestarts = 3
    MaxResets = 2
    Faulty = TRUE
INVARIANT IInv
INVARIANT NeverOvercounts
INVARIANT SteadyTickIsExact
PROPERTY ErrorsMatchFailures
CHECK_DEADLOCK FALSE
