SPECIFICATION Spec
CONSTANTS
    Lines <- MCBothHtml
    Stamped <- MCStamped
    Hits <- MCHits
    NPat = 2
    NPaths = 1
    NInodes = 1
    MaxCells = 3
    EnvOps = {"partial", "truncate"}
    Cap = 1
    Faults = {"list", "open", "stat", "read"}
INVARIANT TypeOK
INVARIANT ExactlyOnce
INVARIANT IInv
CHECK_DEADLOCK FALSE
