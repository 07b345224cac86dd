SPECIFICATION Spec
CONSTANTS
    Lines <- MCBoth
    Stamped <- MCStamped
    Hits <- MCHits
    NPat = 2
    NPaths = 2
    NInodes = 3
    MaxCells = 2
    EnvOps = {"partial", "rotate", "replace", "delete", "tie"}
    Cap = 1
    Faults = {"list", "open", "stat", "read"}
PROPERTY NeverTwice
CHECK_DEADLOCK FALSE
