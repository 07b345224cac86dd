SPECIFICATION FairSpec
CONSTANTS
    Lines <- MCBoth
    Stamped <- MCStamped
    Hits <- MCHits
    NPat = 2
    NPaths = 2
    NInodes = 2
    MaxCells = 2
    EnvOps = {"partial", "rotate", "late", "tie", "delete"}
    Cap = 1
    Faults = {"stat"}
PROPERTY NewestReported
PROPERTY Stops
PROPERTY ImplementsFeed
CHECK_DEADLOCK FALSE
