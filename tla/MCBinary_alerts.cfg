SPECIFICATION BinarySpec
CONSTANTS
    Feeds <- MCFeeds
    Publishes <- MCPublishes
    Lines <- MCLines
    Matches <- MCMatches
    Order <- MCOrder
    Children <- MCChildren
    Cap = 1
    MaxLines = 2
    MaxTotal = 2
    MaxRestarts = 1
    Endless <- MCNone
    Clock <- MCClock
    StartTime = 2
    Targets <- MCTargets
    Downloaded <- MCDownloaded
    StatFails <- MCStatFails
    HeadFails = TRUE
    Every = 2
    Poll = 1
    Threshold = 2
    For = 2
    MaxTicks = 4
    MaxTime = 10
    MaxFaults = 1
    MaxEvents = 2
INVARIANT BinaryTypeOK
INVARIANT ReportedInTime
INVARIANT ResolvedInTime
INVARIANT AlertMeansMissed
CHECK_DEADLOCK FALSE
