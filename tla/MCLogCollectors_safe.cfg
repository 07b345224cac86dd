SPECIFICATION Spec
CONSTANTS
    Feeds <- MCFeedsAll
    Publishes <- MCPublishes
    Endless <- MCNone
    Lines <- MCLines
    Matches <- MCMatches
    Order <- MCOrder
    Children <- MCChildren
    Cap = 1
    StartTime = 5
    Clock <- MCClock
    MaxLines = 2
    MaxTotal = 2
    MaxRestarts = 1
INVARIANT TypeOK
INVARIANT CountsEachMatchOnce
INVARIANT GaugesTellLogTime
CONSTRAINT OneCollector
CHECK_DEADLOCK FALSE
