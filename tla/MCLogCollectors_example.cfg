SPECIFICATION Spec
CONSTANTS
    Feeds <- MCFeedsBridge
    Publishes <- MCPublishesExample
    Endless <- MCNone
    Lines <- MCLines
    Matches <- MCMatches
    Order <- MCOrder
    Children <- MCChildren
    Cap = 1
    StartTime = 5
    Clock <- MCClock
    MaxLines = 2
    MaxTotal = 2
    MaxRestarts = 1
INVARIANT VotesAddedOnce
CHECK_DEADLOCK FALSE
