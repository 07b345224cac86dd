SPECIFICATION FairSpec
CONSTANTS
    Feeds <- MCFeedsVote
    Publishes <- MCPublishesLive
    Endless <- MCFeedsBridge
    Lines <- MCLines
    Matches <- MCMatches
    Order <- MCOrder
    Children <- MCChildren
    Cap = 1
    StartTime = 5
    Clock <- MCClock
    MaxLines = 2
    MaxTotal = 4
    MaxRestarts = 1
PROPERTY EverythingCounted
PROPERTY AllStop
CHECK_DEADLOCK FALSE
