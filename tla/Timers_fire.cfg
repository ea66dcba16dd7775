SPECIFICATION FairSpec
CONSTANTS
    Second = 2
    Name = 5
    MaxNow = 6
    MaxId = 2
    Delays = {2, 3}
    Repeats <- MCRepeats
    Refs = {0, 2, 5}
    Whoms = {0, 5}
    Hazards = {}
CHECK_DEADLOCK FALSE
INVARIANT TypeOK
INVARIANT Sorted
INVARIANT RefsUnique
INVARIANT FiresAsAsked
PROPERTY NoTimerLost
PROPERTY DueTimersFire
PROPERTY PassEnds
