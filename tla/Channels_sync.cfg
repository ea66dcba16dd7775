SPECIFICATION FairSpec
CONSTANTS
    Nicks = {"m", "x", "y"}
    Me = "m"
    MaxMoves = 4
INVARIANTS
    TypeOK
    MembersMatch
    SyncIsComplete
PROPERTIES
    JoinEnds
CHECK_DEADLOCK FALSE
