SPECIFICATION FairSpec
CONSTANTS
    s1 = s1
    s2 = s2
    t1 = t1
    t2 = t2
    oper = oper
    luser = luser
    NoTarget = NoTarget
    Server <- MCServer
    Target <- MCTarget
    User <- MCUser
    Opers <- MCOpers
    Filter <- OneSwitch
    MaxId = 4
    MaxSplit = 2
    Hazards = {"ask_in_end", "close_in_callback"}
INVARIANTS
    TypeOK
    QueuesMatchWire
    RightAsker
    BatchesWellFormed
    EveryMatchingLine
PROPERTIES
    EveryQuerySettles
CHECK_DEADLOCK FALSE
