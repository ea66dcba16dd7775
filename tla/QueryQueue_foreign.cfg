SPECIFICATION Spec
CONSTANTS
    s1 = s1
    s2 = s2
    t1 = t1
    t2 = t2
    oper = oper
    luser = luser
    NoTarget = NoTarget
    Server <- MCServer
    Target <- MCTarget
    User <- MCUser
    Opers <- MCOpers
    Filter <- NoSwitch
    MaxId = 4
    MaxSplit = 1
    Hazards = {"foreign_close"}
SYMMETRY Symm
INVARIANTS
    RightAsker
CHECK_DEADLOCK FALSE
