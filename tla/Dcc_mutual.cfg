SPECIFICATION Spec
CONSTANTS
    Kinds = {"CHAT"}
    Size = 1
    Block = 1
    MaxPort = 2
    MaxMsgs = 2
    Hazards = {}
INVARIANTS
    ConnectIsConnection
CHECK_DEADLOCK FALSE
