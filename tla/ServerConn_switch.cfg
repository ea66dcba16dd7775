SPECIFICATION Spec
CONSTANTS
    N = 3
    W = 2
    MaxReconnect = 2
    AutoReconnect = TRUE
    Commands = {"server", "new"}
    Events = {"eof","refuse","welcome"}
    Hazards = {}
INVARIANT PendingIsReal
INVARIANT OneSuccessor
INVARIANT PrimaryHasWindow
INVARIANT KeptConnected
PROPERTY SwitchKeepsOld
PROPERTY SwitchMovesWindows
