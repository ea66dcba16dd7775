SPECIFICATION Spec
CONSTANTS
    N = 2
    W = 2
    MaxReconnect = 2
    AutoReconnect = TRUE
    Commands = {"plus", "minus", "new", "kill"}
    Events = {"eof","refuse","welcome"}
    Hazards = {}
INVARIANT CheckIsTheLoop
INVARIANT EveryOpenServerHasWindow
INVARIANT WindowsServed
