SPECIFICATION Spec
CONSTANTS
    N = 2
    W = 1
    MaxReconnect = 2
    AutoReconnect = FALSE
    Commands = {"server", "next", "reconnect", "disconnect", "discon", "password", "window server"}
    Events = {"eof","welcome","noperm","passwd","killed","unwritable"}
    Hazards = {}
INVARIANT TypeOK
INVARIANT EveryOpenServerHasWindow
