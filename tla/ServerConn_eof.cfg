SPECIFICATION Spec
CONSTANTS
    N = 2
    W = 1
    MaxReconnect = 2
    AutoReconnect = TRUE
    Commands = {"server"}
    Events = {"eof","refuse","welcome"}
    Hazards = {"eof_in_switch"}
PROPERTY AbandonedNotRetried
