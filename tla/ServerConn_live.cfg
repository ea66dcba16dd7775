SPECIFICATION FairSpec
CONSTANTS
    N = 2
    W = 1
    MaxReconnect = 2
    AutoReconnect = TRUE
    Commands = {}
    Events = {"eof","refuse","welcome","killed"}
    Hazards = {}
PROPERTY TryingEndsServed
