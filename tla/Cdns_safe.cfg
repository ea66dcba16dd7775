SPECIFICATION FairSpec
CONSTANTS
    MaxId = 3
    PipeSize = 2
    Calls = {"stop", "kill"}
INVARIANTS
    TypeOK
    NoLostWakeup
    NoLostResult
    PlainInOrder
PROPERTIES
    Refines
    EveryRequestAnswered
CHECK_DEADLOCK FALSE
