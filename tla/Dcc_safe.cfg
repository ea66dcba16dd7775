SPECIFICATION FairSpec
CONSTANTS
    Kinds = {"CHAT", "SEND", "TSEND", "RESEND"}
    Size = 4
    Block = 2
    MaxPort = 2
    MaxMsgs = 2
    Hazards = {}
INVARIANTS
    TypeOK
    FileIsPrefix
    NoStandstill
PROPERTIES
    CompleteMeansWhole
    TransferEnds
CHECK_DEADLOCK FALSE
