SPECIFICATION FairSpec
CONSTANTS
    Sender = {s1, s2}
    MsgLen <- MCFits
    BUFFER_SIZE = 2
    MAXLISTSIZE = 0
    Param <- MCParam
    MaxSend = 1
    MaxReset = 1
    Nobody = Nobody
INVARIANTS
    TypeOK
    ParamsOwned
    StreamComplete
    StreamInOrder
PROPERTIES
    RingDrained
    SendReturns
CHECK_DEADLOCK FALSE
