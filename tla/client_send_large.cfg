SPECIFICATION FairSpec
CONSTANTS
    Sender = {s1}
    MsgLen <- MCTooLong
    BUFFER_SIZE = 2
    MAXLISTSIZE = 0
    Param <- MCParam
    MaxSend = 1
    MaxReset = 0
    Nobody = Nobody
PROPERTIES
    SendReturns
CHECK_DEADLOCK FALSE
