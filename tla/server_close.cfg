SPECIFICATION FairSpec
CONSTANTS
    Ctx <- MCCtx
    MAXLISTSIZE = 0
    MaxConn = 1
    MaxStart = 1
    MaxReply = 0
    MaxPost = 0
PROPERTIES
    CloseCompletes
CHECK_DEADLOCK FALSE
