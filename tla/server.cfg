SPECIFICATION FairSpec
CONSTANTS
    Ctx <- MCCtx
    MAXLISTSIZE = 0
    MaxConn = 3
    MaxStart = 2
    MaxReply = 2
    MaxPost = 1
INVARIANTS
    TypeOK
    CtxOwned
    ClientsHaveHandles
    WritesHaveContext
PROPERTIES
    ClosedClientLeaves
    IdleServerCloses
CHECK_DEADLOCK FALSE
