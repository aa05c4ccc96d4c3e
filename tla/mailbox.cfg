SPECIFICATION FairSpec
CONSTANTS
    Sender = {s1, s2}
    Disp = disp
    Addr = {n1, n2, n3}
    Msg = {m1, m2}
    NULL = NULL
    NoMsg = NoMsg
    Free = Free
INVARIANTS
    TypeOK
    LockInv
    RingInv
    WalkInv
    OwnedInv
PROPERTIES
    ImplementsQueue
    Delivered
