SPECIFICATION MCSpec
CONSTANTS
    Thread <- MCThread
    Leaver <- MCLeaver
    MaxApp = 1
INVARIANTS
    TypeOK
    EarlierLearnsLater
    SnapshotComplete
    LeaverForgotten
PROPERTIES
    EventuallyReachable
\* Once every mailbox is empty the threads sleep until someone sends.
CHECK_DEADLOCK FALSE
