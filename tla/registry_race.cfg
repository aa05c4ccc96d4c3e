SPECIFICATION FairSpec
CONSTANTS
    Thread <- MCThread
    Leaver <- Nobody
    MaxApp = 1
INVARIANTS
    AnyThreadReachable
CHECK_DEADLOCK FALSE
